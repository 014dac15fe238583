-------------------------- MODULE MultiStatsProofs --------------------------
(***************************************************************************)
(* Proofs about MultiStats for every set of symbols, streams and groups,   *)
(* and all bounds.  IInv is inductive: the buckets that are kept hold what *)
(* the history holds of their seconds (BucketsInv), the maximum of a       *)
(* symbol bounds what was received of it (CoverageInv), and a change of    *)
(* connection pays for one reset per symbol (ResetsInv).                   *)
(***************************************************************************)
EXTENDS MultiStats, FiniteSetTheorems, TLAPS

USE StreamsAssumption, SymbolsAssumption, NobodyAssumption

USE DEF connectionVars, observerVars

DepthGroup == GroupOf["depth"]

Observed(symbol) == depth[symbol] # Nobody

DataOK ==
  /\ clock \in 0 .. MaxSecond
  /\ connection \in [Groups -> Nat]
  /\ \A group \in Groups : connection[group] \in 1 .. MaxConnection[group]
  /\ {control, gapCount, resets} \subseteq Nat /\ cumulative \in [Streams -> Nat]
  /\ lastIds \in [Groups -> Nat \union {Nobody}] /\ changes \in [Groups -> Nat]
  /\ depth \in [Symbols -> {Nobody} \union [connection : Nat, maximum : Nat]]
  /\ since \in [Symbols -> Nat] /\ covered \in [Symbols -> SUBSET Nat]
  /\ gapsOf \in [Symbols -> Nat]

(* Connections are noted when a message of theirs is counted, before the   *)
(* observer sees it.                                                       *)
ConnectionsInv ==
  /\ \A group \in Groups : lastIds[group] \in (1 .. connection[group]) \union {Nobody}
  /\ \A symbol \in Symbols : Observed(symbol) =>
       /\ depth[symbol].connection \in 1 .. connection[DepthGroup]
       /\ depth[symbol].maximum \in 1 .. MaxUpdate

(* The symbols that have been observed on the connection noted last. *)
Current ==
  {symbol \in Symbols : Observed(symbol) /\ depth[symbol].connection = lastIds[DepthGroup]}

(* Before the first change there was no reset; since the last change only  *)
(* symbols observed on the connection of now may have been reset.          *)
ResetsInv ==
  /\ lastIds[DepthGroup] = Nobody => changes[DepthGroup] = 0
  /\ \A symbol \in Symbols : Observed(symbol) => lastIds[DepthGroup] # Nobody
  /\ changes[DepthGroup] = 0 =>
       resets = 0 /\ \A symbol \in Symbols : Observed(symbol) => symbol \in Current
  /\ changes[DepthGroup] > 0 =>
       resets <= Cardinality(Symbols) * (changes[DepthGroup] - 1) + Cardinality(Current)

KeptCount(i, key) == IF i \in DOMAIN buckets THEN CountIn(buckets[i], key) ELSE 0

BucketsOK ==
  /\ DOMAIN buckets \subseteq 0 .. clock
  /\ \A i \in DOMAIN buckets : \A key \in DOMAIN buckets[i] : key \in Keys /\ buckets[i][key] \in Nat
  /\ Cardinality(DOMAIN buckets) <= 2

(* Of this second and the one before, the buckets have all messages. *)
BucketsInv ==
  /\ log \in [0 .. MaxSecond -> [Keys -> Nat]]
  /\ \A i \in 0 .. MaxSecond : i + 1 >= clock => \A key \in Keys : log[i][key] = KeptCount(i, key)

(* The screen was not filled in the future. *)
ShownInv == shown = [at |-> shown.at, rates |-> shown.rates] /\ shown.at \in 0 .. clock

(* What was received of a symbol ends with its maximum, and begins, as     *)
(* long as no gap was counted, without a hole.                             *)
CoverageOf(symbol) ==
  IF Observed(symbol)
  THEN /\ \A id \in covered[symbol] : id <= depth[symbol].maximum
       /\ gapsOf[symbol] = 0 => since[symbol] .. depth[symbol].maximum \subseteq covered[symbol]
  ELSE covered[symbol] = {}

CoverageInv == \A symbol \in Symbols : CoverageOf(symbol)

IInv ==
  /\ DataOK /\ ConnectionsInv /\ ResetsInv /\ BucketsOK /\ BucketsInv /\ ShownInv
  /\ CoverageInv /\ ShownIsLastSecond

----------------------------------------------------------------------------
(* The initial states. *)

LEMMA DepthGroupExists == DepthGroup \in Groups
BY DEF DepthGroup, Groups

LEMMA InitInv == Init => IInv
<1> SUFFICES ASSUME Init PROVE IInv
  OBVIOUS
<1> USE DEF Init
<1>1. DataOK /\ ConnectionsInv
  <2>1. ASSUME NEW group \in Groups
        PROVE  connection[group] = 1 /\ 1 \in 1 .. MaxConnection[group]
    BY MaxConnection[group] \in Nat \ {0}
  <2>2. \A symbol \in Symbols : ~ Observed(symbol)
    BY DEF Observed
  <2>3. QED
    BY <2>1, <2>2 DEF DataOK, ConnectionsInv
<1>2. ResetsInv
  BY DepthGroupExists DEF ResetsInv, Observed
<1>3. BucketsOK /\ BucketsInv
  <2>1. DOMAIN buckets = {}
    OBVIOUS
  <2>2. QED
    BY <2>1, FS_EmptySet DEF BucketsOK, BucketsInv, KeptCount
<1>4. ShownInv /\ ShownIsLastSecond
  BY DEF ShownInv, ShownIsLastSecond
<1>5. CoverageInv
  BY DEF CoverageInv, CoverageOf, Observed
<1>6. QED
  BY <1>1, <1>2, <1>3, <1>4, <1>5 DEF IInv

----------------------------------------------------------------------------
(* The connections and the observer.                                       *)

(* What a depth message may say it covers. *)
LEMMA RangeTypes ==
  ASSUME NEW range \in Ranges
  PROVE  /\ range[1] \in 1 .. MaxUpdate /\ range[2] \in 1 .. MaxUpdate
BY DEF Ranges

(* A range that is not NoRange belongs to a message of the depth stream.   *)
LEMMA ReceivedCases ==
  ASSUME NEW symbol \in Symbols, NEW stream \in Streams,
         NEW range \in IF stream = "depth" THEN Ranges \union {NoRange} ELSE {NoRange},
         RecordReceived(symbol, stream, range)
  PROVE  \/ UNCHANGED observerVars
         \/ stream = "depth" /\ range \in Ranges /\ Observe(symbol, connection[DepthGroup], range)
BY DEF RecordReceived, DepthGroup

(* The two shapes of a step of the observer. *)
Afresh(symbol, range) ==
  /\ StartAfresh(symbol, connection[DepthGroup], range)
  /\ \/ ~ Observed(symbol) /\ UNCHANGED resets
     \/ Observed(symbol) /\ depth[symbol].connection # connection[DepthGroup] /\ resets' = resets + 1

Continued(symbol, range) ==
  /\ Observed(symbol) /\ depth[symbol].connection = connection[DepthGroup]
  /\ CountGap(symbol, range)
  /\ depth' = [depth EXCEPT ![symbol] =
                 [connection |-> connection[DepthGroup],
                  maximum |-> NewMaximum(depth[symbol].maximum, range)]]
  /\ covered' = [covered EXCEPT ![symbol] = @ \union (range[1] .. range[2])]
  /\ UNCHANGED <<resets, since>>

LEMMA ObserveCases ==
  ASSUME DataOK, NEW symbol \in Symbols, NEW range \in Ranges,
         Observe(symbol, connection[DepthGroup], range)
  PROVE  Afresh(symbol, range) \/ Continued(symbol, range)
<1>1. CASE Observed(symbol) /\ depth[symbol].connection = connection[DepthGroup]
  <2>1. depth[symbol] \in [connection : Nat, maximum : Nat]
    BY <1>1 DEF DataOK, Observed
  <2>2. [depth[symbol] EXCEPT !.maximum = NewMaximum(@, range)] =
          [connection |-> connection[DepthGroup],
           maximum |-> NewMaximum(depth[symbol].maximum, range)]
    BY <1>1, <2>1
  <2>3. depth' = [depth EXCEPT ![symbol].maximum = NewMaximum(@, range)]
    BY <1>1 DEF Observe, Observed
  <2>4. QED
    BY <1>1, <2>2, <2>3 DEF Observe, Observed, Continued
<1>2. CASE ~ (Observed(symbol) /\ depth[symbol].connection = connection[DepthGroup])
  BY <1>2 DEF Observe, Observed, Afresh
<1>3. QED
  BY <1>1, <1>2

(* The record of the symbol that was observed, and of the others. *)
LEMMA ObserveEffect ==
  ASSUME DataOK, ConnectionsInv, NEW symbol \in Symbols, NEW range \in Ranges,
         Afresh(symbol, range) \/ Continued(symbol, range)
  PROVE  \E maximum \in 1 .. MaxUpdate :
           /\ depth' = [depth EXCEPT ![symbol] =
                          [connection |-> connection[DepthGroup], maximum |-> maximum]]
           /\ range[2] <= maximum
<1> USE RangeTypes
<1>1. CASE Afresh(symbol, range)
  <2>1. depth' = [depth EXCEPT ![symbol] =
                    [connection |-> connection[DepthGroup], maximum |-> range[2]]]
    BY <1>1 DEF Afresh, StartAfresh
  <2>2. range[2] \in 1 .. MaxUpdate /\ range[2] <= range[2]
    OBVIOUS
  <2>3. QED
    BY <2>1, <2>2
<1>2. CASE Continued(symbol, range)
  <2> DEFINE maximum == NewMaximum(depth[symbol].maximum, range)
  <2>1. depth[symbol].maximum \in 1 .. MaxUpdate
    BY <1>2 DEF Continued, ConnectionsInv
  <2>2. maximum \in 1 .. MaxUpdate /\ range[2] <= maximum
    BY <2>1 DEF NewMaximum
  <2>3. QED
    BY <1>2, <2>2 DEF Continued
<1>3. QED
  BY <1>1, <1>2

LEMMA DataPreserved ==
  ASSUME DataOK, ConnectionsInv, [Next]_vars
  PROVE  DataOK'
<1> USE DEF DataOK
<1>1. CASE SecondPasses
  BY <1>1 DEF SecondPasses
<1>2. CASE RecordControl
  BY <1>2 DEF RecordControl
<1>3. CASE Snapshot
  BY <1>3 DEF Snapshot
<1>4. ASSUME NEW group \in Groups, Reconnect(group)
      PROVE  DataOK'
  <2>1. \A g \in Groups : MaxConnection[g] \in Nat
    OBVIOUS
  <2>2. QED
    BY <1>4, <2>1 DEF Reconnect
<1>5. ASSUME NEW symbol \in Symbols, NEW stream \in Streams,
             NEW range \in IF stream = "depth" THEN Ranges \union {NoRange} ELSE {NoRange},
             RecordReceived(symbol, stream, range)
      PROVE  DataOK'
  <2>1. GroupOf[stream] \in Groups
    BY DEF Groups
  <2>2. clock' = clock /\ connection' = connection /\ control' = control
    BY <1>5 DEF RecordReceived
  <2>3. cumulative' \in [Streams -> Nat]
    BY <1>5 DEF RecordReceived
  <2>4. lastIds' \in [Groups -> Nat \union {Nobody}] /\ changes' \in [Groups -> Nat]
    BY <1>5, <2>1 DEF RecordReceived, NoteConnection
  <2>5. CASE UNCHANGED observerVars
    BY <2>2, <2>3, <2>4, <2>5
  <2>6. CASE range \in Ranges /\ Observe(symbol, connection[DepthGroup], range)
    <3>1. Afresh(symbol, range) \/ Continued(symbol, range)
      BY <2>6, ObserveCases
    <3>2. PICK maximum \in 1 .. MaxUpdate :
            depth' = [depth EXCEPT ![symbol] =
                        [connection |-> connection[DepthGroup], maximum |-> maximum]]
      BY <2>6, <3>1, ObserveEffect
    <3>3. depth' \in [Symbols -> {Nobody} \union [connection : Nat, maximum : Nat]]
      BY <3>2, DepthGroupExists
    <3>4. range[1] \in Nat /\ range[1] .. range[2] \subseteq Nat
      BY <2>6, RangeTypes
    <3>5. {gapCount', resets'} \subseteq Nat /\ gapsOf' \in [Symbols -> Nat]
      BY <3>1 DEF Afresh, StartAfresh, Continued, CountGap
    <3>6. since' \in [Symbols -> Nat]
      BY <3>1, <3>4 DEF Afresh, StartAfresh, Continued
    <3>7. covered' \in [Symbols -> SUBSET Nat]
      <4> DEFINE ids == range[1] .. range[2]
      <4>1. ids \in SUBSET Nat
        BY <3>4
      <4>2. \/ covered' = [covered EXCEPT ![symbol] = ids]
            \/ covered' = [covered EXCEPT ![symbol] = @ \union ids]
        BY <3>1 DEF Afresh, StartAfresh, Continued
      <4> HIDE DEF ids
      <4>3. covered[symbol] \union ids \in SUBSET Nat
        BY <4>1
      <4>4. QED
        BY <4>1, <4>2, <4>3
    <3>8. QED
      BY <2>2, <2>3, <2>4, <3>3, <3>5, <3>6, <3>7
  <2>7. QED
    BY <1>5, <2>5, <2>6, ReceivedCases
<1>6. CASE UNCHANGED vars
  BY <1>6 DEF vars
<1>7. QED
  BY <1>1, <1>2, <1>3, <1>4, <1>5, <1>6 DEF Next

LEMMA ConnectionsPreserved ==
  ASSUME DataOK, ConnectionsInv, [Next]_vars
  PROVE  ConnectionsInv'
<1> USE DEF ConnectionsInv, Observed
<1>0. \A group \in Groups : connection[group] \in Nat
  BY DEF DataOK
<1>1. CASE UNCHANGED <<connection, connectionVars, observerVars>>
  BY <1>1
<1>2. ASSUME NEW group \in Groups, Reconnect(group)
      PROVE  ConnectionsInv'
  <2>1. \A g \in Groups : connection'[g] \in Nat /\ connection[g] <= connection'[g]
    BY <1>0, <1>2 DEF Reconnect, DataOK
  <2>2. QED
    BY <1>0, <1>2, <2>1, DepthGroupExists DEF Reconnect
<1>3. ASSUME NEW symbol \in Symbols, NEW stream \in Streams,
             NEW range \in IF stream = "depth" THEN Ranges \union {NoRange} ELSE {NoRange},
             RecordReceived(symbol, stream, range)
      PROVE  ConnectionsInv'
  <2>1. connection' = connection
    BY <1>3 DEF RecordReceived
  <2>2. \A group \in Groups : 1 <= connection[group]
    BY DEF DataOK
  <2>3. \A group \in Groups : lastIds'[group] \in (1 .. connection[group]) \union {Nobody}
    BY <1>0, <1>3, <2>2 DEF RecordReceived, NoteConnection, DataOK
  <2>4. CASE UNCHANGED observerVars
    BY <2>1, <2>3, <2>4
  <2>5. CASE range \in Ranges /\ Observe(symbol, connection[DepthGroup], range)
    <3>1. PICK maximum \in 1 .. MaxUpdate :
            depth' = [depth EXCEPT ![symbol] =
                        [connection |-> connection[DepthGroup], maximum |-> maximum]]
      BY <2>5, ObserveCases, ObserveEffect
    <3>2. connection[DepthGroup] \in 1 .. connection[DepthGroup]
      BY <1>0, <2>2, DepthGroupExists
    <3>3. QED
      BY <2>1, <2>3, <3>1, <3>2 DEF DataOK
  <2>6. QED
    BY <1>3, <2>4, <2>5, ReceivedCases
<1>4. QED
  BY <1>1, <1>2, <1>3 DEF Next, SecondPasses, RecordControl, Snapshot, vars

----------------------------------------------------------------------------
(* The resets.                                                             *)

LEMMA CurrentIsBounded ==
  /\ IsFiniteSet(Current) /\ Cardinality(Current) \in Nat
  /\ Cardinality(Symbols) \in Nat /\ Cardinality(Current) <= Cardinality(Symbols)
BY FS_Subset, FS_CardinalityType DEF Current

LEMMA Distribution == \A c, n \in Nat : c * n \in Nat /\ (n > 0 => c * n = c * (n - 1) + c)
OBVIOUS

(* Every change pays for one reset of each symbol. *)
LEMMA ResetsPaidFor ==
  ASSUME DataOK, ResetsInv
  PROVE  resets <= Cardinality(Symbols) * changes[DepthGroup]
<1>1. changes[DepthGroup] \in Nat /\ resets \in Nat
  BY DepthGroupExists DEF DataOK
<1>2. CASE changes[DepthGroup] = 0
  BY <1>1, <1>2, CurrentIsBounded, Distribution DEF ResetsInv
<1>3. CASE changes[DepthGroup] > 0
  <2>1. resets <= Cardinality(Symbols) * (changes[DepthGroup] - 1) + Cardinality(Current)
    BY <1>3 DEF ResetsInv
  <2> DEFINE c == Cardinality(Symbols)
             n == changes[DepthGroup]
  <2>2. c * n = c * (n - 1) + c /\ c * (n - 1) \in Nat
    BY <1>1, <1>3, CurrentIsBounded, Distribution
  <2> HIDE DEF c, n
  <2>3. QED
    BY <1>1, <2>1, <2>2, CurrentIsBounded DEF c, n
<1>4. QED
  BY <1>1, <1>2, <1>3

(* A step that keeps the number of changes loses no symbol that was        *)
(* observed on the connection of now, and gains the one it resets.         *)
LEMMA ResetsKept ==
  ASSUME DataOK, ResetsInv, DataOK',
         changes'[DepthGroup] = changes[DepthGroup],
         lastIds[DepthGroup] # Nobody => lastIds'[DepthGroup] = lastIds[DepthGroup],
         \A symbol \in Symbols : Observed(symbol)' =>
            \/ Observed(symbol) /\ depth'[symbol] = depth[symbol]
            \/ lastIds'[DepthGroup] # Nobody /\ depth'[symbol].connection = lastIds'[DepthGroup],
         \A symbol \in Symbols : Observed(symbol) => Observed(symbol)',
         \/ resets' = resets
         \/ /\ resets' = resets + 1
            /\ \E symbol \in Symbols : symbol \in Current' /\ symbol \notin Current /\ Observed(symbol)
  PROVE  ResetsInv'
<1> DEFINE changed == changes[DepthGroup]
<1>0. /\ changed \in Nat /\ resets \in Nat
      /\ IsFiniteSet(Current') /\ Cardinality(Current') \in Nat
  BY DepthGroupExists, CurrentIsBounded, FS_Subset, FS_CardinalityType DEF DataOK, Current
<1>1. Current \subseteq Current'
  <2> SUFFICES ASSUME NEW symbol \in Current PROVE symbol \in Current'
    OBVIOUS
  <2>1. Observed(symbol) /\ symbol \in Symbols /\ depth[symbol].connection = lastIds[DepthGroup]
    BY DEF Current
  <2>2. lastIds'[DepthGroup] = lastIds[DepthGroup]
    BY <2>1 DEF ResetsInv
  <2>3. QED
    BY <2>1, <2>2 DEF Current
<1>2. Cardinality(Current) <= Cardinality(Current')
  BY <1>0, <1>1, FS_Subset
<1>3. ASSUME NEW symbol \in Symbols, symbol \in Current', symbol \notin Current
      PROVE  Cardinality(Current) + 1 <= Cardinality(Current')
  <2>1. Current \union {symbol} \subseteq Current'
    BY <1>1, <1>3
  <2>2. Cardinality(Current \union {symbol}) = Cardinality(Current) + 1
    BY <1>3, CurrentIsBounded, FS_AddElement
  <2>3. QED
    BY <1>0, <2>1, <2>2, FS_Subset
<1>4. lastIds'[DepthGroup] = Nobody => changed = 0
  BY DEF ResetsInv
<1>5. ASSUME NEW symbol \in Symbols, Observed(symbol)'
      PROVE  lastIds'[DepthGroup] # Nobody
  BY <1>5 DEF ResetsInv
<1>6. ASSUME changed = 0
      PROVE  /\ resets' = 0
             /\ \A symbol \in Symbols : Observed(symbol)' => symbol \in Current'
  <2>1. resets' = 0
    BY <1>6 DEF ResetsInv
  <2>2. ASSUME NEW symbol \in Symbols, Observed(symbol)'
        PROVE  symbol \in Current'
    BY <1>1, <1>6, <2>2 DEF ResetsInv, Current
  <2>3. QED
    BY <2>1, <2>2
<1>7. ASSUME changed > 0
      PROVE  resets' <= Cardinality(Symbols) * (changed - 1) + Cardinality(Current')
  <2> DEFINE paid == Cardinality(Symbols) * (changed - 1)
  <2>1. paid \in Nat
    BY <1>0, <1>7, CurrentIsBounded, Distribution
  <2>2. resets <= paid + Cardinality(Current)
    BY <1>7 DEF ResetsInv
  <2> HIDE DEF paid
  <2>3. resets' <= paid + Cardinality(Current')
    BY <1>0, <1>2, <1>3, <2>1, <2>2, CurrentIsBounded
  <2>4. QED
    BY <2>3 DEF paid
<1>8. QED
  BY <1>4, <1>5, <1>6, <1>7 DEF ResetsInv

(* After a change of the connection all symbols may be reset once more. *)
LEMMA ResetsAfterChange ==
  ASSUME DataOK, ResetsInv, DataOK',
         changes'[DepthGroup] = changes[DepthGroup] + 1,
         lastIds'[DepthGroup] # Nobody,
         \/ resets' = resets
         \/ resets' = resets + 1 /\ \E symbol \in Symbols : symbol \in Current'
  PROVE  ResetsInv'
<1> DEFINE paid == Cardinality(Symbols) * changes[DepthGroup]
<1>0. /\ changes[DepthGroup] \in Nat /\ resets \in Nat
      /\ IsFiniteSet(Current') /\ Cardinality(Current') \in Nat
  BY DepthGroupExists, FS_Subset, FS_CardinalityType DEF DataOK, Current
<1>1. Current' # {} => Cardinality(Current') >= 1
  BY <1>0, FS_EmptySet
<1>2. paid \in Nat /\ resets <= paid
  BY <1>0, CurrentIsBounded, Distribution, ResetsPaidFor
<1> HIDE DEF paid
<1>3. resets' <= paid + Cardinality(Current')
  BY <1>0, <1>1, <1>2
<1>4. changes'[DepthGroup] - 1 = changes[DepthGroup] /\ changes'[DepthGroup] # 0
  BY <1>0
<1>5. QED
  BY <1>3, <1>4 DEF ResetsInv, paid

LEMMA ResetsPreserved ==
  ASSUME DataOK, ConnectionsInv, ResetsInv, [Next]_vars
  PROVE  ResetsInv'
<1>0. DataOK'
  BY DataPreserved
<1>1. CASE UNCHANGED <<connectionVars, observerVars>>
  BY <1>1 DEF ResetsInv, Current, Observed
<1>2. ASSUME NEW symbol \in Symbols, NEW stream \in Streams,
             NEW range \in IF stream = "depth" THEN Ranges \union {NoRange} ELSE {NoRange},
             RecordReceived(symbol, stream, range)
      PROVE  ResetsInv'
  <2> DEFINE group == GroupOf[stream]
             id == connection[DepthGroup]
  <2>1. group \in Groups /\ NoteConnection(group, connection[group]) /\ connection' = connection
    BY <1>2 DEF RecordReceived, Groups
  <2>2. id \in Nat /\ id # Nobody
    BY DepthGroupExists DEF DataOK
  <2>3. /\ lastIds \in [Groups -> Nat \union {Nobody}] /\ changes \in [Groups -> Nat]
        /\ depth \in [Symbols -> {Nobody} \union [connection : Nat, maximum : Nat]]
    BY DEF DataOK
  <2>4. \/ /\ lastIds'[DepthGroup] = lastIds[DepthGroup]
           /\ changes'[DepthGroup] = changes[DepthGroup]
        \/ /\ lastIds[DepthGroup] = Nobody /\ lastIds'[DepthGroup] = id
           /\ changes'[DepthGroup] = changes[DepthGroup]
        \/ /\ lastIds[DepthGroup] # Nobody /\ lastIds[DepthGroup] # id
           /\ lastIds'[DepthGroup] = id
           /\ changes'[DepthGroup] = changes[DepthGroup] + 1
    <3>1. CASE group # DepthGroup
      BY <2>1, <2>3, <3>1, DepthGroupExists DEF NoteConnection
    <3>2. CASE group = DepthGroup
      BY <2>1, <2>3, <3>2, DepthGroupExists DEF NoteConnection
    <3>3. QED
      BY <3>1, <3>2
  <2>5. CASE UNCHANGED observerVars
    <3>1. CASE changes'[DepthGroup] = changes[DepthGroup]
      <4>1. \A other \in Symbols : Observed(other)' <=> Observed(other)
        BY <2>5 DEF Observed
      <4>2. lastIds[DepthGroup] # Nobody => lastIds'[DepthGroup] = lastIds[DepthGroup]
        BY <2>3, <2>4, <3>1, DepthGroupExists
      <4>3. resets' = resets /\ depth' = depth
        BY <2>5
      <4>4. QED
        BY <1>0, <3>1, <4>1, <4>2, <4>3, ResetsKept
    <3>2. CASE changes'[DepthGroup] # changes[DepthGroup]
      <4>1. changes'[DepthGroup] = changes[DepthGroup] + 1 /\ lastIds'[DepthGroup] # Nobody
        BY <2>2, <2>4, <3>2
      <4>2. resets' = resets
        BY <2>5
      <4>3. QED
        BY <1>0, <4>1, <4>2, ResetsAfterChange
    <3>3. QED
      BY <3>1, <3>2
  <2>6. CASE stream = "depth" /\ range \in Ranges /\ Observe(symbol, id, range)
    <3>0. Afresh(symbol, range) \/ Continued(symbol, range)
      BY <2>6, ObserveCases
    <3>1. PICK maximum \in 1 .. MaxUpdate :
            depth' = [depth EXCEPT ![symbol] = [connection |-> id, maximum |-> maximum]]
      BY <2>6, <3>0, ObserveEffect
    <3>2. lastIds'[DepthGroup] = id
      BY <2>1, <2>3, <2>6, DepthGroupExists DEF NoteConnection, DepthGroup
    <3>3. symbol \in Current'
      <4>1. depth'[symbol] = [connection |-> id, maximum |-> maximum]
        BY <2>3, <3>1
      <4>2. depth'[symbol] # Nobody
        BY <2>2, <4>1
      <4>3. QED
        BY <3>2, <4>1, <4>2 DEF Current, Observed
    <3>4. \A other \in Symbols : other # symbol => depth'[other] = depth[other]
      BY <2>3, <3>1
    <3>5. \/ resets' = resets
          \/ /\ resets' = resets + 1 /\ Observed(symbol)
             /\ depth[symbol].connection # id
      BY <3>0 DEF Afresh, Continued
    <3>6. CASE changes'[DepthGroup] = changes[DepthGroup]
      <4>1. lastIds[DepthGroup] # Nobody => lastIds'[DepthGroup] = lastIds[DepthGroup]
        BY <2>3, <2>4, <3>6, DepthGroupExists
      <4>2. ASSUME NEW other \in Symbols, Observed(other)'
            PROVE  \/ Observed(other) /\ depth'[other] = depth[other]
                   \/ lastIds'[DepthGroup] # Nobody /\ depth'[other].connection = lastIds'[DepthGroup]
        BY <2>2, <3>2, <3>3, <3>4, <4>2 DEF Current, Observed
      <4>3. ASSUME NEW other \in Symbols, Observed(other)
            PROVE  Observed(other)'
        BY <3>3, <3>4, <4>3 DEF Current, Observed
      <4>4. Observed(symbol) /\ depth[symbol].connection # id => symbol \notin Current
        BY <3>2, <4>1 DEF Current, ResetsInv
      <4>5. \/ resets' = resets
            \/ /\ resets' = resets + 1
               /\ \E other \in Symbols : other \in Current' /\ other \notin Current /\ Observed(other)
        BY <3>3, <3>5, <4>4
      <4>6. QED
        BY <1>0, <3>6, <4>1, <4>2, <4>3, <4>5, ResetsKept
    <3>7. CASE changes'[DepthGroup] # changes[DepthGroup]
      <4>1. changes'[DepthGroup] = changes[DepthGroup] + 1 /\ lastIds'[DepthGroup] # Nobody
        BY <2>2, <2>4, <3>7
      <4>2. QED
        BY <1>0, <3>3, <3>5, <4>1, ResetsAfterChange
    <3>8. QED
      BY <3>6, <3>7
  <2>7. QED
    BY <1>2, <2>5, <2>6, ReceivedCases
<1>3. QED
  BY <1>1, <1>2 DEF Next, SecondPasses, Reconnect, RecordControl, Snapshot, vars

----------------------------------------------------------------------------
(* The update IDs.                                                         *)

LEMMA CoveragePreserved ==
  ASSUME DataOK, ConnectionsInv, CoverageInv, [Next]_vars
  PROVE  CoverageInv'
<1>1. CASE UNCHANGED observerVars
  BY <1>1 DEF CoverageInv, CoverageOf, Observed
<1>2. ASSUME NEW symbol \in Symbols, NEW stream \in Streams,
             NEW range \in IF stream = "depth" THEN Ranges \union {NoRange} ELSE {NoRange},
             RecordReceived(symbol, stream, range), range \in Ranges,
             Observe(symbol, connection[DepthGroup], range)
      PROVE  CoverageInv'
  <2> DEFINE ids == range[1] .. range[2]
  <2>0. range[1] \in Nat /\ range[2] \in Nat
    BY <1>2, RangeTypes
  <2>1. /\ depth \in [Symbols -> {Nobody} \union [connection : Nat, maximum : Nat]]
        /\ since \in [Symbols -> Nat] /\ covered \in [Symbols -> SUBSET Nat]
        /\ gapsOf \in [Symbols -> Nat] /\ connection[DepthGroup] \in Nat
    BY DepthGroupExists DEF DataOK
  <2>2. ASSUME NEW other \in Symbols, other # symbol
        PROVE  CoverageOf(other)'
    <3>1. /\ depth'[other] = depth[other] /\ covered'[other] = covered[other]
          /\ gapsOf'[other] = gapsOf[other] /\ since'[other] = since[other]
      BY <1>2, <2>1, <2>2, ObserveCases
         DEF Afresh, StartAfresh, Continued, CountGap
    <3>2. QED
      BY <3>1 DEF CoverageInv, CoverageOf, Observed
  <2>3. CASE Afresh(symbol, range)
    <3>1. /\ depth'[symbol] = [connection |-> connection[DepthGroup], maximum |-> range[2]]
          /\ since'[symbol] = range[1] /\ covered'[symbol] = ids
      BY <2>1, <2>3 DEF Afresh, StartAfresh
    <3>2. depth'[symbol].maximum = range[2] /\ depth'[symbol] # Nobody
      BY <2>0, <2>1, <3>1
    <3>3. CoverageOf(symbol)'
      BY <2>0, <3>1, <3>2 DEF CoverageOf, Observed
    <3>4. QED
      BY <2>2, <3>3 DEF CoverageInv
  <2>4. CASE Continued(symbol, range)
    <3> DEFINE old == depth[symbol].maximum
    <3>0. old \in Nat /\ covered[symbol] \subseteq Nat /\ since[symbol] \in Nat
      BY <2>1, <2>4 DEF Continued, Observed
    <3>1. /\ \A id \in covered[symbol] : id <= old
          /\ gapsOf[symbol] = 0 => since[symbol] .. old \subseteq covered[symbol]
      BY <2>4 DEF Continued, CoverageInv, CoverageOf
    <3>2. /\ depth'[symbol] = [connection |-> connection[DepthGroup],
                              maximum |-> NewMaximum(old, range)]
          /\ since'[symbol] = since[symbol] /\ covered'[symbol] = covered[symbol] \union ids
      BY <2>1, <2>4 DEF Continued
    <3>3. depth'[symbol].maximum = NewMaximum(old, range) /\ depth'[symbol] # Nobody
      BY <2>0, <2>1, <3>0, <3>2 DEF NewMaximum
    <3>4. gapsOf'[symbol] = 0 => gapsOf[symbol] = 0 /\ range[1] <= old + 1
      BY <2>0, <2>1, <2>4, <3>0 DEF Continued, CountGap, IsGap
    <3>5. \A id \in covered[symbol] \union ids : id <= NewMaximum(old, range)
      BY <2>0, <3>0, <3>1 DEF NewMaximum
    <3>6. ASSUME gapsOf'[symbol] = 0, NEW id \in since[symbol] .. NewMaximum(old, range)
          PROVE  id \in covered[symbol] \union ids
      <4>1. CASE id <= old
        BY <3>0, <3>1, <3>4, <3>6, <4>1
      <4>2. CASE id > old
        BY <2>0, <3>0, <3>4, <3>6, <4>2 DEF NewMaximum
      <4>3. QED
        BY <3>0, <3>6, <4>1, <4>2
    <3> HIDE DEF ids
    <3>7. CoverageOf(symbol)'
      BY <3>2, <3>3, <3>5, <3>6 DEF CoverageOf, Observed
    <3>8. QED
      BY <2>2, <3>7 DEF CoverageInv
  <2>5. QED
    BY <1>2, <2>3, <2>4, ObserveCases
<1>3. QED
  BY <1>1, <1>2, ReceivedCases
     DEF Next, SecondPasses, Reconnect, RecordControl, Snapshot, vars

----------------------------------------------------------------------------
(* The buckets.                                                            *)

(* What pruning keeps: at most this second and the one before. *)
LEMMA PruneKeeps ==
  ASSUME NEW kept, NEW index \in Nat, DOMAIN kept \subseteq 0 .. index
  PROVE  /\ DOMAIN Prune(kept, index) = {i \in DOMAIN kept : i + 1 >= index}
         /\ \A i \in DOMAIN kept : i + 1 >= index => Prune(kept, index)[i] = kept[i]
         /\ Cardinality(DOMAIN Prune(kept, index)) <= 2
<1> DEFINE pruned == Prune(kept, index)
<1>1. /\ DOMAIN pruned = {i \in DOMAIN kept : i + 1 >= index}
      /\ \A i \in DOMAIN kept : i + 1 >= index => pruned[i] = kept[i]
  BY DEF Prune
<1>2. DOMAIN pruned \subseteq (index - 1) .. index
  BY <1>1
<1>3. IsFiniteSet((index - 1) .. index) /\ Cardinality((index - 1) .. index) = 2
  BY FS_Interval
<1>4. Cardinality(DOMAIN pruned) <= 2
  BY <1>2, <1>3, FS_Subset
<1>5. QED
  BY <1>1, <1>4

(* The bucket that Count writes. *)
Added(kept, index, key) ==
  LET old == IF index \in DOMAIN kept THEN kept[index] ELSE << >>
  IN  [k \in DOMAIN old \union {key} |-> CountIn(old, k) + (IF k = key THEN 1 ELSE 0)]

LEMMA CountKeeps ==
  ASSUME NEW kept, NEW index \in Nat, DOMAIN kept \subseteq 0 .. index, NEW key
  PROVE  /\ DOMAIN Count(kept, index, key) =
              {i \in DOMAIN kept : i + 1 >= index} \union {index}
         /\ \A i \in DOMAIN kept : i + 1 >= index /\ i # index =>
              Count(kept, index, key)[i] = kept[i]
         /\ Count(kept, index, key)[index] = Added(kept, index, key)
         /\ Cardinality(DOMAIN Count(kept, index, key)) <= 2
<1> DEFINE extended == [i \in DOMAIN kept \union {index} |->
                          IF i = index THEN Added(kept, index, key) ELSE kept[i]]
<1>1. Count(kept, index, key) = Prune(extended, index)
  BY DEF Count, Added
<1>2. DOMAIN extended = DOMAIN kept \union {index} /\ DOMAIN extended \subseteq 0 .. index
  OBVIOUS
<1>3. \A i \in DOMAIN extended :
        extended[i] = IF i = index THEN Added(kept, index, key) ELSE kept[i]
  OBVIOUS
<1> HIDE DEF extended
<1>4. /\ DOMAIN Prune(extended, index) = {i \in DOMAIN extended : i + 1 >= index}
      /\ \A i \in DOMAIN extended : i + 1 >= index => Prune(extended, index)[i] = extended[i]
      /\ Cardinality(DOMAIN Prune(extended, index)) <= 2
  BY <1>2, PruneKeeps
<1>5. index + 1 >= index
  OBVIOUS
<1>6. {i \in DOMAIN extended : i + 1 >= index} = {i \in DOMAIN kept : i + 1 >= index} \union {index}
  BY <1>2, <1>5
<1>7. QED
  BY <1>1, <1>2, <1>3, <1>4, <1>5, <1>6

(* One more of the key, and as many as before of every other. *)
LEMMA AddedCounts ==
  ASSUME NEW kept, NEW index, NEW key,
         index \in DOMAIN kept =>
           \A k \in DOMAIN kept[index] : k \in Keys /\ kept[index][k] \in Nat,
         key \in Keys
  PROVE  /\ \A k \in DOMAIN Added(kept, index, key) :
              k \in Keys /\ Added(kept, index, key)[k] \in Nat
         /\ \A k \in Keys :
              CountIn(Added(kept, index, key), k) =
                (IF index \in DOMAIN kept THEN CountIn(kept[index], k) ELSE 0)
                + (IF k = key THEN 1 ELSE 0)
<1> DEFINE old == IF index \in DOMAIN kept THEN kept[index] ELSE << >>
<1>1. \A k \in DOMAIN old : k \in Keys /\ old[k] \in Nat
  OBVIOUS
<1>2. \A k : CountIn(old, k) = (IF index \in DOMAIN kept THEN CountIn(kept[index], k) ELSE 0)
  BY DEF CountIn
<1>3. \A k : CountIn(old, k) \in Nat
  BY <1>1 DEF CountIn
<1>4. /\ DOMAIN Added(kept, index, key) = DOMAIN old \union {key}
      /\ \A k \in DOMAIN old \union {key} :
           Added(kept, index, key)[k] = CountIn(old, k) + (IF k = key THEN 1 ELSE 0)
  BY DEF Added
<1> HIDE DEF old
<1>5. ASSUME NEW k \in Keys
      PROVE  CountIn(Added(kept, index, key), k) = CountIn(old, k) + (IF k = key THEN 1 ELSE 0)
  BY <1>4 DEF CountIn
<1>6. QED
  BY <1>1, <1>2, <1>3, <1>4, <1>5

LEMMA BucketsPreserved ==
  ASSUME DataOK, BucketsOK, BucketsInv, [Next]_vars
  PROVE  BucketsOK' /\ BucketsInv'
<1>0. clock \in Nat /\ clock \in 0 .. MaxSecond /\ DOMAIN buckets \subseteq 0 .. clock
  BY DEF DataOK, BucketsOK
<1>1. CASE UNCHANGED <<clock, buckets, log>>
  BY <1>1 DEF BucketsOK, BucketsInv, KeptCount
<1>2. CASE SecondPasses
  BY <1>0, <1>2 DEF SecondPasses, BucketsOK, BucketsInv, KeptCount
<1>3. CASE Snapshot
  <2>1. buckets' = Prune(buckets, clock) /\ clock' = clock /\ log' = log
    BY <1>3 DEF Snapshot
  <2>2. /\ DOMAIN buckets' = {i \in DOMAIN buckets : i + 1 >= clock}
        /\ \A i \in DOMAIN buckets : i + 1 >= clock => buckets'[i] = buckets[i]
        /\ Cardinality(DOMAIN buckets') <= 2
    <3>1. /\ DOMAIN Prune(buckets, clock) = {i \in DOMAIN buckets : i + 1 >= clock}
          /\ \A i \in DOMAIN buckets : i + 1 >= clock => Prune(buckets, clock)[i] = buckets[i]
          /\ Cardinality(DOMAIN Prune(buckets, clock)) <= 2
      BY <1>0, PruneKeeps
    <3>2. QED
      BY <2>1, <3>1
  <2>3. BucketsOK'
    BY <2>1, <2>2 DEF BucketsOK
  <2>4. BucketsInv'
    BY <2>1, <2>2 DEF BucketsInv, KeptCount
  <2>5. QED
    BY <2>3, <2>4
<1>4. ASSUME NEW symbol \in Symbols, NEW stream \in Streams,
             NEW range \in IF stream = "depth" THEN Ranges \union {NoRange} ELSE {NoRange},
             RecordReceived(symbol, stream, range)
      PROVE  BucketsOK' /\ BucketsInv'
  <2> DEFINE key == <<symbol, stream>>
             new == Added(buckets, clock, key)
  <2>1. /\ buckets' = Count(buckets, clock, key) /\ clock' = clock
        /\ log' = [log EXCEPT ![clock][key] = @ + 1]
    BY <1>4 DEF RecordReceived
  <2>2. key \in Keys
    BY DEF Keys
  <2>3. /\ \A k \in DOMAIN new : k \in Keys /\ new[k] \in Nat
        /\ \A k \in Keys :
             CountIn(new, k) = KeptCount(clock, k) + (IF k = key THEN 1 ELSE 0)
    BY <2>2, AddedCounts DEF BucketsOK, KeptCount
  <2> HIDE DEF key, new
  <2>4. /\ DOMAIN buckets' = {i \in DOMAIN buckets : i + 1 >= clock} \union {clock}
        /\ \A i \in DOMAIN buckets : i + 1 >= clock /\ i # clock => buckets'[i] = buckets[i]
        /\ buckets'[clock] = new /\ Cardinality(DOMAIN buckets') <= 2
    <3> DEFINE counted == Count(buckets, clock, key)
    <3>1. /\ DOMAIN counted = {i \in DOMAIN buckets : i + 1 >= clock} \union {clock}
          /\ \A i \in DOMAIN buckets : i + 1 >= clock /\ i # clock => counted[i] = buckets[i]
          /\ counted[clock] = Added(buckets, clock, key) /\ Cardinality(DOMAIN counted) <= 2
      BY <1>0, CountKeeps
    <3> HIDE DEF counted
    <3>2. QED
      BY <2>1, <3>1 DEF counted, new
  <2>5. BucketsOK'
    BY <1>0, <2>1, <2>3, <2>4 DEF BucketsOK
  <2>6. log \in [0 .. MaxSecond -> [Keys -> Nat]]
    BY DEF BucketsInv
  <2>7. /\ log' \in [0 .. MaxSecond -> [Keys -> Nat]]
        /\ \A i \in 0 .. MaxSecond : i # clock => log'[i] = log[i]
        /\ \A k \in Keys : log'[clock][k] = log[clock][k] + (IF k = key THEN 1 ELSE 0)
    BY <1>0, <2>1, <2>2, <2>6
  <2>8. ASSUME NEW i \in 0 .. MaxSecond, i + 1 >= clock, NEW k \in Keys
        PROVE  log'[i][k] = KeptCount(i, k)'
    <3>1. log[i][k] = KeptCount(i, k)
      BY <2>8 DEF BucketsInv
    <3>2. CASE i = clock
      BY <2>3, <2>4, <2>7, <3>1, <3>2 DEF KeptCount
    <3>3. CASE i # clock
      BY <2>4, <2>7, <2>8, <3>1, <3>3 DEF KeptCount
    <3>4. QED
      BY <3>2, <3>3
  <2>9. BucketsInv'
    BY <2>1, <2>7, <2>8 DEF BucketsInv
  <2>10. QED
    BY <2>5, <2>9
<1>5. QED
  BY <1>1, <1>2, <1>3, <1>4 DEF Next, Reconnect, RecordControl, vars

LEMMA ShownPreserved ==
  ASSUME DataOK, BucketsOK, BucketsInv, ShownInv, ShownIsLastSecond, [Next]_vars
  PROVE  ShownInv' /\ ShownIsLastSecond'
<1>0. /\ clock \in Nat /\ clock \in 0 .. MaxSecond
      /\ shown = [at |-> shown.at, rates |-> shown.rates] /\ shown.at \in 0 .. clock
      /\ log \in [0 .. MaxSecond -> [Keys -> Nat]]
  BY DEF DataOK, ShownInv, BucketsInv
<1>1. CASE UNCHANGED <<clock, shown, log>>
  BY <1>1 DEF ShownInv, ShownIsLastSecond
<1>2. CASE SecondPasses
  BY <1>0, <1>2 DEF SecondPasses, ShownInv, ShownIsLastSecond
<1>3. CASE Snapshot
  <2>1. /\ shown' = [at |-> clock, rates |-> RatesAt(buckets, clock, Keys)]
        /\ clock' = clock /\ log' = log
    BY <1>3 DEF Snapshot
  <2>2. ShownInv'
    BY <1>0, <2>1 DEF ShownInv
  <2>3. ASSUME NEW key \in Keys
        PROVE  (IF clock > 0 /\ clock - 1 \in DOMAIN buckets
                THEN CountIn(buckets[clock - 1], key) ELSE 0)
               = IF clock > 0 THEN log[clock - 1][key] ELSE 0
    <3>1. CASE clock > 0
      <4>1. clock - 1 \in 0 .. MaxSecond /\ (clock - 1) + 1 >= clock
        BY <1>0, <3>1
      <4>2. log[clock - 1][key] = KeptCount(clock - 1, key)
        BY <4>1 DEF BucketsInv
      <4>3. QED
        BY <3>1, <4>2 DEF KeptCount
    <3>2. CASE ~ (clock > 0)
      BY <3>2
    <3>3. QED
      BY <3>1, <3>2
  <2>4. RatesAt(buckets, clock, Keys) =
          [key \in Keys |-> IF clock > 0 THEN log[clock - 1][key] ELSE 0]
    BY <2>3 DEF RatesAt
  <2>5. QED
    BY <2>1, <2>2, <2>4 DEF ShownIsLastSecond
<1>4. ASSUME NEW symbol \in Symbols, NEW stream \in Streams,
             NEW range \in IF stream = "depth" THEN Ranges \union {NoRange} ELSE {NoRange},
             RecordReceived(symbol, stream, range)
      PROVE  ShownInv' /\ ShownIsLastSecond'
  <2>1. /\ shown' = shown /\ clock' = clock
        /\ log' = [log EXCEPT ![clock][<<symbol, stream>>] = @ + 1]
    BY <1>4 DEF RecordReceived
  <2>2. ASSUME shown.at > 0
        PROVE  log'[shown.at - 1] = log[shown.at - 1]
    BY <1>0, <2>1, <2>2
  <2>3. [key \in Keys |-> IF shown'.at > 0 THEN log'[shown'.at - 1][key] ELSE 0]
        = [key \in Keys |-> IF shown.at > 0 THEN log[shown.at - 1][key] ELSE 0]
    BY <2>1, <2>2
  <2>4. QED
    BY <2>1, <2>3 DEF ShownInv, ShownIsLastSecond
<1>5. QED
  BY <1>1, <1>2, <1>3, <1>4 DEF Next, Reconnect, RecordControl, vars

----------------------------------------------------------------------------
LEMMA NextInv == IInv /\ [Next]_vars => IInv'
BY DataPreserved, ConnectionsPreserved, ResetsPreserved, CoveragePreserved, BucketsPreserved,
   ShownPreserved DEF IInv

(* Every part of IInv holds in every reachable state. *)
THEOREM Invariance == Spec => []IInv
BY InitInv, NextInv, PTL DEF Spec

(* Two buckets are kept however long the program runs, and the observer    *)
(* starts afresh at most once per symbol and change of the connection.     *)
THEOREM TypeCorrect == Spec => []TypeOK
<1>1. IInv => TypeOK
  <2> SUFFICES ASSUME IInv PROVE TypeOK
    OBVIOUS
  <2>1. resets <= Cardinality(Symbols) * changes[GroupOf["depth"]]
    BY ResetsPaidFor DEF IInv, DepthGroup
  <2>2. \A symbol \in Symbols :
          \/ depth[symbol] = Nobody
          \/ depth[symbol] \in [connection : 1 .. connection[DepthGroup], maximum : 1 .. MaxUpdate]
    BY DEF IInv, DataOK, ConnectionsInv, Observed
  <2>3. QED
    BY <2>1, <2>2 DEF IInv, DataOK, ConnectionsInv, BucketsOK, TypeOK, DepthGroup
<1>2. QED
  BY <1>1, Invariance, PTL

(* The screen shows exactly the messages of the last complete second.      *)
THEOREM RatesAreExact == Spec => []ShownIsLastSecond
<1>1. IInv => ShownIsLastSecond
  BY DEF IInv
<1>2. QED
  BY <1>1, Invariance, PTL

(* While no gap is counted the update IDs received have no hole.           *)
THEOREM GapsAreSeen == Spec => []NoGapMissed
<1>1. IInv => NoGapMissed
  <2> SUFFICES ASSUME IInv, NEW symbol \in Symbols, gapsOf[symbol] = 0,
                      NEW id \in covered[symbol]
               PROVE  since[symbol] .. id \subseteq covered[symbol]
    BY DEF NoGapMissed
  <2>1. Observed(symbol)
    BY DEF IInv, CoverageInv, CoverageOf
  <2>2. /\ id <= depth[symbol].maximum
        /\ since[symbol] .. depth[symbol].maximum \subseteq covered[symbol]
    BY <2>1 DEF IInv, CoverageInv, CoverageOf
  <2>3. id \in Nat /\ since[symbol] \in Nat /\ depth[symbol].maximum \in Nat
    BY <2>1 DEF IInv, DataOK, Observed
  <2>4. QED
    BY <2>2, <2>3
<1>2. QED
  BY <1>1, Invariance, PTL

(* A gap is counted, one at a time, only for update IDs that were not      *)
(* received on this connection.                                            *)
LEMMA GapIsReal ==
  ASSUME IInv, [Next]_vars, gapCount' # gapCount
  PROVE  LET hole == lastGap'.previous + 1 .. lastGap'.next - 1
         IN  /\ gapCount' = gapCount + 1
             /\ hole # {}
             /\ hole \intersect covered'[lastGap'.symbol] = {}
<1>1. PICK symbol \in Symbols, stream \in Streams :
        \E range \in IF stream = "depth" THEN Ranges \union {NoRange} ELSE {NoRange} :
          RecordReceived(symbol, stream, range)
  BY DEF Next, SecondPasses, Reconnect, RecordControl, Snapshot, vars
<1>2. PICK range \in IF stream = "depth" THEN Ranges \union {NoRange} ELSE {NoRange} :
        RecordReceived(symbol, stream, range)
  BY <1>1
<1>3. range \in Ranges /\ Continued(symbol, range) /\ IsGap(depth[symbol].maximum, range)
  <2>1. range \in Ranges /\ Observe(symbol, connection[DepthGroup], range)
    BY <1>2, ReceivedCases
  <2>2. Afresh(symbol, range) \/ Continued(symbol, range)
    BY <2>1, ObserveCases DEF IInv
  <2>3. QED
    BY <2>1, <2>2 DEF Afresh, StartAfresh, Continued, CountGap
<1> DEFINE old == depth[symbol].maximum
<1>4. /\ old \in Nat /\ covered[symbol] \subseteq Nat /\ covered \in [Symbols -> SUBSET Nat]
      /\ \A id \in covered[symbol] : id <= old
      /\ range[1] \in Nat /\ range[2] \in Nat
  BY <1>3, RangeTypes DEF IInv, DataOK, CoverageInv, CoverageOf, Continued, Observed
<1>5. /\ gapCount' = gapCount + 1
      /\ lastGap' = [symbol |-> symbol, previous |-> old, next |-> range[1]]
      /\ covered'[symbol] = covered[symbol] \union (range[1] .. range[2])
  BY <1>3, <1>4 DEF Continued, CountGap
<1>6. old + 1 < range[1]
  BY <1>3, <1>4 DEF IsGap
<1>7. old + 1 \in old + 1 .. range[1] - 1
  BY <1>4, <1>6
<1>8. \A id \in covered[symbol] \union (range[1] .. range[2]) : id \notin old + 1 .. range[1] - 1
  BY <1>4
<1>9. lastGap'.symbol = symbol /\ lastGap'.previous = old /\ lastGap'.next = range[1]
  BY <1>5
<1>10. QED
  BY <1>5, <1>7, <1>8, <1>9

THEOREM GapsAreTrue == Spec => GapsAreReal
<1>1. IInv /\ [Next]_vars =>
        [gapCount' # gapCount =>
           LET hole == lastGap'.previous + 1 .. lastGap'.next - 1
           IN  /\ gapCount' = gapCount + 1
               /\ hole # {}
               /\ hole \intersect covered'[lastGap'.symbol] = {}]_vars
  BY GapIsReal
<1>2. QED
  BY <1>1, Invariance, PTL DEF Spec, GapsAreReal
============================================================================
