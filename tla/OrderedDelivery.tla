-------------------------- MODULE OrderedDelivery --------------------------
(***************************************************************************)
(* What an asynchronous MongoDB output promises, without its queues, tasks *)
(* and batches.  Each lane is one collection.  Events accepted on a lane   *)
(* are stored there at most once and in the order of their acceptance: the *)
(* collection is always a prefix of the accepted sequence.  A lane may be  *)
(* severed by a write whose outcome is unknown; a prefix of what was in    *)
(* flight may have reached the collection, and nothing is ever stored or   *)
(* accepted on the lane again.  A lane that is never severed stores        *)
(* everything it has accepted.                                             *)
(***************************************************************************)
EXTENDS Naturals, Sequences

CONSTANTS
  Lanes,   (* The collections that are written independently. *)
  Events   (* The documents that may be accepted.             *)

VARIABLES
  accepted,  (* lane -> the sequence of events accepted so far *)
  stored,    (* lane -> the contents of the collection         *)
  severed    (* lane -> whether its writer has given up        *)

vars == <<accepted, stored, severed>>

Init ==
  /\ accepted = [l \in Lanes |-> << >>]
  /\ stored = [l \in Lanes |-> << >>]
  /\ severed = [l \in Lanes |-> FALSE]

Accept(l, e) ==
  /\ ~ severed[l]
  /\ accepted' = [accepted EXCEPT ![l] = Append(@, e)]
  /\ UNCHANGED <<stored, severed>>

(* The collection grows to a longer prefix of what was accepted. *)
Store(l) ==
  /\ ~ severed[l]
  /\ \E n \in (Len(stored[l]) + 1) .. Len(accepted[l]) :
       stored' = [stored EXCEPT ![l] = SubSeq(accepted[l], 1, n)]
  /\ UNCHANGED <<accepted, severed>>

(* The writers of the lanes in L give up together; what each of them had   *)
(* in flight may have been stored up to any point.                         *)
Sever(L) ==
  /\ \A l \in L : ~ severed[l]
  /\ severed' = [l \in Lanes |-> severed[l] \/ l \in L]
  /\ stored' \in [Lanes -> Seq(Events)]
  /\ \A l \in L : \E n \in Len(stored[l]) .. Len(accepted[l]) :
       stored'[l] = SubSeq(accepted[l], 1, n)
  /\ \A l \in Lanes \ L : stored'[l] = stored[l]
  /\ UNCHANGED accepted

Next ==
  \/ \E l \in Lanes : Store(l) \/ \E e \in Events : Accept(l, e)
  \/ \E L \in SUBSET Lanes : Sever(L)

SafeSpec == Init /\ [][Next]_vars

Spec == SafeSpec /\ \A l \in Lanes : WF_vars(Store(l))
============================================================================
