------------------------- MODULE CollectorContract -------------------------
(***************************************************************************)
(* What both collectors promise to the supervisors of src/main.py and      *)
(* src/multi_runtime.py: run() returns only after a stop request, a fatal  *)
(* error or a cancellation ends it too, and once the stop event is set it  *)
(* ends.  Collector and MultiCollector implement this module, and Runtime  *)
(* is built on its actions.                                                *)
(***************************************************************************)

VARIABLES
  stop,     (* the stop event                                                *)
  outcome   (* the task of run(): "new", "running", or how it ended          *)

vars == <<stop, outcome>>

Init == stop = FALSE /\ outcome \in {"new", "running"}

(* Anybody may set the stop event, also a collector that is failing. *)
RequestStop == ~ stop /\ stop' = TRUE /\ UNCHANGED outcome

Start == outcome = "new" /\ outcome' = "running" /\ UNCHANGED stop

Return == outcome = "running" /\ stop /\ outcome' = "returned" /\ UNCHANGED stop

Raise == outcome = "running" /\ outcome' = "raised" /\ UNCHANGED stop

Cancelled == outcome = "running" /\ outcome' = "cancelled" /\ UNCHANGED stop

End == Return \/ Raise \/ Cancelled

Next == RequestStop \/ Start \/ End

SafeSpec == Init /\ [][Next]_vars

Spec == SafeSpec /\ WF_vars(stop /\ End)
============================================================================
