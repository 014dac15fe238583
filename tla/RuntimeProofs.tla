---------------------------- MODULE RuntimeProofs ----------------------------
(***************************************************************************)
(* Proofs about Runtime for every set of ways to run the program.  IInv is *)
(* inductive: the tasks and what supervises them (TaskInv), where the main *)
(* coroutine stands while they run (MainInv), where the cancellations and  *)
(* errors come from (ErrorInv), and where each failure shows (FailureInv). *)
(***************************************************************************)
EXTENDS Runtime, TLAPS

USE SetupsAssumption

USE DEF mainVars, runnerVars, taskVars, outputVars

(* The variables one by one. *)
TypesOK ==
  /\ setup \in Setups /\ setup \in {"json", "watch", "pipe", "mongo", "multi"}
  /\ signals \in BOOLEAN /\ stop \in BOOLEAN /\ opened \in BOOLEAN /\ closed \in BOOLEAN
  /\ broken \in BOOLEAN /\ reported \in BOOLEAN /\ interrupted \in BOOLEAN
  /\ main \in {"configuring", "validating", "opening", "starting", "watching", "dropping",
               "joining", "finishing", "sweeping", "collecting", "closing", "leaving", "over"}
  /\ error \in {"none", "config", "products", "open", "collector", "output", "screen", "close",
                "cancelled"}
  /\ result \in {"none", "collector", "output", "cancelled"}
  /\ collector \in {"new", "running", "returned", "raised", "cancelled"}
  /\ monitor \in {"none", "running", "returned", "raised", "cancelled"}
  /\ screen \in {"none", "running", "returned", "raised", "cancelled"}
  /\ runner \in {"none", "new", "waiting", "reaping", "cleaning", "done"}
  /\ cancelling \subseteq {"collector", "monitor", "screen", "runner"}
  /\ threads \subseteq {"spot", "usdm", "write"}
  /\ failures \subseteq {"config", "products", "open", "collector", "output", "screen", "close",
                         "write", "spot", "usdm"}

(* Collector and monitor run under the runner only, and a runner that      *)
(* cleans up has cancelled whoever is left; an error of theirs is seen     *)
(* before the runner ends, or the runner ends with another one.            *)
TaskInv ==
  /\ runner \in {"none", "new"} =>
       collector = "new" /\ monitor = "none" /\ "collector" \notin cancelling
  /\ collector = "running" \/ monitor = "running" => runner \in {"waiting", "reaping", "cleaning"}
  /\ runner \in {"none", "new", "waiting", "reaping"} => result = "none"
  /\ runner = "cleaning" /\ monitor = "running" => "monitor" \in cancelling
  /\ runner = "cleaning" /\ collector = "running" => result # "none"
  /\ collector = "raised" \/ monitor = "raised" =>
       runner \in {"waiting", "reaping"} \/ result # "none"
  /\ reported => monitor = "raised"
  /\ collector = "cancelled" => "collector" \in cancelling
  /\ screen = "cancelled" => "screen" \in cancelling

Quiet ==
  /\ collector # "running" /\ monitor # "running" /\ screen # "running"
  /\ runner \in {"none", "done"}

(* What runs while the main coroutine is at each place. *)
MainInv ==
  /\ main \in {"configuring", "validating", "opening"} =>
       ~ opened /\ screen = "none" /\ runner = "none"
  /\ main \in {"starting", "watching", "dropping", "joining", "finishing", "sweeping",
               "collecting", "closing"} => opened
  /\ main = "starting" => runner = "none"
  /\ main \in {"watching", "dropping", "joining", "collecting"} => runner # "none"
  /\ main = "collecting" => screen = "none"
  /\ main = "joining" => screen = "returned"
  /\ main = "finishing" => runner = "done"
  /\ main \in {"closing", "leaving", "over"} => Quiet
  /\ main \in {"leaving", "over"} /\ opened /\ ~ interrupted => closed
  /\ closed => main \in {"leaving", "over"}
  /\ main \notin {"configuring", "validating", "leaving"} => "spot" \notin threads /\ "usdm" \notin threads
  /\ main = "over" => threads = {}
  /\ main = "configuring" => threads = {}

(* The runner and the screen are cancelled by an interrupt or by the       *)
(* error of the screen, which is then the error that is under way.         *)
ErrorInv ==
  /\ main \in {"configuring", "validating", "opening", "starting", "watching", "collecting",
               "joining"} => error = "none"
  /\ main = "dropping" => error \in {"screen", "cancelled"}
  /\ main = "finishing" => error \in {"none", "collector", "output", "cancelled"}
  /\ "screen" \in cancelling => interrupted
  /\ \/ "runner" \in cancelling \/ result = "cancelled"
     \/ runner \in {"new", "waiting"} /\ "collector" \in cancelling
     => interrupted \/ error = "screen"
  /\ main \in {"finishing", "sweeping", "closing", "leaving", "over"} /\ result # "none" =>
       error # "none"
  /\ main = "sweeping" /\ runner \notin {"none", "done"} => error # "none"

(* Where a failure shows as long as it is not yet the error of the program. *)
FailureInv ==
  ~ interrupted =>
    /\ "config" \in failures => main = "over" /\ error = "config"
    /\ "spot" \in failures \/ "usdm" \in failures => main = "validating" \/ error = "products"
    /\ "spot" \in threads \/ "usdm" \in threads => main = "validating" \/ error = "products"
    /\ "products" \in failures => error = "products"
    /\ error = "products" => main \in {"leaving", "over"}
    /\ "open" \in failures => main \in {"leaving", "over"} /\ error = "open"
    /\ "close" \in failures => main \in {"leaving", "over"} /\ error # "none"
    /\ "screen" \in failures => screen = "raised"
    /\ screen = "raised" => main \in {"starting", "watching", "finishing"} \/ error # "none"
    /\ main = "sweeping" => screen # "running" \/ error # "none"
    /\ "collector" \in failures => collector = "raised"
    /\ "output" \in failures => broken
    /\ broken /\ main \in {"leaving", "over"} => error # "none"

IInv ==
  /\ TypesOK /\ TaskInv /\ MainInv /\ ErrorInv /\ FailureInv
  /\ OnlyInterruptCancels

----------------------------------------------------------------------------
(* Running, member by member. *)
LEMMA RunningIs ==
  /\ "collector" \in Running <=> collector = "running"
  /\ "monitor" \in Running <=> monitor = "running"
  /\ "screen" \in Running <=> screen = "running"
  /\ "runner" \in Running <=> runner \notin {"none", "done"}
  /\ Running = {} <=> Quiet
  /\ Running \subseteq {"collector", "monitor", "screen", "runner"}
  BY DEF Running, Quiet

LEMMA InitInv == Init => IInv
  BY SetupsAssumption DEF Init, IInv, TypesOK, TaskInv, MainInv, ErrorInv, FailureInv, OnlyInterruptCancels, Quiet

(* Steps of the user. *)
LEMMA UserPreserves ==
  ASSUME IInv, RequestStop \/ Interrupts
  PROVE  IInv'
<1> USE RunningIs DEF IInv, TypesOK, TaskInv, MainInv, ErrorInv, FailureInv, OnlyInterruptCancels,
        Quiet, Monitored, HasScreen
<1>1. CASE RequestStop
  BY <1>1 DEF RequestStop, Contract!RequestStop
<1>2. CASE InterruptStart
  BY <1>2 DEF InterruptStart, Interrupt
<1>3. CASE InterruptWatch
  BY <1>3 DEF InterruptWatch, Interrupt, CancelAlso
<1>4. CASE InterruptClose
  BY <1>4 DEF InterruptClose, Interrupt
<1>5. CASE InterruptAwait("collecting", "runner", "closing")
  <2>1. CASE "runner" \in Running
    BY <1>5, <2>1 DEF InterruptAwait, Interrupt, CancelAlso
  <2>2. CASE "runner" \notin Running
    <3>1. cancelling' = cancelling
      BY <1>5, <2>2 DEF InterruptAwait, CancelAlso
    <3>2. QED
      BY <1>5, <2>2, <3>1 DEF InterruptAwait, Interrupt
  <2>3. QED
    BY <2>1, <2>2
<1>6. CASE InterruptAwait("joining", "runner", "finishing")
  <2>1. CASE "runner" \in Running
    BY <1>6, <2>1 DEF InterruptAwait, Interrupt, CancelAlso
  <2>2. CASE "runner" \notin Running
    <3>1. cancelling' = cancelling
      BY <1>6, <2>2 DEF InterruptAwait, CancelAlso
    <3>2. QED
      BY <1>6, <2>2, <3>1 DEF InterruptAwait, Interrupt
  <2>3. QED
    BY <2>1, <2>2
<1>7. CASE InterruptAwait("finishing", "screen", "sweeping")
  <2>1. CASE "screen" \in Running
    BY <1>7, <2>1 DEF InterruptAwait, Interrupt, CancelAlso
  <2>2. CASE "screen" \notin Running
    <3>1. cancelling' = cancelling
      BY <1>7, <2>2 DEF InterruptAwait, CancelAlso
    <3>2. QED
      BY <1>7, <2>2, <3>1 DEF InterruptAwait, Interrupt
  <2>3. QED
    BY <2>1, <2>2
<1>8. QED
  BY <1>1, <1>2, <1>3, <1>4, <1>5, <1>6, <1>7 DEF Interrupts

(* Steps of the tasks, the output and the threads. *)
LEMMA TasksPreserve ==
  ASSUME IInv, CollectorSetsStop \/ CollectorEnds \/ WriteStarts \/ OutputBreaks \/ MonitorEnds
                 \/ (\E how \in {"returned", "raised", "cancelled"} : ScreenEnds(how))
                 \/ ThreadEnds
  PROVE  IInv'
<1> USE RunningIs DEF IInv, TypesOK, TaskInv, MainInv, ErrorInv, FailureInv, OnlyInterruptCancels,
        Quiet, Monitored, HasScreen
<1>1. CASE CollectorSetsStop
  BY <1>1 DEF CollectorSetsStop, TaskStep, Contract!RequestStop
<1>2. CASE CollectorReturns
  BY <1>2 DEF CollectorReturns, TaskStep, Contract!Return
<1>3. CASE CollectorRaises
  BY <1>3 DEF CollectorRaises, TaskStep, Contract!Raise
<1>4. CASE CollectorCancelled
  BY <1>4 DEF CollectorCancelled, TaskStep, Contract!Cancelled
<1>5. CASE WriteStarts
  BY <1>5 DEF WriteStarts, TaskStep
<1>6. CASE OutputBreaks
  BY <1>6 DEF OutputBreaks, TaskStep
<1>7. CASE MonitorRaises
  BY <1>7 DEF MonitorRaises, TaskStep
<1>8. CASE MonitorCancelled
  BY <1>8 DEF MonitorCancelled, TaskStep
<1>9. ASSUME NEW how \in {"returned", "raised", "cancelled"}, ScreenEnds(how)
      PROVE  IInv'
  BY <1>9 DEF ScreenEnds, TaskStep
<1>10. CASE WriteEnds
  BY <1>10 DEF WriteEnds, TaskStep
<1>11. ASSUME NEW market \in {"spot", "usdm"}, FetchEnds(market)
      PROVE  IInv'
  BY <1>11 DEF FetchEnds, TaskStep
<1>12. QED
  BY <1>1, <1>2, <1>3, <1>4, <1>5, <1>6, <1>7, <1>8, <1>9, <1>10, <1>11 DEF CollectorEnds, MonitorEnds, ThreadEnds

(* Steps of _run_collector_with_output_monitor. *)
LEMMA RunnerPreserves ==
  ASSUME IInv, RunnerProceeds
  PROVE  IInv'
<1> USE RunningIs DEF IInv, TypesOK, TaskInv, MainInv, ErrorInv, FailureInv, OnlyInterruptCancels,
        Quiet, Monitored, HasScreen
<1>1. CASE RunnerStarts
  BY <1>1 DEF RunnerStarts, RunnerStep, Contract!Start
<1>2. CASE RunnerNeverStarts
  BY <1>2 DEF RunnerNeverStarts, RunnerStep
<1>3. CASE MonitorSeen
  BY <1>3 DEF MonitorSeen, RunnerStep, CancelAlso
<1>4. CASE Reaped
  BY <1>4 DEF Reaped, RunnerStep, CleanUp, CancelAlso
<1>5. CASE CollectorSeen
  BY <1>5 DEF CollectorSeen, RunnerStep, CleanUp, CancelAlso, ResultOfCollector
<1>6. CASE RunnerCancelled
  BY <1>6 DEF RunnerCancelled, RunnerStep
<1>7. CASE RunnerEnds
  BY <1>7 DEF RunnerEnds, RunnerStep
<1>8. QED
  BY <1>1, <1>2, <1>3, <1>4, <1>5, <1>6, <1>7 DEF RunnerProceeds

(* Steps of the main coroutine. *)
LEMMA MainPreserves ==
  ASSUME IInv, MainProceeds
  PROVE  IInv'
<1> USE RunningIs DEF IInv, TypesOK, TaskInv, MainInv, ErrorInv, FailureInv, OnlyInterruptCancels,
        Quiet, Monitored, HasScreen
<1>1. CASE ConfigRejected
  BY <1>1 DEF ConfigRejected, Proceeds, Goes, Fails
<1>2. CASE ConfigAccepted
  <2>1. CASE main' = "opening"
    <3>1. TypesOK'
      BY <1>2, <2>1 DEF ConfigAccepted, Proceeds, Goes
    <3>2. TaskInv'
      BY <1>2, <2>1 DEF ConfigAccepted, Proceeds, Goes
    <3>3. MainInv'
      BY <1>2, <2>1 DEF ConfigAccepted, Proceeds, Goes
    <3>4. ErrorInv' /\ OnlyInterruptCancels'
      BY <1>2, <2>1 DEF ConfigAccepted, Proceeds, Goes
    <3>5. FailureInv'
      BY <1>2, <2>1 DEF ConfigAccepted, Proceeds, Goes
    <3>6. QED
      BY <3>1, <3>2, <3>3, <3>4, <3>5
  <2>2. CASE main' = "validating"
    BY <1>2, <2>2 DEF ConfigAccepted, Proceeds, Goes
  <2>3. QED
    BY <1>2, <2>1, <2>2 DEF ConfigAccepted, Proceeds, Goes
<1>3. CASE ProductsAccepted
  BY <1>3 DEF ProductsAccepted, Proceeds, Goes
<1>4. CASE ProductsRejected
  BY <1>4 DEF ProductsRejected, Proceeds, Goes, Fails
<1>5. CASE OpenFails
  BY <1>5 DEF OpenFails, Proceeds, Goes, Fails
<1>6. CASE OpenSucceeds
  <2>1. CASE setup # "json"
    BY <1>6, <2>1 DEF OpenSucceeds, Goes
  <2>2. CASE setup = "json"
    <3>1. TypesOK'
      BY <1>6, <2>2 DEF OpenSucceeds, Goes
    <3>2. TaskInv'
      BY <1>6, <2>2 DEF OpenSucceeds, Goes
    <3>3. MainInv'
      BY <1>6, <2>2 DEF OpenSucceeds, Goes
    <3>4. ErrorInv' /\ OnlyInterruptCancels'
      BY <1>6, <2>2 DEF OpenSucceeds, Goes
    <3>5. FailureInv'
      BY <1>6, <2>2 DEF OpenSucceeds, Goes
    <3>6. QED
      BY <3>1, <3>2, <3>3, <3>4, <3>5
  <2>3. QED
    BY <2>1, <2>2
<1>7. CASE StartRunner
  <2>1. TypesOK'
    BY <1>7 DEF StartRunner, Goes
  <2>2. TaskInv'
    BY <1>7 DEF StartRunner, Goes
  <2>3. MainInv'
    BY <1>7 DEF StartRunner, Goes
  <2>4. ErrorInv' /\ OnlyInterruptCancels'
    BY <1>7 DEF StartRunner, Goes
  <2>5. FailureInv'
    BY <1>7 DEF StartRunner, Goes
  <2>6. QED
    BY <2>1, <2>2, <2>3, <2>4, <2>5
<1>8. CASE ScreenReturned
  BY <1>8 DEF ScreenReturned, Proceeds, Goes, MainStep
<1>9. CASE ScreenFailed
  BY <1>9 DEF ScreenFailed, Proceeds, Goes, MainStep, CancelAlso
<1>10. CASE Dropped
  BY <1>10 DEF Dropped, Proceeds, Goes, MainStep
<1>11. CASE RunnerJoined
  BY <1>11 DEF RunnerJoined, Proceeds, Goes, MainStep
<1>12. CASE ScreenJoined
  BY <1>12 DEF ScreenJoined, Proceeds, Goes, MainStep
<1>13. CASE Swept
  BY <1>13 DEF Swept, Proceeds, Goes, MainStep
<1>14. CASE Collected
  BY <1>14 DEF Collected, Proceeds, Goes, MainStep
<1>15. CASE CloseSucceeds
  BY <1>15 DEF CloseSucceeds, Close, Goes
<1>16. CASE CloseFails
  BY <1>16 DEF CloseFails, Close, Goes, Fails
<1>17. CASE LoopLeft
  BY <1>17 DEF LoopLeft, Proceeds, Goes
<1>18. QED
  BY <1>1, <1>2, <1>3, <1>4, <1>5, <1>6, <1>7, <1>8, <1>9, <1>10, <1>11, <1>12, <1>13, <1>14, <1>15, <1>16, <1>17 DEF MainProceeds

LEMMA InvPreserved == IInv /\ [Next]_vars => IInv'
<1> SUFFICES ASSUME IInv, [Next]_vars PROVE IInv'
  OBVIOUS
<1>1. CASE UNCHANGED vars
  BY <1>1 DEF vars, IInv, TypesOK, TaskInv, MainInv, ErrorInv, FailureInv, OnlyInterruptCancels,
     Quiet
<1>2. QED
  BY <1>1, UserPreserves, TasksPreserve, RunnerPreserves, MainPreserves DEF Next, ProgramOver

----------------------------------------------------------------------------
(* The theorems.                                                           *)

(* The joint invariant of one run of the program. *)
THEOREM Invariance == Spec => []IInv
<1>1. QED
  BY InitInv, InvPreserved, PTL DEF Spec, SafeSpec

(* Types; a runner that is done leaves no task behind, and no task runs    *)
(* before the output is open.                                              *)
THEOREM TypeCorrect == Spec => []TypeOK
<1>1. IInv => TypeOK
  <2> SUFFICES ASSUME IInv PROVE TypeOK
    OBVIOUS
  <2>1. runner = "done" => {"collector", "monitor"} \intersect Running = {}
    BY RunningIs DEF IInv, TaskInv
  <2>2. Running # {} => opened
    BY RunningIs DEF IInv, TypesOK, TaskInv, MainInv, Quiet
  <2>3. QED
    BY <2>1, <2>2 DEF IInv, TypesOK, TypeOK
<1>2. QED
  BY <1>1, Invariance, PTL

(* In whatever order tasks end and interrupts arrive, the output is closed *)
(* once nobody can use it any more, and no task or thread outlives the run.*)
THEOREM OutputClosedLast == Spec => []ClosedLast
<1>1. IInv => ClosedLast
  BY RunningIs DEF IInv, MainInv, ClosedLast
<1>2. QED
  BY <1>1, Invariance, PTL

(* The cancellations the supervisors use among themselves never become the *)
(* error of the program.                                                   *)
THEOREM CancelledByInterrupt == Spec => []OnlyInterruptCancels
<1>1. IInv => OnlyInterruptCancels
  BY DEF IInv
<1>2. QED
  BY <1>1, Invariance, PTL

(* A failure of any part, in any combination and order, gives an exit code *)
(* other than 0.                                                           *)
THEOREM FailureShown == Spec => []NoFailureHidden
<1>1. IInv => NoFailureHidden
  <2> SUFFICES ASSUME IInv, main = "over", ~ interrupted, failures \ {"write"} # {}
               PROVE  ExitCode # 0
    BY DEF NoFailureHidden
  <2>1. error # "none"
    <3>1. PICK failure \in failures : failure # "write"
      OBVIOUS
    <3>2. failure \in {"config", "products", "open", "collector", "output", "screen", "close",
                      "spot", "usdm"}
      BY <3>1 DEF IInv, TypesOK
    <3>3. collector = "raised" => result # "none"
      BY DEF IInv, TaskInv, MainInv, Quiet
    <3>4. QED
      BY <3>1, <3>2, <3>3 DEF IInv, FailureInv, ErrorInv
  <2>2. error # "cancelled"
    BY DEF IInv, OnlyInterruptCancels
  <2>3. QED
    BY <2>1, <2>2 DEF ExitCode
<1>2. QED
  BY <1>1, Invariance, PTL
=============================================================================
