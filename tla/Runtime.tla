------------------------------ MODULE Runtime ------------------------------
(***************************************************************************)
(* The supervision of one run of the program, from the command line to the *)
(* exit code: src/main.py, src/multi_runtime.py and src/run_mongodb.py.    *)
(* The main coroutine opens the output, runs collector, failure monitor    *)
(* and screen as tasks, ends all of them when one ends, and closes the     *)
(* output; asyncio.run then waits for the threads that are left.           *)
(*                                                                         *)
(* The collector is known by CollectorContract only.  The tasks are        *)
(* "collector", "monitor" (wait_for_output_failure), "screen" (run of the  *)
(* renderer) and "runner" (_run_collector_with_output_monitor, which JSON  *)
(* mode runs inside the main coroutine).  The rules of asyncio kept here:  *)
(* - a cancelled task waiting in asyncio.wait or gather gets its           *)
(*   CancelledError and runs its finally, which cancels its children;      *)
(* - a cancelled task that awaits one other task passes the cancellation   *)
(*   on and gets whatever that task ends with;                             *)
(* - a cancelled task whose wait has just ended is cancelled all the same, *)
(*   but asyncio.wait_for returns if the stop event came too (Python 3.11);*)
(* - a thread cannot be cancelled, and asyncio.run waits for it.           *)
(*                                                                         *)
(* The Bug_ operators are plausible slips in the code, used nowhere: each  *)
(* shows that a property fails when it takes the place of its namesake.    *)
(***************************************************************************)
EXTENDS Naturals, FiniteSets

CONSTANT
  Setups (* The ways of running the program that are considered:             *)
         (* "json"  JSON lines on stdout, no screen;                         *)
         (* "watch" a screen and no output;                                  *)
         (* "pipe"  a screen on stderr and JSON lines on stdout;             *)
         (* "mongo" a screen, the single MongoDB output;                     *)
         (* "multi" a screen, the multi-stream profile.                      *)

ASSUME SetupsAssumption == Setups \subseteq {"json", "watch", "pipe", "mongo", "multi"}

VARIABLES
  setup,       (* the way this run of the program goes                         *)
  signals,     (* whether the platform supports add_signal_handler             *)
  stop,        (* the stop event                                               *)
  main,        (* where the main coroutine stands                              *)
  error,       (* the error that will leave it                                 *)
  collector,   (* the task of the collector, and how it ended                  *)
  monitor,     (* the task of the failure monitor                              *)
  screen,      (* the task of the screen                                       *)
  runner,      (* where _run_collector_with_output_monitor stands              *)
  result,      (* the error it ends with                                       *)
  cancelling,  (* the tasks whose cancellation is under way                    *)
  threads,     (* the work under way in threads                                *)
  opened,      (* opened                                                       *)
  closed,      (* close() of the output has been carried out                   *)
  broken,      (* the background work of the output has failed                 *)
  reported,    (* ... and wait_failed has raised it                            *)
  interrupted, (* KeyboardInterrupt: asyncio.run has cancelled the coroutine   *)
  failures     (* history: what has failed in this run                         *)

mainVars == <<main, error>>
runnerVars == <<runner, result>>
taskVars == <<collector, monitor, screen>>
outputVars == <<opened, closed, broken, reported>>
vars == <<setup, signals, stop, mainVars, runnerVars, taskVars, cancelling, threads,
          outputVars, interrupted, failures>>

----------------------------------------------------------------------------
HasScreen == setup # "json"
Monitored == setup \in {"mongo", "multi"}
WritesInThread == setup \in {"json", "pipe"}

Running == {task \in {"collector", "monitor", "screen", "runner"} :
              CASE task = "collector" -> collector = "running"
                [] task = "monitor" -> monitor = "running"
                [] task = "screen" -> screen = "running"
                [] task = "runner" -> runner \notin {"none", "done"}}

(* Cancelling a task that is done has no effect. *)
CancelAlso(tasks) == cancelling' = cancelling \union (tasks \intersect Running)

Contract == INSTANCE CollectorContract WITH outcome <- collector

Init ==
  /\ setup \in Setups /\ signals \in BOOLEAN
  /\ stop = FALSE
  /\ main = "configuring" /\ error = "none"
  /\ collector = "new" /\ monitor = "none" /\ screen = "none"
  /\ runner = "none" /\ result = "none"
  /\ cancelling = {} /\ threads = {}
  /\ opened = FALSE /\ closed = FALSE /\ broken = FALSE /\ reported = FALSE
  /\ interrupted = FALSE /\ failures = {}

----------------------------------------------------------------------------
(* The user.                                                               *)

HandlersInstalled == signals /\ main \notin {"configuring", "validating", "leaving", "over"}

RequestStop ==
  /\ HandlersInstalled
  /\ Contract!RequestStop
  /\ UNCHANGED <<setup, signals, mainVars, runnerVars, monitor, screen, cancelling, threads,
                 outputVars, interrupted, failures>>

(* Ctrl-C where no handler is installed cancels the main coroutine, once,  *)
(* wherever it waits.                                                      *)
Interrupt ==
  /\ ~ interrupted /\ ~ HandlersInstalled /\ main \notin {"configuring", "leaving", "over"}
  /\ interrupted' = TRUE
  /\ UNCHANGED <<setup, signals, runnerVars, taskVars, threads, outputVars, failures>>

InterruptStart ==
  /\ main \in {"validating", "opening"}
  /\ Interrupt
  /\ main' = "leaving" /\ error' = "cancelled"
  /\ UNCHANGED <<stop, cancelling>>

InterruptWatch ==
  /\ main \in {"starting", "watching", "dropping", "sweeping"}
  /\ Interrupt
  /\ error' = "cancelled"
  /\ main' = IF main = "dropping" THEN main ELSE "sweeping"
  /\ stop' = (stop \/ main # "dropping")
  /\ CancelAlso({"screen", "runner"})

InterruptAwait(phase, task, next) ==
  /\ main = phase
  /\ Interrupt
  /\ CancelAlso({task})
  /\ IF task \in Running
     THEN UNCHANGED <<stop, main, error>>
     ELSE stop' = TRUE /\ main' = next /\ error' = "cancelled"

InterruptClose ==
  /\ main = "closing"
  /\ Interrupt
  /\ main' = "leaving" /\ error' = IF error = "none" THEN "cancelled" ELSE error
  /\ UNCHANGED <<stop, cancelling>>

----------------------------------------------------------------------------
(* The tasks.                                                              *)

TaskStep == UNCHANGED <<setup, signals, mainVars, runnerVars, cancelling, opened, closed,
                        interrupted>>

(* A collector that fails sets the stop event before it raises (the        *)
(* multi-stream one).                                                      *)
CollectorSetsStop ==
  /\ setup = "multi" /\ collector = "running"
  /\ Contract!RequestStop
  /\ TaskStep
  /\ UNCHANGED <<monitor, screen, threads, broken, reported, failures>>

CollectorReturns ==
  /\ Contract!Return
  /\ TaskStep
  /\ UNCHANGED <<monitor, screen, threads, broken, reported, failures>>

(* The handler fails, but not before its write has ended. *)
CollectorRaises ==
  /\ "write" \notin threads
  /\ Contract!Raise
  /\ failures' = failures \union {"collector"}
  /\ TaskStep
  /\ UNCHANGED <<monitor, screen, threads, broken, reported>>

CollectorCancelled ==
  /\ "collector" \in cancelling
  /\ Contract!Cancelled
  /\ TaskStep
  /\ UNCHANGED <<monitor, screen, threads, broken, reported, failures>>

(* StdoutOutput.write: the line is written in a thread, which goes on when *)
(* the handler that waits for it is cancelled.  A message that is received *)
(* together with the stop request is still given to the handler.           *)
WriteStarts ==
  /\ WritesInThread /\ collector = "running"
  /\ "write" \notin threads \union failures
  /\ threads' = threads \union {"write"}
  /\ TaskStep
  /\ UNCHANGED <<stop, taskVars, broken, reported, failures>>

WriteEnds ==
  /\ "write" \in threads
  /\ threads' = threads \ {"write"}
  /\ failures' \in {failures, failures \union {"write"}}
  /\ TaskStep
  /\ UNCHANGED <<stop, taskVars, broken, reported>>

(* A MongoDB worker fails. *)
OutputBreaks ==
  /\ Monitored /\ opened /\ ~ closed /\ ~ broken /\ main # "leaving"
  /\ broken' = TRUE
  /\ failures' = failures \union {"output"}
  /\ TaskStep
  /\ UNCHANGED <<stop, taskVars, threads, reported>>

MonitorRaises ==
  /\ monitor = "running" /\ broken /\ "monitor" \notin cancelling
  /\ monitor' = "raised" /\ reported' = TRUE
  /\ TaskStep
  /\ UNCHANGED <<stop, collector, screen, threads, broken, failures>>

MonitorCancelled ==
  /\ monitor = "running" /\ "monitor" \in cancelling
  /\ monitor' = "cancelled"
  /\ TaskStep
  /\ UNCHANGED <<stop, collector, screen, threads, broken, reported, failures>>

ScreenEnds(how) ==
  /\ screen = "running"
  /\ \/ how = "returned" /\ stop
     \/ how = "raised"
     \/ how = "cancelled" /\ "screen" \in cancelling
  /\ screen' = how
  /\ failures' = IF how = "raised" THEN failures \union {"screen"} ELSE failures
  /\ TaskStep
  /\ UNCHANGED <<stop, collector, monitor, threads, broken, reported>>

----------------------------------------------------------------------------
(* _run_collector_with_output_monitor.                                     *)

RunnerStep == UNCHANGED <<setup, signals, mainVars, screen, threads, outputVars, interrupted,
                          failures>>

RunnerStarts ==
  /\ runner = "new" /\ "runner" \notin cancelling
  /\ runner' = "waiting"
  /\ Contract!Start
  /\ monitor' = IF Monitored THEN "running" ELSE monitor
  /\ RunnerStep
  /\ UNCHANGED <<result, cancelling>>

(* The finally block: who is left is cancelled and waited for. *)
CleanUp(with) ==
  /\ runner' = "cleaning" /\ result' = with
  /\ CancelAlso({"collector", "monitor"})

ResultOfCollector ==
  CASE collector = "raised" -> "collector" [] collector = "cancelled" -> "cancelled"
    [] OTHER -> "none"

(* The failure of the output goes before the end of the collector. *)
MonitorSeen ==
  /\ runner = "waiting" /\ "runner" \notin cancelling
  /\ monitor = "raised"
  /\ runner' = "reaping"
  /\ stop' = TRUE
  /\ CancelAlso({"collector"})
  /\ RunnerStep
  /\ UNCHANGED <<result, collector, monitor>>

Reaped ==
  /\ runner = "reaping" /\ "runner" \notin cancelling
  /\ collector # "running"
  /\ CleanUp("output")
  /\ RunnerStep
  /\ UNCHANGED <<stop, collector, monitor>>

Bug_CollectorSeen ==
  /\ runner = "waiting" /\ "runner" \notin cancelling
  /\ collector # "running"
  /\ CleanUp(ResultOfCollector)
  /\ RunnerStep
  /\ UNCHANGED <<stop, collector, monitor>>

CollectorSeen ==
  /\ runner = "waiting" /\ "runner" \notin cancelling
  /\ collector # "running" /\ monitor # "raised"
  /\ CleanUp(ResultOfCollector)
  /\ RunnerStep
  /\ UNCHANGED <<stop, collector, monitor>>

(* Without a monitor the cancellation is passed on to the collector.       *)
RunnerCancelled ==
  /\ runner \in {"waiting", "reaping", "cleaning"} /\ "runner" \in cancelling
  /\ LET passedOn == ~ Monitored /\ runner = "waiting" /\ collector = "running"
     IN  /\ cancelling' = (cancelling \ {"runner"})
                            \union ({"collector", "monitor"} \intersect Running)
         /\ runner' = IF passedOn THEN runner ELSE "cleaning"
         /\ result' = IF passedOn THEN result ELSE "cancelled"
  /\ RunnerStep
  /\ UNCHANGED <<stop, collector, monitor>>

RunnerNeverStarts ==
  /\ runner = "new" /\ "runner" \in cancelling
  /\ runner' = "done" /\ result' = "cancelled"
  /\ RunnerStep
  /\ UNCHANGED <<stop, collector, monitor, cancelling>>

Bug_RunnerEnds ==
  /\ runner = "cleaning" /\ "runner" \notin cancelling
  /\ runner' = "done"
  /\ RunnerStep
  /\ UNCHANGED <<stop, result, collector, monitor, cancelling>>

RunnerEnds ==
  /\ runner = "cleaning" /\ "runner" \notin cancelling
  /\ {"collector", "monitor"} \intersect Running = {}
  /\ runner' = "done"
  /\ RunnerStep
  /\ UNCHANGED <<stop, result, collector, monitor, cancelling>>

----------------------------------------------------------------------------
(* The main coroutine: run_collector, run_multi_stream_collection and      *)
(* _run_with_tui.                                                          *)

Goes(to, with) ==
  /\ main' = to /\ error' = with
  /\ UNCHANGED <<setup, signals, collector, monitor, broken, reported, interrupted>>

(* Goes on without creating or opening anything. *)
Proceeds(to, with) ==
  /\ Goes(to, with)
  /\ UNCHANGED <<runnerVars, screen, opened, closed>>

Fails(what) == failures' = failures \union {what}

ConfigRejected ==
  /\ main = "configuring"
  /\ Proceeds("over", "config")
  /\ Fails("config")
  /\ UNCHANGED <<stop, cancelling, threads>>

(* The multi-stream profile first asks both markets for their products,    *)
(* unless told not to.                                                     *)
ConfigAccepted ==
  /\ main = "configuring"
  /\ \/ Proceeds("opening", "none") /\ UNCHANGED threads
     \/ setup = "multi" /\ Proceeds("validating", "none") /\ threads' = {"spot", "usdm"}
  /\ UNCHANGED <<stop, cancelling, failures>>

FetchEnds(market) ==
  /\ market \in threads
  /\ threads' = threads \ {market}
  /\ failures' \in {failures, failures \union {market}}
  /\ TaskStep
  /\ UNCHANGED <<stop, taskVars, broken, reported>>

ProductsAccepted ==
  /\ main = "validating" /\ {"spot", "usdm"} \intersect (threads \union failures) = {}
  /\ Proceeds("opening", "none")
  /\ UNCHANGED <<stop, cancelling, threads, failures>>

(* The first failed request ends the validation, the other goes on. *)
ProductsRejected ==
  /\ main = "validating"
  /\ {"spot", "usdm"} \intersect failures # {} \/ threads = {}
  /\ Proceeds("leaving", "products")
  /\ Fails("products")
  /\ UNCHANGED <<stop, cancelling, threads>>

OpenFails ==
  /\ main = "opening" /\ Monitored
  /\ stop' = TRUE
  /\ Proceeds("leaving", "open")
  /\ Fails("open")
  /\ UNCHANGED <<cancelling, threads>>

OpenSucceeds ==
  /\ main = "opening"
  /\ opened' = TRUE
  /\ IF HasScreen
     THEN Goes("starting", "none") /\ screen' = "running" /\ UNCHANGED runner
     ELSE Goes("collecting", "none") /\ runner' = "new" /\ UNCHANGED screen
  /\ UNCHANGED <<stop, result, cancelling, threads, closed, failures>>

(* sleep(0) lets the screen start before the collector.                    *)
StartRunner ==
  /\ main = "starting"
  /\ Goes("watching", "none")
  /\ runner' = "new"
  /\ UNCHANGED <<stop, result, screen, cancelling, threads, opened, closed, failures>>

MainStep == UNCHANGED <<threads, failures>>

(* asyncio.wait returns: the screen has ended and the collector has not. *)
ScreenReturned ==
  /\ main = "watching" /\ screen = "returned" /\ runner # "done"
  /\ stop' = TRUE
  /\ Proceeds("joining", "none")
  /\ MainStep /\ UNCHANGED cancelling

ScreenFailed ==
  /\ main = "watching" /\ screen = "raised" /\ runner # "done"
  /\ Proceeds("dropping", "screen")
  /\ CancelAlso({"runner"})
  /\ MainStep /\ UNCHANGED stop

Bug_Dropped ==
  /\ main = "dropping" /\ runner = "done"
  /\ stop' = TRUE
  /\ Proceeds("sweeping", IF result = "none" THEN error ELSE result)
  /\ MainStep /\ UNCHANGED cancelling

(* The error of the screen is raised, whatever the collector ended with. *)
Dropped ==
  /\ main = "dropping" /\ runner = "done"
  /\ stop' = TRUE
  /\ Proceeds("sweeping", error)
  /\ MainStep /\ UNCHANGED cancelling

Bug_RunnerJoined ==
  /\ main \in {"watching", "joining"} /\ runner = "done"
  /\ Proceeds("finishing", result)
  /\ MainStep /\ UNCHANGED <<stop, cancelling>>

RunnerJoined ==
  /\ main \in {"watching", "joining"} /\ runner = "done"
  /\ stop' = TRUE
  /\ Proceeds("finishing", result)
  /\ MainStep /\ UNCHANGED cancelling

(* An error of the screen takes the place of the collector's. *)
ScreenJoined ==
  /\ main = "finishing" /\ screen # "running"
  /\ Proceeds("sweeping", CASE screen = "raised" -> "screen"
                            [] screen = "cancelled" -> "cancelled"
                            [] OTHER -> error)
  /\ MainStep /\ UNCHANGED <<stop, cancelling>>

Bug_Swept ==
  /\ main = "sweeping"
  /\ Proceeds("closing", error)
  /\ MainStep /\ UNCHANGED <<stop, cancelling>>

Swept ==
  /\ main = "sweeping" /\ {"screen", "runner"} \intersect Running = {}
  /\ Proceeds("closing", error)
  /\ MainStep /\ UNCHANGED <<stop, cancelling>>

(* JSON mode. *)
Collected ==
  /\ main = "collecting" /\ runner = "done"
  /\ stop' = TRUE
  /\ Proceeds("closing", result)
  /\ MainStep /\ UNCHANGED cancelling

Close ==
  /\ main = "closing"
  /\ closed' = TRUE
  /\ UNCHANGED <<runnerVars, screen, opened, stop, cancelling, threads>>

CloseSucceeds ==
  /\ Close
  /\ ~ broken \/ reported
  /\ Goes("leaving", error)
  /\ UNCHANGED failures

(* A failure that nobody was told of, a timeout, or an error of the client; *)
(* an error that is already under way goes first.                          *)
CloseFails ==
  /\ Close
  /\ Monitored
  /\ Goes("leaving", IF error = "none" THEN "close" ELSE error)
  /\ Fails("close")

(* asyncio.run waits for the threads, then returns or raises. *)
LoopLeft ==
  /\ main = "leaving" /\ threads = {}
  /\ Proceeds("over", error)
  /\ UNCHANGED <<stop, cancelling, threads, failures>>

ProgramOver ==
  /\ main = "over"
  /\ UNCHANGED vars

(* asyncio.run turns the CancelledError of an interrupt into a             *)
(* KeyboardInterrupt, which counts as a normal end.                        *)
ExitCode ==
  CASE error = "none" -> 0
    [] error = "cancelled" /\ interrupted -> 0
    [] error \in {"config", "products"} -> 2
    [] OTHER -> 1

----------------------------------------------------------------------------
Interrupts ==
  \/ InterruptStart \/ InterruptWatch \/ InterruptClose
  \/ InterruptAwait("collecting", "runner", "closing")
  \/ InterruptAwait("joining", "runner", "finishing")
  \/ InterruptAwait("finishing", "screen", "sweeping")

CollectorEnds == CollectorReturns \/ CollectorRaises \/ CollectorCancelled
ScreenStops == ScreenEnds("returned") \/ ScreenEnds("cancelled")
MonitorEnds == MonitorRaises \/ MonitorCancelled
ThreadEnds == WriteEnds \/ \E market \in {"spot", "usdm"} : FetchEnds(market)

RunnerProceeds ==
  \/ RunnerStarts \/ RunnerNeverStarts \/ MonitorSeen \/ Reaped \/ CollectorSeen
  \/ RunnerCancelled \/ RunnerEnds

MainProceeds ==
  \/ ConfigRejected \/ ConfigAccepted \/ ProductsAccepted \/ ProductsRejected
  \/ OpenFails \/ OpenSucceeds \/ StartRunner
  \/ ScreenReturned \/ ScreenFailed \/ Dropped \/ RunnerJoined \/ ScreenJoined \/ Swept
  \/ Collected \/ CloseSucceeds \/ CloseFails \/ LoopLeft

Next ==
  \/ RequestStop \/ Interrupts
  \/ CollectorSetsStop \/ CollectorEnds \/ WriteStarts \/ OutputBreaks \/ MonitorEnds
  \/ \E how \in {"returned", "raised", "cancelled"} : ScreenEnds(how)
  \/ ThreadEnds \/ RunnerProceeds \/ MainProceeds \/ ProgramOver

(* Ready tasks run; the output opens and closes within its timeouts; tasks *)
(* end when cancelled or, after a stop request, by themselves (the         *)
(* contract of the collector, the loop of the screen); a failed handler    *)
(* fails the collector; a request has a timeout and a line is written,     *)
(* which for a pipe needs a consumer that reads it.                        *)
Fairness ==
  /\ WF_vars(MainProceeds) /\ WF_vars(RunnerProceeds) /\ WF_vars(MonitorEnds)
  /\ WF_vars(ScreenStops) /\ WF_vars(ThreadEnds)
  /\ WF_vars(stop /\ CollectorEnds) /\ WF_vars(CollectorCancelled)
  /\ WF_vars("write" \in failures /\ CollectorRaises)

SafeSpec == Init /\ [][Next]_vars

Spec == SafeSpec /\ Fairness

----------------------------------------------------------------------------
(* Types; a runner that is done has left no task behind, and only a run    *)
(* whose output was opened has tasks.                                      *)
TypeOK ==
  /\ setup \in Setups
  /\ {signals, stop, opened, closed, broken, reported, interrupted} \subseteq BOOLEAN
  /\ main \in {"configuring", "validating", "opening", "starting", "watching", "dropping",
               "joining", "finishing", "sweeping", "collecting", "closing", "leaving", "over"}
  /\ error \in {"none", "config", "products", "open", "collector", "output", "screen", "close",
                "cancelled"}
  /\ result \in {"none", "collector", "output", "cancelled"}
  /\ collector \in {"new", "running", "returned", "raised", "cancelled"}
  /\ {monitor, screen} \subseteq {"none", "running", "returned", "raised", "cancelled"}
  /\ runner \in {"none", "new", "waiting", "reaping", "cleaning", "done"}
  /\ cancelling \subseteq {"collector", "monitor", "screen", "runner"}
  /\ threads \subseteq {"spot", "usdm", "write"}
  /\ runner = "done" => {"collector", "monitor"} \intersect Running = {}
  /\ Running # {} => opened

(* Whatever fails, the collector, a MongoDB worker, the screen, the        *)
(* opening or closing of the output, and in whatever order, the program    *)
(* does not report success, unless it was interrupted.  What a cancelled   *)
(* handler left to a thread is the subject of OutputFailureExits.          *)
NoFailureHidden ==
  main = "over" /\ ~ interrupted /\ failures \ {"write"} # {} => ExitCode # 0

(* The output is closed last and once, when no task that could use it is   *)
(* left, and every run that opened it closes it, unless an interrupt       *)
(* cancels close() itself; nothing runs on when the program is over.       *)
ClosedLast ==
  /\ main \in {"closing", "leaving", "over"} => Running = {}
  /\ main = "over" => threads = {} /\ (opened /\ ~ interrupted => closed)

(* The cancellations by which the supervisors end the other tasks never    *)
(* surface as the end of the program.                                      *)
OnlyInterruptCancels == error = "cancelled" => interrupted

(* A stop request, an interrupt and every failure end the program.         *)
EndIsReached == (stop \/ interrupted \/ failures # {}) ~> main = "over"

============================================================================
