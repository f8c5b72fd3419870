-------------------------- MODULE SimulationService --------------------------
(***************************************************************************)
(* The simulation service of the API (api/services/simulation_service.py)  *)
(* with the runner it drives in a worker thread (simulation/runner.py).    *)
(*                                                                         *)
(* All coroutines - the requests that call start() and stop(), one _run()  *)
(* and one progress monitor per simulation - share the event loop, so a    *)
(* step here is what one of them does up to the next await that may        *)
(* suspend it.  The thread of SimulationRunner.run and the node processes  *)
(* it spawns run beside the loop.  The list of runners (_runner_ref) is    *)
(* one object that all runs share.                                         *)
(*                                                                         *)
(* Abstractions.  A result and a progress value are the run they come      *)
(* from; a metrics directory is the set of runs whose nodes have written   *)
(* to it.  The wall time, the error text, the request's parameters and     *)
(* _stop_event, which nothing reads, are left out.                         *)
(***************************************************************************)
EXTENDS Naturals, Sequences

CONSTANTS
  MaxRuns,       \* bound: simulations started
  Node,          \* the node processes of a simulation
  Stopper,       \* the stop() requests
  MaxCrashes,    \* bound: crashes of the API server
  OneClient      \* is the next request sent only after the answer to the last?

ASSUME ServiceAssumption ==
  /\ MaxRuns \in Nat
  /\ MaxCrashes \in Nat
  /\ OneClient \in BOOLEAN

Run  == 1 .. MaxRuns
None == 0             \* no run

VARIABLES
  svc,      \* status, task, result and progress of the service
  sidecar,  \* the saved state
  ref,      \* _runner_ref: the runs whose runner is registered
  job,      \* job[k]: coroutine, monitor, thread and processes of run k
  stopper,  \* stopper[s]: stop() request s and the task it awaits
  started,  \* number of simulations started
  files,    \* the runs with records in the metrics directory
  crashes   \* number of server crashes

vars == <<svc, sidecar, ref, job, stopper, started, files, crashes>>

Status == {"idle", "running", "finished", "error"}

Service == [status : Status, task : {None} \cup Run,
            result : {None} \cup Run, progress : {None} \cup Run]

Saved == [status : Status \ {"running"}, result : {None} \cup Run, progress : {None} \cup Run]

Job == [co : {"none", "created", "announcing", "waiting", "finishing", "failing",
              "cancelling", "closing", "setup failed", "over"},
        cancel  : BOOLEAN,                            \* cancellation requested
        mon     : {"none", "on", "cancelled", "over"},
        th      : {"none", "queued", "starting", "spawning", "joining", "done", "failed"},
        spawned : SUBSET Node,                        \* processes started so far
        fresh   : SUBSET Node,                        \* started, not yet in active
        active  : SUBSET Node,                        \* _active_processes
        alive   : SUBSET Node]

NoJob == [co |-> "none", cancel |-> FALSE, mon |-> "none", th |-> "none",
          spawned |-> {}, fresh |-> {}, active |-> {}, alive |-> {}]

StopCall == [pc : {"idle", "awaiting", "returned"}, task : {None} \cup Run]

TypeOK ==
  /\ svc \in Service
  /\ sidecar \in Saved
  /\ ref \in Seq(Run)
  /\ job \in [Run -> Job]
  /\ stopper \in [Stopper -> StopCall]
  /\ started \in 0 .. MaxRuns
  /\ files \subseteq Run
  /\ crashes \in 0 .. MaxCrashes

NoSidecar == [status |-> "idle", result |-> None, progress |-> None]

(* __init__ and _load_sidecar.                                             *)
Loaded(saved) == [status |-> saved.status, task |-> None,
                  result |-> saved.result, progress |-> saved.progress]

Init ==
  /\ svc = Loaded(NoSidecar)
  /\ sidecar = NoSidecar
  /\ ref = <<>>
  /\ job = [k \in Run |-> NoJob]
  /\ stopper = [s \in Stopper |-> [pc |-> "idle", task |-> None]]
  /\ started = 0
  /\ files = {}
  /\ crashes = 0

-----------------------------------------------------------------------------
(* Helpers.                                                                *)

Over(k) == job[k].co \in {"over", "setup failed"}

NoRequestPending == \A s \in Stopper : stopper[s].pc # "awaiting"

(* SimulationRunner.stop(): terminates the processes it knows of.  The     *)
(* spawning thread may append to the list meanwhile: those are included.   *)
Stopped(j) == [j EXCEPT !.alive = @ \ j.active, !.active = {}]

(* The jobs after `if runner_ref: runner_ref[0].stop()`.                   *)
FirstRunnerStopped ==
  IF ref = <<>> THEN job ELSE [job EXCEPT ![Head(ref)] = Stopped(@)]

(* Mutation of Closing: monitor_task.cancel() is forgotten.                *)
ClosingMonitorOn(j) == [j EXCEPT !.co = "closing", !.cancel = FALSE]

(* The finally block up to `await monitor_task`.                           *)
Closing(j) == [j EXCEPT !.co = "closing", !.cancel = FALSE, !.mon = "cancelled"]

(* Mutation of SaveSidecar: written before the new state is assigned.      *)
SaveSidecarFirst(s) ==
  sidecar' = [status |-> svc.status, result |-> svc.result, progress |-> svc.progress]

(* _save_sidecar: the state s of the service.                              *)
SaveSidecar(s) ==
  sidecar' = [status |-> s.status, result |-> s.result, progress |-> s.progress]

-----------------------------------------------------------------------------
(* The requests.                                                           *)

(* Mutation of Start: without the test of the status.                      *)
StartUnguarded ==
  /\ started < MaxRuns
  /\ OneClient => NoRequestPending
  /\ started' = started + 1
  /\ svc' = [status |-> "running", task |-> started + 1, result |-> None, progress |-> None]
  /\ ref' = <<>>
  /\ job' = [job EXCEPT ![started + 1].co = "created"]
  /\ UNCHANGED <<sidecar, stopper, files, crashes>>

(* start(): refused while the status is running.                           *)
Start ==
  /\ svc.status # "running"
  /\ started < MaxRuns
  /\ OneClient => NoRequestPending
  /\ started' = started + 1
  /\ svc' = [status |-> "running", task |-> started + 1, result |-> None, progress |-> None]
  /\ ref' = <<>>
  /\ job' = [job EXCEPT ![started + 1].co = "created"]
  /\ UNCHANGED <<sidecar, stopper, files, crashes>>

(* stop() up to `await self._task`; without a task, or with one that has   *)
(* ended, it goes through to its end.                                      *)
Stop(s) ==
  /\ stopper[s].pc = "idle"
  /\ OneClient => NoRequestPending
  /\ LET k == svc.task IN
     IF k = None \/ (k \in Run /\ Over(k))
     THEN /\ job' = FirstRunnerStopped
          /\ stopper' = [stopper EXCEPT ![s].pc = "returned"]
          /\ svc' = [svc EXCEPT !.status = "idle"]
          /\ ref' = <<>>
     ELSE /\ job' = [FirstRunnerStopped EXCEPT ![k].cancel = TRUE]
          /\ stopper' = [stopper EXCEPT ![s] = [pc |-> "awaiting", task |-> k]]
          /\ UNCHANGED <<svc, ref>>
  /\ UNCHANGED <<sidecar, started, files, crashes>>

(* Mutation of StopReturns: the status is left to the task.                *)
StopReturnsOnly(s) ==
  /\ stopper[s].pc = "awaiting"
  /\ Over(stopper[s].task)
  /\ stopper' = [stopper EXCEPT ![s].pc = "returned"]
  /\ ref' = <<>>
  /\ UNCHANGED <<svc, sidecar, job, started, files, crashes>>

(* stop() after the awaited task has ended.                                *)
StopReturns(s) ==
  /\ stopper[s].pc = "awaiting"
  /\ Over(stopper[s].task)
  /\ stopper' = [stopper EXCEPT ![s].pc = "returned"]
  /\ svc' = [svc EXCEPT !.status = "idle"]
  /\ ref' = <<>>
  /\ UNCHANGED <<sidecar, job, started, files, crashes>>

-----------------------------------------------------------------------------
(* The coroutine _run of run k.                                            *)

(* The task begins and broadcasts "started", unless it was cancelled       *)
(* first.  The configuration is read before the try block: when that       *)
(* fails, the task ends with the exception and nothing else happens.       *)
Begin(k) ==
  /\ job[k].co = "created"
  /\ \/ /\ job[k].cancel
        /\ job' = [job EXCEPT ![k].co = "over", ![k].cancel = FALSE]
     \/ /\ ~job[k].cancel
        /\ job' = [job EXCEPT ![k].co = "announcing"]
     \/ /\ ~job[k].cancel
        /\ job' = [job EXCEPT ![k].co = "setup failed"]
  /\ UNCHANGED <<svc, sidecar, ref, stopper, started, files, crashes>>

(* The broadcast is out: create the thread and the monitor.                *)
Launch(k) ==
  /\ job[k].co = "announcing"
  /\ job' = IF job[k].cancel
            THEN [job EXCEPT ![k].co = "over", ![k].cancel = FALSE]
            ELSE [job EXCEPT ![k].co = "waiting", ![k].th = "queued", ![k].mon = "on"]
  /\ UNCHANGED <<svc, sidecar, ref, stopper, started, files, crashes>>

(* The thread has returned: publish and save the result, broadcast it.     *)
Finish(k) ==
  /\ job[k].co = "waiting"
  /\ job[k].th = "done"
  /\ ~job[k].cancel
  /\ svc' = [svc EXCEPT !.status = "finished", !.result = k, !.progress = k]
  /\ SaveSidecar(svc')
  /\ job' = [job EXCEPT ![k].co = "finishing"]
  /\ UNCHANGED <<ref, stopper, started, files, crashes>>

(* The thread has raised an exception.                                     *)
Fail(k) ==
  /\ job[k].co = "waiting"
  /\ job[k].th = "failed"
  /\ ~job[k].cancel
  /\ svc' = [svc EXCEPT !.status = "error"]
  /\ SaveSidecar(svc')
  /\ job' = [job EXCEPT ![k].co = "failing"]
  /\ UNCHANGED <<ref, stopper, started, files, crashes>>

(* CancelledError inside the try block, also at the broadcast of the       *)
(* result.  A thread that has not begun never will.                        *)
Cancelled(k) ==
  /\ job[k].co \in {"waiting", "finishing"}
  /\ job[k].cancel
  /\ svc' = [svc EXCEPT !.status = "idle"]
  /\ job' = [FirstRunnerStopped EXCEPT
               ![k].co = "cancelling", ![k].cancel = FALSE,
               ![k].th = IF @ = "queued" THEN "none" ELSE @]
  /\ UNCHANGED <<sidecar, ref, stopper, started, files, crashes>>

(* The last broadcast is out, or a cancellation cuts it short: finally.    *)
CloseRun(k) ==
  /\ \/ job[k].co \in {"failing", "cancelling"}
     \/ job[k].co = "finishing" /\ ~job[k].cancel
  /\ job' = [job EXCEPT ![k] = Closing(@)]
  /\ UNCHANGED <<svc, sidecar, ref, stopper, started, files, crashes>>

(* The monitor has ended: clear the list of runners.                       *)
EndRun(k) ==
  /\ job[k].co = "closing"
  /\ job[k].mon = "over"
  /\ ref' = <<>>
  /\ job' = [job EXCEPT ![k].co = "over", ![k].cancel = FALSE]
  /\ UNCHANGED <<svc, sidecar, stopper, started, files, crashes>>

(* _monitor_progress: the highest round number in all metrics files is     *)
(* one of a run that has written there.                                    *)
MonitorTick(k) ==
  /\ job[k].mon = "on"
  /\ \E r \in files : svc' = [svc EXCEPT !.progress = r]
  /\ UNCHANGED <<sidecar, ref, job, stopper, started, files, crashes>>

MonitorEnds(k) ==
  /\ job[k].mon = "cancelled"
  /\ job' = [job EXCEPT ![k].mon = "over"]
  /\ UNCHANGED <<svc, sidecar, ref, stopper, started, files, crashes>>

-----------------------------------------------------------------------------
(* The worker thread of run k: _thread_run and SimulationRunner.run.       *)

ThreadBegins(k) ==
  /\ job[k].th = "queued"
  /\ job' = [job EXCEPT ![k].th = "starting"]
  /\ UNCHANGED <<svc, sidecar, ref, stopper, started, files, crashes>>

Register(k) ==
  /\ job[k].th = "starting"
  /\ ref' = Append(ref, k)
  /\ job' = [job EXCEPT ![k].th = "spawning", ![k].active = {}]
  /\ UNCHANGED <<svc, sidecar, stopper, started, files, crashes>>

Spawn(k, n) ==
  /\ job[k].th = "spawning"
  /\ job[k].fresh = {}
  /\ n \notin job[k].spawned
  /\ job' = [job EXCEPT ![k].spawned = @ \cup {n}, ![k].fresh = {n},
                        ![k].alive = @ \cup {n}]
  /\ UNCHANGED <<svc, sidecar, ref, stopper, started, files, crashes>>

Track(k) ==
  /\ job[k].th = "spawning"
  /\ job[k].fresh # {}
  /\ job' = [job EXCEPT ![k].active = @ \cup job[k].fresh, ![k].fresh = {}]
  /\ UNCHANGED <<svc, sidecar, ref, stopper, started, files, crashes>>

AllSpawned(k) ==
  /\ job[k].th = "spawning"
  /\ job[k].fresh = {}
  /\ job[k].spawned = Node
  /\ job' = [job EXCEPT ![k].th = "joining"]
  /\ UNCHANGED <<svc, sidecar, ref, stopper, started, files, crashes>>

(* Mutation of JoinTimesOut: only reported, not terminated.                *)
JoinTimesOutSilently(k, n) ==
  /\ job[k].th = "joining"
  /\ n \in job[k].alive
  /\ UNCHANGED vars

(* join(timeout) has expired: the process is terminated.                   *)
JoinTimesOut(k, n) ==
  /\ job[k].th = "joining"
  /\ n \in job[k].alive
  /\ job' = [job EXCEPT ![k].alive = @ \ {n}]
  /\ UNCHANGED <<svc, sidecar, ref, stopper, started, files, crashes>>

(* Everything joined, convergence computed: the runner returns.            *)
RunnerReturns(k) ==
  /\ job[k].th = "joining"
  /\ job[k].alive = {}
  /\ job' = [job EXCEPT ![k].th = "done", ![k].active = {}]
  /\ UNCHANGED <<svc, sidecar, ref, stopper, started, files, crashes>>

(* An exception: a directory or a process cannot be created, a record of   *)
(* the metrics cannot be read.  Processes already started are left.        *)
ThreadFails(k) ==
  /\ \/ job[k].th \in {"starting", "spawning"}
     \/ job[k].th = "joining" /\ job[k].alive = {}
  /\ job' = [job EXCEPT ![k].th = "failed", ![k].fresh = {}]
  /\ UNCHANGED <<svc, sidecar, ref, stopper, started, files, crashes>>

-----------------------------------------------------------------------------
(* A node process of run k (_node_process): it flushes metrics and exits.  *)
NodeWrites(k) ==
  /\ job[k].alive # {}
  /\ files' = files \cup {k}
  /\ UNCHANGED <<svc, sidecar, ref, job, stopper, started, crashes>>

NodeExits(k, n) ==
  /\ n \in job[k].alive
  /\ job' = [job EXCEPT ![k].alive = @ \ {n}]
  /\ UNCHANGED <<svc, sidecar, ref, stopper, started, files, crashes>>

(* The server is killed and started again.  The sidecar is torn when this  *)
(* happens while it is written, and then ignored.  Node processes are not  *)
(* daemons: they survive.                                                  *)
Restart ==
  /\ crashes < MaxCrashes
  /\ crashes' = crashes + 1
  /\ \/ UNCHANGED sidecar
     \/ /\ \E k \in Run : job[k].co = "waiting" /\ job[k].th \in {"done", "failed"}
        /\ sidecar' = NoSidecar
  /\ svc' = Loaded(sidecar')
  /\ ref' = <<>>
  /\ job' = [k \in Run |-> [NoJob EXCEPT !.alive = job[k].alive,
                                         !.co = IF job[k].co = "none" THEN "none" ELSE "over"]]
  /\ stopper' = [s \in Stopper |-> IF stopper[s].pc = "awaiting"
                                   THEN [stopper[s] EXCEPT !.pc = "returned"]
                                   ELSE stopper[s]]
  /\ UNCHANGED <<started, files>>

(* Nothing left to do: all runs are over, and no start() is left or every  *)
(* start() is refused because a failed setup has left "running" behind.    *)
Quiet ==
  /\ started = MaxRuns \/ svc.status = "running"
  /\ \A k \in Run : job[k].co # "none" => Over(k) /\ job[k].alive = {}
  /\ UNCHANGED vars

-----------------------------------------------------------------------------
EventLoop(k) == Begin(k) \/ Launch(k) \/ Finish(k) \/ Fail(k) \/ Cancelled(k)
                  \/ CloseRun(k) \/ EndRun(k)
Monitor(k)   == MonitorTick(k) \/ MonitorEnds(k)
Thread(k)    == \/ ThreadBegins(k) \/ Register(k) \/ Track(k) \/ AllSpawned(k)
                \/ RunnerReturns(k) \/ ThreadFails(k)
                \/ \E n \in Node : Spawn(k, n) \/ JoinTimesOut(k, n)

Next ==
  \/ Start
  \/ \E s \in Stopper : Stop(s) \/ StopReturns(s)
  \/ \E k \in Run : EventLoop(k) \/ Monitor(k) \/ Thread(k) \/ NodeWrites(k)
  \/ \E k \in Run, n \in Node : NodeExits(k, n)
  \/ Restart
  \/ Quiet

Spec == Init /\ [][Next]_vars

(* The event loop and the worker threads are scheduled, a broadcast comes  *)
(* to an end (a dead client is dropped), and join() has a timeout.  No     *)
(* request has to be sent, and no process to exit by itself.               *)
Fairness ==
  /\ \A s \in Stopper : WF_vars(StopReturns(s))
  /\ \A k \in Run : /\ WF_vars(EventLoop(k))
                    /\ WF_vars(MonitorEnds(k))
                    /\ WF_vars(Thread(k))

FairSpec == Spec /\ Fairness
-----------------------------------------------------------------------------
(* Properties.                                                             *)

(* The status "running" is never left behind: its task is still at work,   *)
(* or a stop() that awaits it will reset the status - whatever await a     *)
(* cancellation hits, and however starts and stops overlap.  The one       *)
(* exception is a task whose setup failed before its try block.            *)
RunningHasTask ==
  svc.status = "running" =>
    /\ svc.task \in Run
    /\ \/ job[svc.task].co \in {"created", "announcing", "waiting", "setup failed"}
       \/ \E s \in Stopper : stopper[s].pc = "awaiting"

(* To a client that waits for the answer to each request, the service with *)
(* its tasks, threads and sidecar is the small machine of SimulationApi,   *)
(* through cancellations, failures and restarts.  (With OneClient FALSE it *)
(* is not.)                                                                *)
Api == INSTANCE SimulationApi
         WITH status <- svc.status, result <- svc.result, latest <- started
ServiceIsApi == Api!ApiSpec

(* "Singleton managing one simulation run at a time"                       *)
(* (simulation_service.py:21): the nodes of two simulations, which listen  *)
(* on the same ports, are never up together.                               *)
OneSimulationAtATime ==
  \A k, l \in Run : job[k].alive # {} /\ job[l].alive # {} => k = l

(* A stop() request is answered, whatever await it catches the run in.     *)
StopsReturn == \A s \in Stopper : stopper[s].pc = "awaiting" ~> stopper[s].pc = "returned"

(* A simulation whose thread was created comes to an end, also when its    *)
(* node processes hang.                                                    *)
RunsEnd == \A k \in Run : job[k].co = "waiting" ~> Over(k)
=============================================================================
