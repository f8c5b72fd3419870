------------------------ MODULE SimulationServiceProofs ------------------------
(***************************************************************************)
(* Proofs about SimulationService for every number of runs, node processes *)
(* and stop() requests: the inductive invariant ServiceInv, which holds of *)
(* overlapping requests as well, and ClientInv, which holds when one       *)
(* client waits for each answer and gives the refinement of SimulationApi. *)
(***************************************************************************)
EXTENDS SimulationService, SequenceTheorems, TLAPS

Awaits(s, k) == stopper[s].pc = "awaiting" /\ stopper[s].task = k

(* The coroutine of a run that has not ended by itself yet.                *)
Live(k) == job[k].co \in {"created", "announcing", "waiting"}

(* The runs are numbered as they are started, and the service knows the    *)
(* task of the last one while it says "running".                           *)
RunsNumbered ==
  /\ \A k \in Run : job[k].co = "none" <=> k > started
  /\ svc.task <= started
  /\ svc.status = "running" => svc.task = started /\ started > 0 /\ svc.result = None

(* A cancellation under way is one that a stop() request awaits.           *)
CancelsAwaited ==
  /\ \A k \in Run : job[k].cancel => ~Over(k) /\ \E s \in Stopper : Awaits(s, k)
  /\ \A s \in Stopper : stopper[s].pc = "awaiting" => stopper[s].task \in 1 .. started

(* A result, published or saved, is one of a run whose thread has returned *)
(* - or was lost with the server after that.                               *)
Complete(k) ==
  /\ job[k].alive = {}
  /\ job[k].th \in {"none", "done"}
  /\ job[k].co \in {"finishing", "cancelling", "closing", "over"}

ResultsComplete ==
  /\ \A k \in Run : job[k].th = "done" => job[k].alive = {}
  /\ \A k \in Run : job[k].th = "queued" => job[k].co = "waiting"
  /\ svc.result # None => Complete(svc.result)
  /\ sidecar.result # None => Complete(sidecar.result)

(* What is saved is what a run has ended with, or nothing.                 *)
SavedIsAnEnd ==
  /\ sidecar.status = "finished" => sidecar.result \in 1 .. started
  /\ sidecar.status \in {"idle", "error"} => sidecar.result = None

ServiceInv ==
  /\ TypeOK /\ RunsNumbered /\ CancelsAwaited
  /\ RunningHasTask /\ ResultsComplete

(* One client: stop() awaits the task of the service, and only that task   *)
(* is live without having been cancelled.                                  *)
StopsAwaitTask == \A s \in Stopper : stopper[s].pc = "awaiting" => stopper[s].task = svc.task

LiveIsRunning == \A k \in Run : Live(k) /\ ~job[k].cancel => svc.status = "running" /\ k = started

AnswersAwaited == StopsAwaitTask /\ LiveIsRunning /\ SavedIsAnEnd

ClientInv == ServiceInv /\ AnswersAwaited

-----------------------------------------------------------------------------
(* Types.                                                                  *)

LEMMA RunsType ==
  /\ None = 0 /\ None \notin Run
  /\ \A k \in Run : k \in Nat /\ k > 0
  /\ MaxRuns \in Nat
  BY ServiceAssumption DEF None, Run

LEMMA JobFields ==
  ASSUME TypeOK, NEW k \in Run
  PROVE  /\ job[k] \in Job
         /\ job[k].cancel \in BOOLEAN
         /\ job[k].alive \subseteq Node
  BY DEF TypeOK, Job

LEMMA NoJobType == NoJob \in Job
  BY DEF NoJob, Job

(* A step that replaces one job.                                           *)
LEMMA OneJob ==
  ASSUME TypeOK, NEW k \in Run, NEW j \in Job, job' = [job EXCEPT ![k] = j]
  PROVE  /\ job' \in [Run -> Job]
         /\ job'[k] = j
         /\ \A l \in Run \ {k} : job'[l] = job[l]
  BY DEF TypeOK

(* What SimulationRunner.stop() changes: fewer processes are alive.        *)
LEMMA StoppedJob ==
  ASSUME NEW j \in Job
  PROVE  /\ Stopped(j) \in Job /\ Stopped(j).alive \subseteq j.alive
         /\ Stopped(j).co = j.co /\ Stopped(j).cancel = j.cancel
         /\ Stopped(j).th = j.th /\ Stopped(j).mon = j.mon
  BY DEF Stopped, Job

LEMMA FirstRunnerStoppedJobs ==
  ASSUME TypeOK
  PROVE  /\ FirstRunnerStopped \in [Run -> Job]
         /\ \A l \in Run : /\ FirstRunnerStopped[l].alive \subseteq job[l].alive
                           /\ FirstRunnerStopped[l].co = job[l].co
                           /\ FirstRunnerStopped[l].cancel = job[l].cancel
                           /\ FirstRunnerStopped[l].th = job[l].th
<1>1. CASE ref = <<>>
  BY <1>1 DEF FirstRunnerStopped, TypeOK
<1>2. CASE ref # <<>>
  <2>1. Head(ref) \in Run
    BY <1>2, HeadTailProperties DEF TypeOK
  <2>2. FirstRunnerStopped = [job EXCEPT ![Head(ref)] = Stopped(job[Head(ref)])]
    BY <1>2 DEF FirstRunnerStopped
  <2>3. job \in [Run -> Job] /\ \A l \in Run : job[l] \in Job
    BY DEF TypeOK
  <2> QED BY <2>1, <2>2, <2>3, StoppedJob
<1> QED BY <1>1, <1>2

LEMMA EmptyRef == <<>> \in Seq(Run)
  BY EmptySeq

-----------------------------------------------------------------------------
(* Two shapes of step.                                                     *)

(* A step of a worker thread or of a node process: the coroutines stay     *)
(* where they are, and a thread that has returned stays so.                *)
BesideLoop ==
  /\ UNCHANGED <<svc, sidecar, stopper, started, crashes>>
  /\ ref' \in Seq(Run) /\ files' \subseteq Run /\ job' \in [Run -> Job]
  /\ \A l \in Run :
       /\ job'[l].co = job[l].co /\ job'[l].cancel = job[l].cancel
       /\ job'[l].th = "queued" => job[l].th = "queued"
       /\ job'[l].th = "done" /\ job[l].th # "done" => job'[l].alive = {}
       /\ job[l].th \in {"none", "done"} =>
            job'[l].th = job[l].th /\ job'[l].alive \subseteq job[l].alive

LEMMA BesideLoopInv ==
  ASSUME ServiceInv, BesideLoop
  PROVE  ServiceInv' /\ (AnswersAwaited => AnswersAwaited')
<1> USE DEF ServiceInv, BesideLoop
<1>1. TypeOK'
  BY DEF TypeOK
<1>2. RunsNumbered' /\ CancelsAwaited'
  <2>1. RunsNumbered'
    BY DEF RunsNumbered
  <2>2. ASSUME NEW k \in Run, job'[k].cancel
        PROVE  ~Over(k)' /\ \E s \in Stopper : Awaits(s, k)'
    <3>1. ~Over(k) /\ \E s \in Stopper : Awaits(s, k)
      BY <2>2 DEF CancelsAwaited
    <3> QED BY <3>1 DEF Over, Awaits
  <2>3. CancelsAwaited'
    BY <2>2 DEF CancelsAwaited
  <2> QED BY <2>1, <2>3
<1>3. RunningHasTask'
  BY DEF RunningHasTask
<1>4. ResultsComplete'
  <2>1. \A k \in Run : Complete(k) => Complete(k)'
    BY DEF Complete
  <2>2. svc.result \in {None} \cup Run /\ sidecar.result \in {None} \cup Run
    BY DEF TypeOK, Service, Saved
  <2>3. /\ svc.result # None => Complete(svc.result)'
        /\ sidecar.result # None => Complete(sidecar.result)'
    BY <2>1, <2>2 DEF ResultsComplete
  <2>4. /\ \A k \in Run : job'[k].th = "done" => job'[k].alive = {}
        /\ \A k \in Run : job'[k].th = "queued" => job'[k].co = "waiting"
    BY DEF ResultsComplete
  <2> QED BY <2>3, <2>4 DEF ResultsComplete, Complete
<1>5. AnswersAwaited => AnswersAwaited'
  BY DEF AnswersAwaited, StopsAwaitTask, LiveIsRunning, Live, SavedIsAnEnd
<1> QED BY <1>1, <1>2, <1>3, <1>4, <1>5

(* A step of the thread of run k, or of a process of it.                   *)
LEMMA OneThreadBesideLoop ==
  ASSUME TypeOK, NEW k \in Run, NEW j \in Job, job' = [job EXCEPT ![k] = j],
         UNCHANGED <<svc, sidecar, stopper, started, files, crashes>>, ref' \in Seq(Run),
         j.co = job[k].co, j.cancel = job[k].cancel,
         j.th = "queued" => job[k].th = "queued",
         j.th = "done" /\ job[k].th # "done" => j.alive = {},
         job[k].th \in {"none", "done"} => j.th = job[k].th /\ j.alive \subseteq job[k].alive
  PROVE  BesideLoop
<1>1. /\ job' \in [Run -> Job] /\ job'[k] = j
      /\ \A l \in Run \ {k} : job'[l] = job[l]
  BY OneJob
<1>2. files' \subseteq Run
  BY DEF TypeOK
<1>3. ASSUME NEW l \in Run
      PROVE  /\ job'[l].co = job[l].co /\ job'[l].cancel = job[l].cancel
             /\ job'[l].th = "queued" => job[l].th = "queued"
             /\ job'[l].th = "done" /\ job[l].th # "done" => job'[l].alive = {}
             /\ job[l].th \in {"none", "done"} =>
                  job'[l].th = job[l].th /\ job'[l].alive \subseteq job[l].alive
  BY <1>1
<1> QED BY <1>1, <1>2, <1>3 DEF BesideLoop

LEMMA ThreadBeside == ASSUME TypeOK, NEW k \in Run, Thread(k) PROVE BesideLoop
<1>1. job \in [Run -> Job] /\ job[k] \in Job /\ ref \in Seq(Run)
  BY DEF TypeOK
<1>2. CASE ThreadBegins(k)
  <2> DEFINE j == [job[k] EXCEPT !.th = "starting"]
  <2>1. j \in Job /\ j.co = job[k].co /\ j.cancel = job[k].cancel /\ j.th = "starting"
    BY <1>1 DEF Job
  <2>2. job' = [job EXCEPT ![k] = j] /\ job[k].th = "queued"
        /\ UNCHANGED <<svc, sidecar, ref, stopper, started, files, crashes>>
    BY <1>2 DEF ThreadBegins
  <2> QED BY <1>1, <2>1, <2>2, OneThreadBesideLoop
<1>3. CASE Register(k)
  <2> DEFINE j == [job[k] EXCEPT !.th = "spawning", !.active = {}]
  <2>1. j \in Job /\ j.co = job[k].co /\ j.cancel = job[k].cancel /\ j.th = "spawning"
    BY <1>1 DEF Job
  <2>2. job' = [job EXCEPT ![k] = j] /\ job[k].th = "starting"
        /\ UNCHANGED <<svc, sidecar, stopper, started, files, crashes>>
    BY <1>1, <1>3 DEF Register
  <2>3. ref' \in Seq(Run)
    BY <1>1, <1>3, AppendProperties DEF Register
  <2> QED BY <2>1, <2>2, <2>3, OneThreadBesideLoop
<1>4. CASE \E n \in Node : Spawn(k, n)
  <2> PICK n \in Node : Spawn(k, n)
    BY <1>4
  <2> DEFINE j == [job[k] EXCEPT !.spawned = @ \cup {n}, !.fresh = {n}, !.alive = @ \cup {n}]
  <2>1. j \in Job /\ j.co = job[k].co /\ j.cancel = job[k].cancel /\ j.th = job[k].th
    BY <1>1 DEF Job
  <2>2. job' = [job EXCEPT ![k] = j] /\ job[k].th = "spawning"
        /\ UNCHANGED <<svc, sidecar, ref, stopper, started, files, crashes>>
    BY <1>1 DEF Spawn
  <2> QED BY <1>1, <2>1, <2>2, OneThreadBesideLoop
<1>5. CASE Track(k)
  <2> DEFINE j == [job[k] EXCEPT !.active = @ \cup job[k].fresh, !.fresh = {}]
  <2>1. j \in Job /\ j.co = job[k].co /\ j.cancel = job[k].cancel /\ j.th = job[k].th
    BY <1>1 DEF Job
  <2>2. job' = [job EXCEPT ![k] = j] /\ job[k].th = "spawning"
        /\ UNCHANGED <<svc, sidecar, ref, stopper, started, files, crashes>>
    BY <1>1, <1>5 DEF Track
  <2> QED BY <1>1, <2>1, <2>2, OneThreadBesideLoop
<1>6. CASE AllSpawned(k)
  <2> DEFINE j == [job[k] EXCEPT !.th = "joining"]
  <2>1. j \in Job /\ j.co = job[k].co /\ j.cancel = job[k].cancel /\ j.th = "joining"
    BY <1>1 DEF Job
  <2>2. job' = [job EXCEPT ![k] = j] /\ job[k].th = "spawning"
        /\ UNCHANGED <<svc, sidecar, ref, stopper, started, files, crashes>>
    BY <1>6 DEF AllSpawned
  <2> QED BY <1>1, <2>1, <2>2, OneThreadBesideLoop
<1>7. CASE \E n \in Node : JoinTimesOut(k, n)
  <2> PICK n \in Node : JoinTimesOut(k, n)
    BY <1>7
  <2> DEFINE j == [job[k] EXCEPT !.alive = @ \ {n}]
  <2>1. j \in Job /\ j.co = job[k].co /\ j.cancel = job[k].cancel /\ j.th = job[k].th
    BY <1>1 DEF Job
  <2>2. job' = [job EXCEPT ![k] = j] /\ job[k].th = "joining"
        /\ UNCHANGED <<svc, sidecar, ref, stopper, started, files, crashes>>
    BY DEF JoinTimesOut
  <2> QED BY <1>1, <2>1, <2>2, OneThreadBesideLoop
<1>8. CASE RunnerReturns(k)
  <2> DEFINE j == [job[k] EXCEPT !.th = "done", !.active = {}]
  <2>1. /\ j \in Job /\ j.co = job[k].co /\ j.cancel = job[k].cancel /\ j.th = "done"
        /\ j.alive = job[k].alive
    BY <1>1 DEF Job
  <2>2. job' = [job EXCEPT ![k] = j] /\ job[k].th = "joining" /\ job[k].alive = {}
        /\ UNCHANGED <<svc, sidecar, ref, stopper, started, files, crashes>>
    BY <1>1, <1>8 DEF RunnerReturns
  <2> QED BY <1>1, <2>1, <2>2, OneThreadBesideLoop
<1>9. CASE ThreadFails(k)
  <2> DEFINE j == [job[k] EXCEPT !.th = "failed", !.fresh = {}]
  <2>1. j \in Job /\ j.co = job[k].co /\ j.cancel = job[k].cancel /\ j.th = "failed"
    BY <1>1 DEF Job
  <2>2. job' = [job EXCEPT ![k] = j] /\ job[k].th \in {"starting", "spawning", "joining"}
        /\ UNCHANGED <<svc, sidecar, ref, stopper, started, files, crashes>>
    BY <1>1, <1>9 DEF ThreadFails
  <2> QED BY <1>1, <2>1, <2>2, OneThreadBesideLoop
<1> QED BY <1>2, <1>3, <1>4, <1>5, <1>6, <1>7, <1>8, <1>9 DEF Thread

LEMMA NodeExitsBeside ==
  ASSUME TypeOK, NEW k \in Run, NEW n \in Node, NodeExits(k, n) PROVE BesideLoop
<1> DEFINE j == [job[k] EXCEPT !.alive = @ \ {n}]
<1>1. job[k] \in Job /\ ref \in Seq(Run)
  BY DEF TypeOK
<1>2. /\ j \in Job /\ j.co = job[k].co /\ j.cancel = job[k].cancel /\ j.th = job[k].th
      /\ j.alive \subseteq job[k].alive
  BY <1>1 DEF Job
<1>3. job' = [job EXCEPT ![k] = j]
      /\ UNCHANGED <<svc, sidecar, ref, stopper, started, files, crashes>>
  BY DEF NodeExits
<1>4. j.th = "done" /\ job[k].th # "done" => j.alive = {}
  BY <1>2
<1> QED BY <1>1, <1>2, <1>3, <1>4, OneThreadBesideLoop

LEMMA NodeWritesBeside ==
  ASSUME TypeOK, NEW k \in Run, NodeWrites(k) PROVE BesideLoop
  BY DEF TypeOK, NodeWrites, BesideLoop

(* A step of the coroutine of run k: it ends no status "running" that is   *)
(* not its own, and leaves a live pc only with the status or cancelled.    *)
Ahead == {"created", "announcing", "waiting", "setup failed"}

LoopStep(k) ==
  /\ UNCHANGED <<stopper, started, files, crashes>> /\ ref' \in Seq(Run) /\ job' \in [Run -> Job]
  /\ svc' \in Service /\ sidecar' \in Saved /\ svc'.task = svc.task
  /\ \A l \in Run \ {k} : /\ job'[l].co = job[l].co /\ job'[l].cancel = job[l].cancel
                          /\ job'[l].th = job[l].th /\ job'[l].alive \subseteq job[l].alive
  /\ job[k].co # "none" /\ job'[k].co # "none"
  /\ job'[k].cancel => job[k].cancel /\ job'[k].co \notin {"over", "setup failed"}
  /\ job[k].co \in Ahead => job'[k].co \in Ahead \/ job[k].cancel \/ svc'.status # "running"
  /\ job'[k].th = "done" => job[k].th = "done"
  /\ job'[k].th = "queued" => job'[k].co = "waiting"
  /\ job'[k].alive \subseteq job[k].alive
  /\ svc'.status = "running" => svc.status = "running" /\ svc'.result = svc.result
  /\ svc'.result # svc.result => svc'.result = k /\ Complete(k)'
  /\ sidecar'.result \in {sidecar.result, svc'.result}
  /\ Complete(k) => Complete(k)'

LEMMA LoopStepInv ==
  ASSUME ServiceInv, NEW k \in Run, LoopStep(k)
  PROVE  ServiceInv'
<1> USE DEF ServiceInv, LoopStep
<1>1. TypeOK'
  BY DEF TypeOK
<1>2. RunsNumbered'
  <2>1. ASSUME NEW l \in Run PROVE job'[l].co = "none" <=> job[l].co = "none"
    BY <2>1
  <2>2. \A l \in Run : job'[l].co = "none" <=> l > started
    BY <2>1 DEF RunsNumbered
  <2>3. svc'.task <= started
    BY DEF RunsNumbered
  <2>4. svc'.status = "running" => svc'.task = started /\ started > 0 /\ svc'.result = None
    BY DEF RunsNumbered
  <2> QED BY <2>2, <2>3, <2>4 DEF RunsNumbered
<1>3. CancelsAwaited'
  <2>1. ASSUME NEW l \in Run, job'[l].cancel
        PROVE  ~Over(l)' /\ \E s \in Stopper : Awaits(s, l)'
    <3>1. job[l].cancel
      BY <2>1
    <3>2. ~Over(l) /\ \E s \in Stopper : Awaits(s, l)
      BY <3>1 DEF CancelsAwaited
    <3>3. ~Over(l)'
      BY <2>1, <3>2 DEF Over
    <3> QED BY <3>2, <3>3 DEF Awaits
  <2>2. \A s \in Stopper : stopper'[s].pc = "awaiting" => stopper'[s].task \in 1 .. started'
    BY DEF CancelsAwaited
  <2> QED BY <2>1, <2>2 DEF CancelsAwaited
<1>4. RunningHasTask'
  <2> SUFFICES ASSUME svc'.status = "running"
               PROVE  /\ svc.task \in Run
                      /\ \/ job'[svc.task].co \in Ahead
                         \/ \E s \in Stopper : stopper[s].pc = "awaiting"
    BY DEF RunningHasTask, Ahead
  <2>1. /\ svc.task \in Run
        /\ \/ job[svc.task].co \in Ahead
           \/ \E s \in Stopper : stopper[s].pc = "awaiting"
    BY DEF RunningHasTask, Ahead
  <2>2. CASE svc.task = k /\ job[k].cancel
    BY <2>1, <2>2 DEF CancelsAwaited, Awaits
  <2>3. CASE svc.task = k /\ ~job[k].cancel
    BY <2>1, <2>3
  <2>4. CASE svc.task # k
    BY <2>1, <2>4
  <2> QED BY <2>2, <2>3, <2>4
<1>5. ResultsComplete'
  <2>1. \A l \in Run : Complete(l) => Complete(l)'
    BY DEF Complete
  <2>2. /\ svc.result \in {None} \cup Run /\ sidecar.result \in {None} \cup Run
        /\ svc'.result \in {None} \cup Run /\ sidecar'.result \in {None} \cup Run
    BY DEF TypeOK, Service, Saved
  <2>3. ASSUME NEW r \in Run, r = svc'.result PROVE Complete(r)'
    <3>1. CASE r = svc.result
      <4>1. ResultsComplete
        OBVIOUS
      <4> HIDE DEF ServiceInv, LoopStep
      <4>2. Complete(r)
        BY <3>1, <4>1, RunsType DEF ResultsComplete
      <4> QED BY <2>1, <4>2
    <3>2. CASE r # svc.result
      BY <2>3, <3>2
    <3> QED BY <3>1, <3>2
  <2>4. ASSUME NEW r \in Run, r = sidecar'.result PROVE Complete(r)'
    <3>1. CASE r = sidecar.result
      <4>1. ResultsComplete
        OBVIOUS
      <4> HIDE DEF ServiceInv, LoopStep
      <4>2. Complete(r)
        BY <3>1, <4>1, RunsType DEF ResultsComplete
      <4> QED BY <2>1, <4>2
    <3>2. CASE r = svc'.result
      BY <2>3, <3>2
    <3> QED BY <2>4, <3>1, <3>2
  <2>5. ASSUME NEW l \in Run
        PROVE  /\ job'[l].th = "done" => job'[l].alive = {}
               /\ job'[l].th = "queued" => job'[l].co = "waiting"
    <3>1. l # k => job'[l].th = job[l].th /\ job'[l].co = job[l].co
      OBVIOUS
    <3>2. job'[l].alive \subseteq job[l].alive
      OBVIOUS
    <3>3. l = k => /\ job'[l].th = "done" => job[l].th = "done"
                   /\ job'[l].th = "queued" => job'[l].co = "waiting"
      OBVIOUS
    <3>4. ResultsComplete
      OBVIOUS
    <3> HIDE DEF ServiceInv, LoopStep
    <3>5. /\ job[l].th = "done" => job[l].alive = {}
          /\ job[l].th = "queued" => job[l].co = "waiting"
      BY <3>4 DEF ResultsComplete
    <3> QED BY <3>1, <3>2, <3>3, <3>5
  <2> QED BY <2>2, <2>3, <2>4, <2>5 DEF ResultsComplete, Complete
<1> QED BY <1>1, <1>2, <1>3, <1>4, <1>5

LEMMA LoopStepClient ==
  ASSUME ServiceInv, AnswersAwaited, NEW k \in Run, LoopStep(k), SavedIsAnEnd',
         Live(k)' => Live(k) /\ job'[k].cancel = job[k].cancel,
         svc'.status # svc.status => ~Live(k)' /\ (job[k].cancel \/ Live(k))
  PROVE  AnswersAwaited'
<1> USE DEF ServiceInv, LoopStep, AnswersAwaited
<1>1. StopsAwaitTask'
  BY DEF StopsAwaitTask
<1>2. ASSUME NEW l \in Run, Live(l)', ~job'[l].cancel
      PROVE  svc'.status = "running" /\ l = started
  <2>1. Live(l) /\ ~job[l].cancel
    BY <1>2 DEF Live
  <2>2. svc.status = "running" /\ l = started /\ l = svc.task
    BY <2>1 DEF LiveIsRunning, RunsNumbered
  <2>3. svc'.status = svc.status
    <3> SUFFICES ASSUME svc'.status # svc.status PROVE FALSE
      OBVIOUS
    <3>1. k # l
      BY <1>2
    <3>2. CASE job[k].cancel
      <4>1. PICK s \in Stopper : Awaits(s, k)
        BY <3>2 DEF CancelsAwaited
      <4>2. k = svc.task
        BY <4>1 DEF Awaits, StopsAwaitTask
      <4> QED BY <2>2, <3>1, <4>2
    <3>3. CASE ~job[k].cancel /\ Live(k)
      BY <2>2, <3>1, <3>3 DEF LiveIsRunning
    <3> QED BY <3>2, <3>3
  <2> QED BY <2>2, <2>3
<1> QED BY <1>1, <1>2 DEF LiveIsRunning

LEMMA SavedSame ==
  ASSUME AnswersAwaited, UNCHANGED <<sidecar, started>> PROVE SavedIsAnEnd'
  BY DEF AnswersAwaited, SavedIsAnEnd

LEMMA BeginInv ==
  ASSUME ServiceInv, NEW k \in Run, Begin(k)
  PROVE  ServiceInv' /\ (AnswersAwaited => AnswersAwaited')
<1> USE DEF ServiceInv
<1>1. job[k] \in Job /\ ref \in Seq(Run) /\ svc \in Service /\ sidecar \in Saved
  BY DEF TypeOK
<1>2. job[k].co = "created" /\ UNCHANGED <<svc, sidecar, ref, stopper, started, files, crashes>>
  BY DEF Begin
<1>3. PICK j \in Job :
           /\ job' = [job EXCEPT ![k] = j] /\ j.th = job[k].th /\ j.alive = job[k].alive
           /\ \/ job[k].cancel /\ j.co = "over" /\ ~j.cancel
              \/ ~job[k].cancel /\ ~j.cancel /\ j.co \in {"announcing", "setup failed"}
  <2>1. CASE job[k].cancel /\ job' = [job EXCEPT ![k].co = "over", ![k].cancel = FALSE]
    <3> DEFINE j == [job[k] EXCEPT !.co = "over", !.cancel = FALSE]
    <3>1. j \in Job /\ j.th = job[k].th /\ j.alive = job[k].alive /\ j.co = "over" /\ ~j.cancel
      BY <1>1 DEF Job
    <3>2. job' = [job EXCEPT ![k] = j]
      BY <1>1, <2>1
    <3> QED BY <2>1, <3>1, <3>2
  <2>2. CASE ~job[k].cancel /\ job' = [job EXCEPT ![k].co = "announcing"]
    <3> DEFINE j == [job[k] EXCEPT !.co = "announcing"]
    <3>1. /\ j \in Job /\ j.th = job[k].th /\ j.alive = job[k].alive
          /\ j.co = "announcing" /\ j.cancel = job[k].cancel
      BY <1>1 DEF Job
    <3>2. job' = [job EXCEPT ![k] = j]
      BY <2>2
    <3> QED BY <2>2, <3>1, <3>2
  <2>3. CASE ~job[k].cancel /\ job' = [job EXCEPT ![k].co = "setup failed"]
    <3> DEFINE j == [job[k] EXCEPT !.co = "setup failed"]
    <3>1. /\ j \in Job /\ j.th = job[k].th /\ j.alive = job[k].alive
          /\ j.co = "setup failed" /\ j.cancel = job[k].cancel
      BY <1>1 DEF Job
    <3>2. job' = [job EXCEPT ![k] = j]
      BY <2>3
    <3> QED BY <2>3, <3>1, <3>2
  <2> QED BY <2>1, <2>2, <2>3 DEF Begin
<1>4. job[k].th # "queued"
  BY <1>2 DEF ResultsComplete
<1>5. /\ job' \in [Run -> Job] /\ job'[k] = j /\ \A l \in Run \ {k} : job'[l] = job[l]
  BY <1>3, OneJob
<1>6. LoopStep(k)
  BY <1>1, <1>2, <1>3, <1>4, <1>5 DEF LoopStep, Ahead, Complete
<1>7. ServiceInv'
  BY <1>6, LoopStepInv
<1>8. AnswersAwaited => AnswersAwaited'
  <2>1. Live(k)' => Live(k) /\ job'[k].cancel = job[k].cancel
    BY <1>1, <1>2, <1>3, <1>5 DEF Live, Job
  <2>2. AnswersAwaited => SavedIsAnEnd'
    BY <1>2, SavedSame
  <2> QED BY <1>2, <1>6, <2>1, <2>2, LoopStepClient
<1> QED BY <1>7, <1>8

LEMMA LaunchInv ==
  ASSUME ServiceInv, NEW k \in Run, Launch(k)
  PROVE  ServiceInv' /\ (AnswersAwaited => AnswersAwaited')
<1> USE DEF ServiceInv
<1>1. job[k] \in Job /\ ref \in Seq(Run) /\ svc \in Service /\ sidecar \in Saved
  BY DEF TypeOK
<1>2. job[k].co = "announcing" /\ UNCHANGED <<svc, sidecar, ref, stopper, started, files, crashes>>
  BY DEF Launch
<1>3. PICK j \in Job :
           /\ job' = [job EXCEPT ![k] = j] /\ j.alive = job[k].alive
           /\ \/ job[k].cancel /\ j.co = "over" /\ ~j.cancel /\ j.th = job[k].th
              \/ ~job[k].cancel /\ ~j.cancel /\ j.co = "waiting" /\ j.th = "queued"
  <2>1. CASE job[k].cancel
    <3> DEFINE j == [job[k] EXCEPT !.co = "over", !.cancel = FALSE]
    <3>1. j \in Job /\ j.th = job[k].th /\ j.alive = job[k].alive /\ j.co = "over" /\ ~j.cancel
      BY <1>1 DEF Job
    <3>2. job' = [job EXCEPT ![k] = j]
      BY <1>1, <2>1 DEF Launch
    <3> QED BY <2>1, <3>1, <3>2
  <2>2. CASE ~job[k].cancel
    <3> DEFINE j == [job[k] EXCEPT !.co = "waiting", !.th = "queued", !.mon = "on"]
    <3>1. /\ j \in Job /\ j.th = "queued" /\ j.alive = job[k].alive
          /\ j.co = "waiting" /\ j.cancel = job[k].cancel
      BY <1>1 DEF Job
    <3>2. job' = [job EXCEPT ![k] = j]
      BY <1>1, <2>2 DEF Launch
    <3> QED BY <2>2, <3>1, <3>2
  <2> QED BY <2>1, <2>2
<1>4. job[k].th # "queued"
  BY <1>2 DEF ResultsComplete
<1>5. /\ job' \in [Run -> Job] /\ job'[k] = j /\ \A l \in Run \ {k} : job'[l] = job[l]
  BY <1>3, OneJob
<1>6. LoopStep(k)
  BY <1>1, <1>2, <1>3, <1>4, <1>5 DEF LoopStep, Ahead, Complete
<1>7. ServiceInv'
  BY <1>6, LoopStepInv
<1>8. AnswersAwaited => AnswersAwaited'
  <2>1. Live(k)' => Live(k) /\ job'[k].cancel = job[k].cancel
    BY <1>1, <1>2, <1>3, <1>5 DEF Live, Job
  <2>2. AnswersAwaited => SavedIsAnEnd'
    BY <1>2, SavedSame
  <2> QED BY <1>2, <1>6, <2>1, <2>2, LoopStepClient
<1> QED BY <1>7, <1>8

(* The result is published when the thread has returned, and saved as it   *)
(* is published.                                                           *)
LEMMA FinishInv ==
  ASSUME ServiceInv, NEW k \in Run, Finish(k)
  PROVE  ServiceInv' /\ (AnswersAwaited => AnswersAwaited')
<1> USE DEF ServiceInv
<1> DEFINE j == [job[k] EXCEPT !.co = "finishing"]
           v == [svc EXCEPT !.status = "finished", !.result = k, !.progress = k]
<1>1. job[k] \in Job /\ ref \in Seq(Run) /\ svc \in Service /\ sidecar \in Saved
  BY DEF TypeOK
<1>2. /\ job[k].co = "waiting" /\ job[k].th = "done" /\ ~job[k].cancel
      /\ svc' = v /\ job' = [job EXCEPT ![k] = j]
      /\ sidecar' = [status |-> v.status, result |-> v.result, progress |-> v.progress]
      /\ UNCHANGED <<ref, stopper, started, files, crashes>>
  BY DEF Finish, SaveSidecar
<1>3. /\ j \in Job /\ j.co = "finishing" /\ j.th = job[k].th /\ j.alive = job[k].alive
      /\ j.cancel = job[k].cancel
  BY <1>1 DEF Job
<1>4. v \in Service /\ v.status = "finished" /\ v.result = k /\ v.task = svc.task /\ v.progress = k
  BY <1>1 DEF Service, Status
<1> HIDE DEF j, v
<1>5. sidecar' \in Saved /\ sidecar'.status = "finished" /\ sidecar'.result = k
  BY <1>2, <1>4 DEF Saved, Status
<1>6. /\ job' \in [Run -> Job] /\ job'[k] = j /\ \A l \in Run \ {k} : job'[l] = job[l]
  BY <1>2, <1>3, OneJob
<1>7. job[k].alive = {}
  BY <1>2 DEF ResultsComplete
<1>8. Complete(k)'
  BY <1>2, <1>3, <1>6, <1>7 DEF Complete
<1>9. LoopStep(k)
  BY <1>1, <1>2, <1>3, <1>4, <1>5, <1>6, <1>8 DEF LoopStep
<1>10. ServiceInv'
  BY <1>9, LoopStepInv
<1>11. SavedIsAnEnd'
  <2>1. k <= started
    BY <1>2, RunsType DEF RunsNumbered, TypeOK
  <2> QED BY <1>2, <1>5, <2>1, RunsType DEF SavedIsAnEnd
<1>12. AnswersAwaited => AnswersAwaited'
  BY <1>2, <1>3, <1>6, <1>9, <1>11, LoopStepClient DEF Live
<1> QED BY <1>10, <1>12

LEMMA FailInv ==
  ASSUME ServiceInv, NEW k \in Run, Fail(k)
  PROVE  ServiceInv' /\ (AnswersAwaited => AnswersAwaited')
<1> USE DEF ServiceInv
<1> DEFINE j == [job[k] EXCEPT !.co = "failing"]
           v == [svc EXCEPT !.status = "error"]
<1>1. job[k] \in Job /\ ref \in Seq(Run) /\ svc \in Service /\ sidecar \in Saved
  BY DEF TypeOK
<1>2. /\ job[k].co = "waiting" /\ job[k].th = "failed" /\ ~job[k].cancel
      /\ svc' = v /\ job' = [job EXCEPT ![k] = j]
      /\ sidecar' = [status |-> v.status, result |-> v.result, progress |-> v.progress]
      /\ UNCHANGED <<ref, stopper, started, files, crashes>>
  BY DEF Fail, SaveSidecar
<1>3. /\ j \in Job /\ j.co = "failing" /\ j.th = job[k].th /\ j.alive = job[k].alive
      /\ j.cancel = job[k].cancel
  BY <1>1 DEF Job
<1>4. /\ v \in Service /\ v.status = "error" /\ v.result = svc.result /\ v.task = svc.task
      /\ v.progress = svc.progress
  BY <1>1 DEF Service, Status
<1> HIDE DEF j, v
<1>5. sidecar' \in Saved /\ sidecar'.status = "error" /\ sidecar'.result = svc.result
  BY <1>2, <1>4 DEF Saved, Service, Status
<1>6. /\ job' \in [Run -> Job] /\ job'[k] = j /\ \A l \in Run \ {k} : job'[l] = job[l]
  BY <1>2, <1>3, OneJob
<1>7. LoopStep(k)
  BY <1>1, <1>2, <1>3, <1>4, <1>5, <1>6 DEF LoopStep, Complete
<1>8. ServiceInv'
  BY <1>7, LoopStepInv
<1>9. AnswersAwaited => SavedIsAnEnd'
  <2> SUFFICES ASSUME AnswersAwaited PROVE SavedIsAnEnd'
    OBVIOUS
  <2>1. svc.status = "running"
    BY <1>2 DEF AnswersAwaited, LiveIsRunning, Live
  <2>2. svc.result = None
    BY <2>1 DEF RunsNumbered
  <2> QED BY <1>5, <2>2 DEF SavedIsAnEnd
<1>10. AnswersAwaited => AnswersAwaited'
  BY <1>2, <1>3, <1>6, <1>7, <1>9, LoopStepClient DEF Live
<1> QED BY <1>8, <1>10

(* A cancellation that hits the wait or the broadcast of the result.       *)
LEMMA CancelledInv ==
  ASSUME ServiceInv, NEW k \in Run, Cancelled(k)
  PROVE  ServiceInv' /\ (AnswersAwaited => AnswersAwaited')
<1> USE DEF ServiceInv
<1> DEFINE f == FirstRunnerStopped
           j == [f[k] EXCEPT !.co = "cancelling", !.cancel = FALSE,
                             !.th = IF @ = "queued" THEN "none" ELSE @]
           v == [svc EXCEPT !.status = "idle"]
<1>1. job[k] \in Job /\ ref \in Seq(Run) /\ svc \in Service /\ sidecar \in Saved
  BY DEF TypeOK
<1>2. /\ f \in [Run -> Job] /\ f[k] \in Job
      /\ \A l \in Run : /\ f[l].alive \subseteq job[l].alive
                        /\ f[l].co = job[l].co
                        /\ f[l].cancel = job[l].cancel
                        /\ f[l].th = job[l].th
  BY FirstRunnerStoppedJobs
<1> HIDE DEF f
<1>3. /\ job[k].co \in {"waiting", "finishing"} /\ job[k].cancel
      /\ svc' = v /\ job' = [f EXCEPT ![k] = j]
      /\ UNCHANGED <<sidecar, ref, stopper, started, files, crashes>>
  BY <1>2 DEF Cancelled, f
<1>4. /\ j \in Job /\ j.co = "cancelling" /\ j.alive \subseteq job[k].alive
      /\ ~j.cancel /\ j.th # "queued"
      /\ job[k].th # "queued" => j.th = job[k].th
      /\ job[k].th = "queued" => j.th = "none"
  BY <1>2 DEF Job
<1>5. v \in Service /\ v.status = "idle" /\ v.result = svc.result /\ v.task = svc.task
  BY <1>1 DEF Service, Status
<1> HIDE DEF j, v
<1>6. /\ job' \in [Run -> Job] /\ job'[k] = j /\ \A l \in Run \ {k} : job'[l] = f[l]
  BY <1>2, <1>3, <1>4
<1>7. LoopStep(k)
  BY <1>1, <1>2, <1>3, <1>4, <1>5, <1>6 DEF LoopStep, Complete
<1>8. ServiceInv'
  BY <1>7, LoopStepInv
<1>9. AnswersAwaited => AnswersAwaited'
  <2>1. ~Live(k)'
    BY <1>4, <1>6 DEF Live
  <2>2. AnswersAwaited => SavedIsAnEnd'
    BY <1>3, SavedSame
  <2> QED BY <1>3, <1>7, <2>1, <2>2, LoopStepClient
<1> QED BY <1>8, <1>9

(* The steps of the end of a coroutine, which touch only its own job.      *)
LEMMA ClosingInv ==
  ASSUME ServiceInv, NEW k \in Run, CloseRun(k) \/ EndRun(k)
  PROVE  ServiceInv' /\ (AnswersAwaited => AnswersAwaited')
<1> USE DEF ServiceInv
<1>1. job[k] \in Job /\ ref \in Seq(Run) /\ svc \in Service /\ sidecar \in Saved
  BY DEF TypeOK
<1>2. /\ job[k].co \in {"failing", "cancelling", "finishing", "closing"}
      /\ UNCHANGED <<svc, sidecar, stopper, started, files, crashes>>
      /\ ref' \in Seq(Run)
  BY <1>1, EmptyRef DEF CloseRun, EndRun
<1>3. PICK j \in Job :
           /\ job' = [job EXCEPT ![k] = j] /\ j.th = job[k].th /\ j.alive = job[k].alive
           /\ ~j.cancel /\ j.co \in {"closing", "over"}
  <2>1. CASE CloseRun(k)
    <3> DEFINE j == Closing(job[k])
    <3>1. /\ j \in Job /\ j.th = job[k].th /\ j.alive = job[k].alive
          /\ ~j.cancel /\ j.co = "closing"
      BY <1>1 DEF Job, Closing
    <3>2. job' = [job EXCEPT ![k] = j]
      BY <2>1 DEF CloseRun
    <3> QED BY <3>1, <3>2
  <2>2. CASE EndRun(k)
    <3> DEFINE j == [job[k] EXCEPT !.co = "over", !.cancel = FALSE]
    <3>1. /\ j \in Job /\ j.th = job[k].th /\ j.alive = job[k].alive
          /\ ~j.cancel /\ j.co = "over"
      BY <1>1 DEF Job
    <3>2. job' = [job EXCEPT ![k] = j]
      BY <1>1, <2>2 DEF EndRun
    <3> QED BY <3>1, <3>2
  <2> QED BY <2>1, <2>2
<1>4. job[k].th # "queued"
  BY <1>2 DEF ResultsComplete
<1>5. /\ job' \in [Run -> Job] /\ job'[k] = j /\ \A l \in Run \ {k} : job'[l] = job[l]
  BY <1>3, OneJob
<1>6. LoopStep(k)
  BY <1>1, <1>2, <1>3, <1>4, <1>5 DEF LoopStep, Ahead, Complete
<1>7. ServiceInv'
  BY <1>6, LoopStepInv
<1>8. AnswersAwaited => AnswersAwaited'
  <2>1. ~Live(k)'
    BY <1>3, <1>5 DEF Live
  <2>2. AnswersAwaited => SavedIsAnEnd'
    BY <1>2, SavedSame
  <2> QED BY <1>2, <1>6, <2>1, <2>2, LoopStepClient
<1> QED BY <1>7, <1>8

LEMMA MonitorTickInv ==
  ASSUME ServiceInv, NEW k \in Run, MonitorTick(k)
  PROVE  ServiceInv' /\ (AnswersAwaited => AnswersAwaited')
<1> USE DEF ServiceInv
<1>1. PICK r \in files : svc' = [svc EXCEPT !.progress = r]
  BY DEF MonitorTick
<1>2. UNCHANGED <<sidecar, ref, job, stopper, started, files, crashes>>
  BY DEF MonitorTick
<1>3. svc \in Service /\ r \in Run
  BY DEF TypeOK
<1>4. svc' \in Service /\ svc'.status = svc.status /\ svc'.task = svc.task /\ svc'.result = svc.result
  BY <1>1, <1>3 DEF Service
<1>5. TypeOK'
  BY <1>2, <1>4 DEF TypeOK
<1>6. RunsNumbered'
  BY <1>2, <1>4 DEF RunsNumbered
<1>7. CancelsAwaited'
  BY <1>2, <1>4 DEF CancelsAwaited, Over, Awaits
<1>8. RunningHasTask'
  BY <1>2, <1>4 DEF RunningHasTask
<1>9. ResultsComplete'
  BY <1>2, <1>4 DEF ResultsComplete, Complete
<1>10. AnswersAwaited => AnswersAwaited'
  BY <1>2, <1>4 DEF AnswersAwaited, StopsAwaitTask, LiveIsRunning, Live, SavedIsAnEnd
<1> QED BY <1>5, <1>6, <1>7, <1>8, <1>9, <1>10

LEMMA MonitorEndsBeside ==
  ASSUME TypeOK, NEW k \in Run, MonitorEnds(k) PROVE BesideLoop
<1> DEFINE j == [job[k] EXCEPT !.mon = "over"]
<1>1. job[k] \in Job /\ ref \in Seq(Run)
  BY DEF TypeOK
<1>2. /\ j \in Job /\ j.co = job[k].co /\ j.cancel = job[k].cancel /\ j.th = job[k].th
      /\ j.alive = job[k].alive
  BY <1>1 DEF Job
<1>3. job' = [job EXCEPT ![k] = j]
      /\ UNCHANGED <<svc, sidecar, ref, stopper, started, files, crashes>>
  BY DEF MonitorEnds
<1>4. j.th = "done" /\ job[k].th # "done" => j.alive = {}
  BY <1>2
<1> QED BY <1>1, <1>2, <1>3, <1>4, OneThreadBesideLoop

-----------------------------------------------------------------------------
(* The requests, and a restart.                                            *)

LEMMA StartInv ==
  ASSUME ServiceInv, Start
  PROVE  ServiceInv' /\ (OneClient /\ AnswersAwaited => AnswersAwaited')
<1> USE DEF ServiceInv
<1> DEFINE k == started + 1
           j == [job[k] EXCEPT !.co = "created"]
<1>1. /\ svc.status # "running" /\ started < MaxRuns /\ (OneClient => NoRequestPending)
      /\ started' = k /\ ref' = <<>>
      /\ svc' = [status |-> "running", task |-> k, result |-> None, progress |-> None]
      /\ job' = [job EXCEPT ![k] = j]
      /\ UNCHANGED <<sidecar, stopper, files, crashes>>
  BY DEF Start
<1>2. started \in Nat /\ k \in Run /\ k \in Nat /\ k \in 0 .. MaxRuns /\ k > started /\ k # None
  BY <1>1, RunsType DEF TypeOK, Run
<1>3. job[k] \in Job
  BY <1>2 DEF TypeOK
<1>4. /\ j \in Job /\ j.co = "created" /\ j.th = job[k].th /\ j.alive = job[k].alive
      /\ j.cancel = job[k].cancel
  BY <1>3 DEF Job
<1>5. job[k].co = "none"
  BY <1>2 DEF RunsNumbered
<1> HIDE DEF k, j
<1>6. /\ job' \in [Run -> Job] /\ job'[k] = j /\ \A l \in Run \ {k} : job'[l] = job[l]
  BY <1>1, <1>2, <1>4, OneJob
<1>7. TypeOK'
  BY <1>1, <1>2, <1>6, EmptyRef DEF TypeOK, Service, Status
<1>8. RunsNumbered'
  <2>1. ASSUME NEW l \in Run PROVE job'[l].co = "none" <=> l > k
    <3>1. CASE l = k
      BY <1>2, <1>4, <1>6, <3>1
    <3>2. CASE l # k
      <4>1. job[l].co = "none" <=> l > started
        BY DEF RunsNumbered
      <4>2. l > started <=> l > k
        BY <1>2, <3>2, RunsType DEF k
      <4> QED BY <1>6, <3>2, <4>1, <4>2
    <3> QED BY <3>1, <3>2
  <2> QED BY <1>1, <1>2, <2>1 DEF RunsNumbered
<1>9. ~job[k].cancel
  <2> SUFFICES ASSUME job[k].cancel PROVE FALSE
    OBVIOUS
  <2>1. PICK s \in Stopper : Awaits(s, k)
    BY <1>2 DEF CancelsAwaited
  <2>2. k \in 1 .. started
    BY <2>1 DEF Awaits, CancelsAwaited
  <2> QED BY <1>2, <2>2
<1>10. CancelsAwaited'
  <2>1. ASSUME NEW l \in Run, job'[l].cancel
        PROVE  ~Over(l)' /\ \E s \in Stopper : Awaits(s, l)'
    <3>1. l # k
      BY <1>4, <1>6, <1>9, <2>1
    <3>2. ~Over(l) /\ \E s \in Stopper : Awaits(s, l)
      BY <1>6, <2>1, <3>1 DEF CancelsAwaited
    <3> QED BY <1>1, <1>6, <3>1, <3>2 DEF Over, Awaits
  <2>2. 1 .. started \subseteq 1 .. k
    BY <1>2
  <2> QED BY <1>1, <2>1, <2>2 DEF CancelsAwaited
<1>11. RunningHasTask'
  BY <1>1, <1>2, <1>4, <1>6 DEF RunningHasTask
<1>12. ResultsComplete'
  <2>1. ~Complete(k)
    BY <1>5 DEF Complete
  <2>2. sidecar.result # None => sidecar.result \in Run /\ sidecar.result # k /\ Complete(sidecar.result)
    BY <2>1 DEF TypeOK, Saved, ResultsComplete
  <2>3. sidecar'.result # None => Complete(sidecar.result)'
    BY <1>1, <1>6, <2>2 DEF Complete
  <2>4. job[k].th # "queued"
    BY <1>2, <1>5 DEF ResultsComplete
  <2> QED BY <1>1, <1>4, <1>6, <2>3, <2>4 DEF ResultsComplete, Complete
<1>13. OneClient /\ AnswersAwaited => AnswersAwaited'
  <2> SUFFICES ASSUME OneClient, AnswersAwaited PROVE AnswersAwaited'
    OBVIOUS
  <2>1. StopsAwaitTask'
    BY <1>1 DEF NoRequestPending, StopsAwaitTask
  <2>2. \A l \in Run : ~job[l].cancel
    BY <1>1 DEF NoRequestPending, CancelsAwaited, Awaits
  <2>3. \A l \in Run \ {k} : ~Live(l)'
    BY <1>1, <1>6, <2>2 DEF AnswersAwaited, LiveIsRunning, Live
  <2>4. LiveIsRunning'
    BY <1>1, <2>3 DEF LiveIsRunning
  <2>5. SavedIsAnEnd'
    <3>1. 1 .. started \subseteq 1 .. k
      BY <1>2
    <3> QED BY <1>1, <3>1 DEF AnswersAwaited, SavedIsAnEnd
  <2> QED BY <2>1, <2>4, <2>5 DEF AnswersAwaited
<1> QED BY <1>7, <1>8, <1>10, <1>11, <1>12, <1>13

(* stop() that finds nothing to wait for, or has waited.                   *)
StopEnds(s) ==
  /\ stopper' = [stopper EXCEPT ![s].pc = "returned"]
  /\ svc' = [svc EXCEPT !.status = "idle"]
  /\ ref' = <<>>
  /\ job' \in [Run -> Job]
  /\ \A l \in Run : /\ job'[l].co = job[l].co /\ job'[l].cancel = job[l].cancel
                    /\ job'[l].th = job[l].th /\ job'[l].alive \subseteq job[l].alive
  /\ UNCHANGED <<sidecar, started, files, crashes>>

LEMMA StopEndsInv ==
  ASSUME ServiceInv, NEW s \in Stopper, StopEnds(s),
         stopper[s].pc = "awaiting" => Over(stopper[s].task),
         \/ svc.task = None \/ (svc.task \in Run /\ Over(svc.task))
         \/ stopper[s].pc = "awaiting"
  PROVE  ServiceInv' /\ (AnswersAwaited => AnswersAwaited')
<1> USE DEF ServiceInv, StopEnds
<1>1. svc \in Service /\ stopper \in [Stopper -> StopCall]
  BY DEF TypeOK
<1>2. /\ svc' \in Service /\ svc'.status = "idle" /\ svc'.result = svc.result
      /\ svc'.task = svc.task
  BY <1>1 DEF Service, Status
<1>3. /\ stopper' \in [Stopper -> StopCall] /\ stopper'[s].pc = "returned"
      /\ \A r \in Stopper \ {s} : stopper'[r] = stopper[r]
  BY <1>1 DEF StopCall
<1>4. TypeOK'
  BY <1>2, <1>3, EmptyRef DEF TypeOK
<1>5. RunsNumbered' /\ RunningHasTask'
  BY <1>2 DEF RunsNumbered, RunningHasTask
<1>6. CancelsAwaited'
  <2>1. ASSUME NEW l \in Run, job'[l].cancel
        PROVE  ~Over(l)' /\ \E r \in Stopper : Awaits(r, l)'
    <3>1. PICK r \in Stopper : Awaits(r, l) /\ ~Over(l)
      BY <2>1 DEF CancelsAwaited
    <3>2. r # s
      BY <3>1 DEF Awaits
    <3> QED BY <1>3, <3>1, <3>2 DEF Over, Awaits
  <2>2. \A r \in Stopper : stopper'[r].pc = "awaiting" => stopper'[r].task \in 1 .. started
    BY <1>3 DEF CancelsAwaited
  <2> QED BY <2>1, <2>2 DEF CancelsAwaited
<1>7. ResultsComplete'
  <2>1. \A l \in Run : Complete(l) => Complete(l)'
    BY DEF Complete
  <2>2. svc.result \in {None} \cup Run /\ sidecar.result \in {None} \cup Run
    BY DEF TypeOK, Service, Saved
  <2>3. /\ svc.result # None => Complete(svc.result)'
        /\ sidecar.result # None => Complete(sidecar.result)'
    BY <2>1, <2>2 DEF ResultsComplete
  <2>4. \A l \in Run : job'[l].th = "done" => job'[l].alive = {}
    BY DEF ResultsComplete
  <2> QED BY <1>2, <2>3, <2>4 DEF ResultsComplete, Complete
<1>8. AnswersAwaited => AnswersAwaited'
  <2> SUFFICES ASSUME AnswersAwaited PROVE AnswersAwaited'
    OBVIOUS
  <2>1. StopsAwaitTask'
    BY <1>2, <1>3 DEF AnswersAwaited, StopsAwaitTask
  <2>2. ASSUME NEW l \in Run, Live(l)', ~job'[l].cancel PROVE FALSE
    <3>1. Live(l) /\ ~job[l].cancel
      BY <2>2 DEF Live
    <3>2. l = svc.task
      BY <3>1 DEF AnswersAwaited, LiveIsRunning, RunsNumbered
    <3>3. Over(l)
      BY <3>2, RunsType DEF AnswersAwaited, StopsAwaitTask
    <3> QED BY <3>1, <3>3 DEF Live, Over
  <2>3. SavedIsAnEnd'
    BY SavedSame
  <2> QED BY <2>1, <2>2, <2>3 DEF AnswersAwaited, LiveIsRunning
<1> QED BY <1>4, <1>5, <1>6, <1>7, <1>8

LEMMA StopReturnsInv ==
  ASSUME ServiceInv, NEW s \in Stopper, StopReturns(s)
  PROVE  ServiceInv' /\ (AnswersAwaited => AnswersAwaited')
<1>1. job \in [Run -> Job]
  BY DEF ServiceInv, TypeOK
<1>2. StopEnds(s) /\ stopper[s].pc = "awaiting" /\ Over(stopper[s].task)
  BY <1>1 DEF StopReturns, StopEnds
<1> QED BY <1>2, StopEndsInv

LEMMA StopInv ==
  ASSUME ServiceInv, NEW s \in Stopper, Stop(s)
  PROVE  ServiceInv' /\ (OneClient /\ AnswersAwaited => AnswersAwaited')
<1> USE DEF ServiceInv
<1>1. /\ svc \in Service /\ stopper \in [Stopper -> StopCall]
      /\ svc.task \in {None} \cup Run
  BY DEF TypeOK, Service
<1>2. PICK f \in [Run -> Job] :
        /\ f = FirstRunnerStopped
        /\ \A l \in Run : /\ f[l].alive \subseteq job[l].alive
                          /\ f[l].co = job[l].co
                          /\ f[l].cancel = job[l].cancel
                          /\ f[l].th = job[l].th
  BY FirstRunnerStoppedJobs
<1>3. stopper[s].pc = "idle" /\ (OneClient => NoRequestPending)
  BY DEF Stop
<1>4. CASE svc.task = None \/ (svc.task \in Run /\ Over(svc.task))
  <2>1. StopEnds(s)
    BY <1>2, <1>4 DEF Stop, StopEnds
  <2> QED BY <1>3, <1>4, <2>1, StopEndsInv
<1>5. CASE ~(svc.task = None \/ (svc.task \in Run /\ Over(svc.task)))
  <2>1. PICK k \in Run : k = svc.task /\ ~Over(k)
    BY <1>1, <1>5
  <2> DEFINE j == [f[k] EXCEPT !.cancel = TRUE]
  <2>2. UNCHANGED <<svc, ref, sidecar, started, files, crashes>>
    BY <1>5 DEF Stop
  <2>3. /\ j \in Job /\ j.cancel /\ j.co = f[k].co /\ j.th = f[k].th /\ j.alive = f[k].alive
    <3>1. f[k] \in Job
      OBVIOUS
    <3> QED BY <3>1 DEF Job
  <2> HIDE DEF j
  <2>4. /\ job' \in [Run -> Job]
        /\ \A l \in Run : /\ job'[l].co = job[l].co /\ job'[l].th = job[l].th
                          /\ job'[l].alive \subseteq job[l].alive
                          /\ l # k => job'[l].cancel = job[l].cancel
        /\ job'[k].cancel
    <3>1. job' = [f EXCEPT ![k] = j]
      BY <1>2, <1>5, <2>1 DEF Stop, j
    <3>2. job' \in [Run -> Job] /\ job'[k] = j /\ \A l \in Run \ {k} : job'[l] = f[l]
      BY <2>3, <3>1
    <3> QED BY <1>2, <2>3, <3>2
  <2>5. /\ stopper' \in [Stopper -> StopCall] /\ Awaits(s, k)'
        /\ stopper'[s] = [pc |-> "awaiting", task |-> k]
        /\ \A r \in Stopper \ {s} : stopper'[r] = stopper[r]
    <3>1. stopper' = [stopper EXCEPT ![s] = [pc |-> "awaiting", task |-> k]]
      BY <1>5, <2>1 DEF Stop
    <3> QED BY <1>1, <3>1 DEF StopCall, Awaits
  <2>6. TypeOK'
    BY <2>2, <2>4, <2>5 DEF TypeOK
  <2>7. RunsNumbered'
    BY <2>2, <2>4 DEF RunsNumbered
  <2>8. k \in 1 .. started
    BY <1>1, <2>1, RunsType DEF RunsNumbered, TypeOK
  <2>9. CancelsAwaited'
    <3>1. ASSUME NEW l \in Run, job'[l].cancel
          PROVE  ~Over(l)' /\ \E r \in Stopper : Awaits(r, l)'
      <4>1. CASE l = k
        BY <2>1, <2>4, <2>5, <4>1 DEF Over
      <4>2. CASE l # k
        <5>1. PICK r \in Stopper : Awaits(r, l) /\ ~Over(l)
          BY <2>4, <3>1, <4>2 DEF CancelsAwaited
        <5>2. r # s
          BY <1>3, <5>1 DEF Awaits
        <5> QED BY <2>4, <2>5, <5>1, <5>2 DEF Over, Awaits
      <4> QED BY <4>1, <4>2
    <3>2. \A r \in Stopper : stopper'[r].pc = "awaiting" => stopper'[r].task \in 1 .. started
      BY <2>5, <2>8 DEF CancelsAwaited
    <3> QED BY <2>2, <3>1, <3>2 DEF CancelsAwaited
  <2>10. RunningHasTask'
    <3>1. \E r \in Stopper : stopper'[r].pc = "awaiting"
      BY <2>5
    <3> QED BY <2>1, <2>2, <3>1 DEF RunningHasTask
  <2>11. ResultsComplete'
    <3>1. \A l \in Run : Complete(l) => Complete(l)'
      BY <2>4 DEF Complete
    <3>2. svc.result \in {None} \cup Run /\ sidecar.result \in {None} \cup Run
      BY DEF TypeOK, Service, Saved
    <3>3. /\ svc.result # None => Complete(svc.result)'
          /\ sidecar.result # None => Complete(sidecar.result)'
      BY <2>2, <3>1, <3>2 DEF ResultsComplete
    <3>4. \A l \in Run : job'[l].th = "done" => job'[l].alive = {}
      BY <2>4 DEF ResultsComplete
    <3> QED BY <2>2, <2>4, <3>3, <3>4 DEF ResultsComplete, Complete
  <2>12. OneClient /\ AnswersAwaited => AnswersAwaited'
    <3> SUFFICES ASSUME OneClient, AnswersAwaited PROVE AnswersAwaited'
      OBVIOUS
    <3>1. StopsAwaitTask'
      BY <2>1, <2>2, <2>5 DEF AnswersAwaited, StopsAwaitTask
    <3>2. LiveIsRunning'
      BY <2>2, <2>4 DEF AnswersAwaited, LiveIsRunning, Live
    <3>3. SavedIsAnEnd'
      BY <2>2, SavedSame
    <3> QED BY <3>1, <3>2, <3>3 DEF AnswersAwaited
  <2> QED BY <2>6, <2>7, <2>9, <2>10, <2>11, <2>12
<1> QED BY <1>4, <1>5

LEMMA RestartInv ==
  ASSUME ServiceInv, Restart
  PROVE  ServiceInv' /\ (AnswersAwaited => AnswersAwaited')
<1> USE DEF ServiceInv
<1>1. /\ crashes < MaxCrashes /\ crashes' = crashes + 1
      /\ sidecar' = sidecar \/ sidecar' = NoSidecar
      /\ svc' = Loaded(sidecar') /\ ref' = <<>>
      /\ UNCHANGED <<started, files>>
  BY DEF Restart
<1>2. sidecar' \in Saved
  BY <1>1 DEF TypeOK, NoSidecar, Saved, Status
<1>3. /\ svc' \in Service /\ svc'.status = sidecar'.status /\ svc'.status # "running"
      /\ svc'.task = None /\ svc'.result = sidecar'.result
  BY <1>1, <1>2 DEF Loaded, Service, Saved, Status
<1>4. ASSUME NEW l \in Run
      PROVE  /\ job'[l] \in Job /\ ~job'[l].cancel /\ job'[l].th = "none"
             /\ job'[l].alive = job[l].alive
             /\ job'[l].co = IF job[l].co = "none" THEN "none" ELSE "over"
  <2>1. job'[l] = [NoJob EXCEPT !.alive = job[l].alive,
                                !.co = IF job[l].co = "none" THEN "none" ELSE "over"]
    BY DEF Restart
  <2> QED BY <2>1, JobFields DEF NoJob, Job
<1>5. job' \in [Run -> Job]
  <2>1. job' = [l \in Run |-> job'[l]]
    BY DEF Restart
  <2> QED BY <1>4, <2>1
<1>6. ASSUME NEW s \in Stopper
      PROVE  stopper'[s] \in StopCall /\ stopper'[s].pc # "awaiting"
  <2>1. stopper[s] \in StopCall
    BY DEF TypeOK
  <2>2. stopper'[s] = IF stopper[s].pc = "awaiting"
                      THEN [stopper[s] EXCEPT !.pc = "returned"]
                      ELSE stopper[s]
    BY DEF Restart
  <2> QED BY <2>1, <2>2 DEF StopCall
<1>7. stopper' \in [Stopper -> StopCall]
  <2>1. stopper' = [s \in Stopper |-> stopper'[s]]
    BY DEF Restart
  <2> QED BY <1>6, <2>1
<1>8. TypeOK'
  <2>1. crashes' \in 0 .. MaxCrashes
    BY <1>1, ServiceAssumption DEF TypeOK
  <2> QED BY <1>1, <1>2, <1>3, <1>5, <1>7, <2>1, EmptyRef DEF TypeOK
<1>9. RunsNumbered'
  <2>1. None <= started
    BY RunsType DEF TypeOK
  <2> QED BY <1>1, <1>3, <1>4, <2>1 DEF RunsNumbered
<1>10. CancelsAwaited' /\ RunningHasTask'
  BY <1>3, <1>4, <1>6 DEF CancelsAwaited, RunningHasTask
<1>11. ResultsComplete'
  <2>1. sidecar'.result # None => sidecar'.result \in Run /\ Complete(sidecar'.result)
    BY <1>1 DEF NoSidecar, TypeOK, Saved, ResultsComplete
  <2>2. ASSUME NEW l \in Run, Complete(l) PROVE Complete(l)'
    BY <1>4, <2>2 DEF Complete
  <2>3. ASSUME NEW l \in Run, l = sidecar'.result PROVE Complete(l)'
    BY <2>1, <2>2, <2>3, RunsType
  <2>4. \A l \in Run : job'[l].th = "none"
    BY <1>4
  <2> QED BY <1>3, <2>1, <2>3, <2>4 DEF ResultsComplete
<1>12. AnswersAwaited => AnswersAwaited'
  <2> SUFFICES ASSUME AnswersAwaited PROVE AnswersAwaited'
    OBVIOUS
  <2>1. StopsAwaitTask'
    BY <1>6 DEF StopsAwaitTask
  <2>2. LiveIsRunning'
    BY <1>4 DEF LiveIsRunning, Live
  <2>3. SavedIsAnEnd'
    BY <1>1 DEF AnswersAwaited, SavedIsAnEnd, NoSidecar
  <2> QED BY <2>1, <2>2, <2>3 DEF AnswersAwaited
<1> QED BY <1>8, <1>9, <1>10, <1>11, <1>12

-----------------------------------------------------------------------------
(* Every step.                                                             *)

LEMMA ServiceInitInv == Init => ClientInv
<1> SUFFICES ASSUME Init PROVE ClientInv
  OBVIOUS
<1>1. TypeOK
  BY RunsType, NoJobType, EmptyRef, ServiceAssumption
     DEF Init, TypeOK, Loaded, NoSidecar, Service, Saved, Status, StopCall
<1>2. /\ svc.status = "idle" /\ svc.task = None /\ svc.result = None
      /\ sidecar.status = "idle" /\ sidecar.result = None
  BY DEF Init, Loaded, NoSidecar
<1>3. \A k \in Run : job[k].co = "none" /\ ~job[k].cancel /\ job[k].th = "none"
  BY DEF Init, NoJob
<1>4. \A s \in Stopper : stopper[s].pc = "idle"
  BY DEF Init
<1>5. RunsNumbered
  BY <1>2, <1>3, RunsType DEF Init, RunsNumbered
<1>6. CancelsAwaited /\ RunningHasTask /\ ResultsComplete
  BY <1>2, <1>3, <1>4 DEF CancelsAwaited, RunningHasTask, ResultsComplete
<1>7. AnswersAwaited
  BY <1>2, <1>3, <1>4 DEF AnswersAwaited, StopsAwaitTask, LiveIsRunning, Live, SavedIsAnEnd
<1> QED BY <1>1, <1>5, <1>6, <1>7 DEF ClientInv, ServiceInv

LEMMA ServiceUnchanged ==
  ASSUME ServiceInv, UNCHANGED vars
  PROVE  ServiceInv' /\ (AnswersAwaited => AnswersAwaited')
<1> USE DEF vars
<1>1. TypeOK' /\ RunsNumbered' /\ RunningHasTask'
  BY DEF ServiceInv, TypeOK, RunsNumbered, RunningHasTask
<1>2. CancelsAwaited' /\ ResultsComplete'
  BY DEF ServiceInv, CancelsAwaited, Over, Awaits, ResultsComplete, Complete
<1>3. AnswersAwaited => AnswersAwaited'
  BY DEF AnswersAwaited, StopsAwaitTask, LiveIsRunning, Live, SavedIsAnEnd
<1> QED BY <1>1, <1>2, <1>3 DEF ServiceInv

LEMMA ServiceStep ==
  ASSUME ServiceInv, [Next]_vars
  PROVE  ServiceInv' /\ (OneClient /\ AnswersAwaited => AnswersAwaited')
<1> DEFINE Kept == ServiceInv' /\ (OneClient /\ AnswersAwaited => AnswersAwaited')
<1>1. CASE Start
  BY <1>1, StartInv
<1>2. ASSUME NEW s \in Stopper, Stop(s) \/ StopReturns(s) PROVE Kept
  BY <1>2, StopInv, StopReturnsInv
<1>3. ASSUME NEW k \in Run, EventLoop(k) PROVE Kept
  BY <1>3, BeginInv, LaunchInv, FinishInv, FailInv, CancelledInv, ClosingInv DEF EventLoop
<1>4. ASSUME NEW k \in Run, Monitor(k) PROVE Kept
  BY <1>4, MonitorTickInv, MonitorEndsBeside, BesideLoopInv DEF Monitor, ServiceInv
<1>5. ASSUME NEW k \in Run, Thread(k) \/ NodeWrites(k) PROVE Kept
  BY <1>5, ThreadBeside, NodeWritesBeside, BesideLoopInv DEF ServiceInv
<1>6. ASSUME NEW k \in Run, NEW n \in Node, NodeExits(k, n) PROVE Kept
  BY <1>6, NodeExitsBeside, BesideLoopInv DEF ServiceInv
<1>7. CASE Restart
  BY <1>7, RestartInv
<1>8. CASE Quiet \/ UNCHANGED vars
  BY <1>8, ServiceUnchanged DEF Quiet
<1> QED BY <1>1, <1>2, <1>3, <1>4, <1>5, <1>6, <1>7, <1>8 DEF Next

-----------------------------------------------------------------------------
(* Theorems.                                                               *)

(* The inductive invariant, for requests that overlap as they like.        *)
THEOREM ServiceInvariant == Spec => []ServiceInv
<1>1. Init => ServiceInv
  BY ServiceInitInv DEF ClientInv
<1>2. ServiceInv /\ [Next]_vars => ServiceInv'
  BY ServiceStep
<1> QED BY <1>1, <1>2, PTL DEF Spec

(* The variables of the service keep their types; what is saved never says *)
(* "running", so that a restarted server never waits for a lost run.       *)
THEOREM ServiceTypeCorrect == Spec => []TypeOK
<1>1. ServiceInv => TypeOK
  BY DEF ServiceInv
<1> QED BY <1>1, ServiceInvariant, PTL

(* "running" is never left behind, for any number of overlapping starts    *)
(* and stops and at whatever await a cancellation hits the run.            *)
THEOREM RunningAlwaysHasTask == Spec => []RunningHasTask
<1>1. ServiceInv => RunningHasTask
  BY DEF ServiceInv
<1> QED BY <1>1, ServiceInvariant, PTL

(* A result that is shown or saved is of a run none of whose processes is  *)
(* alive: no node of it writes metrics any more, not after a restart of    *)
(* the server either.                                                      *)
ResultsOfEndedRuns ==
  /\ svc.result # None => job[svc.result].alive = {}
  /\ sidecar.result # None => job[sidecar.result].alive = {}

(* A result is published only when all its node processes have ended.      *)
THEOREM ResultsAreComplete == Spec => []ResultsOfEndedRuns
<1>1. ServiceInv => ResultsOfEndedRuns
  BY DEF ServiceInv, ResultsComplete, Complete, ResultsOfEndedRuns
<1> QED BY <1>1, ServiceInvariant, PTL

(* With one client at a time, stop() awaits the task of the service, and   *)
(* no other task is live without having been cancelled.                    *)
THEOREM ClientInvariant == OneClient => (Spec => []ClientInv)
<1>1. Init => ClientInv
  BY ServiceInitInv
<1>2. ASSUME OneClient PROVE ClientInv /\ [Next]_vars => ClientInv'
  BY <1>2, ServiceStep DEF ClientInv
<1> SUFFICES ASSUME OneClient PROVE Spec => []ClientInv
  OBVIOUS
<1>3. ClientInv /\ [Next]_vars => ClientInv'
  BY <1>2
<1> QED BY <1>1, <1>3, PTL DEF Spec

-----------------------------------------------------------------------------
(* The refinement: each step of the service is one of SimulationApi's, or  *)
(* leaves status, result and number of the runs alone.                     *)

LEMMA ServiceInitIsApi == Init => Api!ApiInit
  BY DEF Init, Loaded, NoSidecar, None, Api!ApiInit

LEMMA ApiStutters ==
  ASSUME svc'.status = svc.status, svc'.result = svc.result, started' = started
  PROVE  [Api!ApiNext]_Api!apiVars
  BY DEF Api!apiVars

LEMMA StopIsApi ==
  ASSUME svc \in Service, svc' = [svc EXCEPT !.status = "idle"], started' = started
  PROVE  Api!ApiNext
<1>1. svc'.status = "idle" /\ svc'.result = svc.result
  BY DEF Service
<1> QED BY <1>1 DEF Api!ApiStop, Api!ApiNext

LEMMA StartIsApi == ASSUME ClientInv, Start PROVE Api!ApiNext
  BY DEF Start, None, Api!ApiStart, Api!ApiNext

LEMMA FinishIsApi == ASSUME ClientInv, NEW k \in Run, Finish(k) PROVE Api!ApiNext
<1>1. svc \in Service /\ svc' = [svc EXCEPT !.status = "finished", !.result = k, !.progress = k]
  BY DEF ClientInv, ServiceInv, TypeOK, Finish
<1>2. svc'.status = "finished" /\ svc'.result = k
  BY <1>1 DEF Service
<1>3. svc.status = "running" /\ k = started /\ started' = started
  BY DEF ClientInv, AnswersAwaited, LiveIsRunning, Live, Finish
<1> QED BY <1>2, <1>3 DEF Api!ApiFinish, Api!ApiNext

LEMMA FailIsApi == ASSUME ClientInv, NEW k \in Run, Fail(k) PROVE Api!ApiNext
<1>1. svc \in Service /\ svc' = [svc EXCEPT !.status = "error"]
  BY DEF ClientInv, ServiceInv, TypeOK, Fail
<1>2. svc'.status = "error" /\ svc'.result = svc.result
  BY <1>1 DEF Service
<1>3. svc.status = "running" /\ started' = started
  BY DEF ClientInv, AnswersAwaited, LiveIsRunning, Live, Fail
<1> QED BY <1>2, <1>3 DEF Api!ApiFail, Api!ApiNext

LEMMA RestartIsApi == ASSUME ClientInv, Restart PROVE Api!ApiNext
<1>1. /\ sidecar' = sidecar \/ sidecar' = NoSidecar
      /\ svc' = Loaded(sidecar') /\ started' = started
  BY DEF Restart
<1>2. sidecar \in Saved /\ SavedIsAnEnd
  BY DEF ClientInv, ServiceInv, AnswersAwaited, TypeOK
<1>3. svc'.status = sidecar'.status /\ svc'.result = sidecar'.result
  BY <1>1 DEF Loaded
<1>4. \/ svc'.status = "finished" /\ svc'.result \in 1 .. started
      \/ svc'.status \in {"idle", "error"} /\ svc'.result = 0
  BY <1>1, <1>2, <1>3 DEF SavedIsAnEnd, Saved, Status, NoSidecar, None
<1> QED BY <1>1, <1>4 DEF Api!ApiRestart, Api!ApiNext

LEMMA ServiceStepIsApi ==
  ASSUME ClientInv, [Next]_vars
  PROVE  [Api!ApiNext]_Api!apiVars
<1>1. svc \in Service
  BY DEF ClientInv, ServiceInv, TypeOK
<1>2. CASE Start
  BY <1>2, StartIsApi
<1>3. ASSUME NEW s \in Stopper, Stop(s) \/ StopReturns(s)
      PROVE  [Api!ApiNext]_Api!apiVars
  <2>1. started' = started
    BY <1>3 DEF Stop, StopReturns
  <2>2. svc' = svc \/ svc' = [svc EXCEPT !.status = "idle"]
    BY <1>3 DEF Stop, StopReturns
  <2> QED BY <1>1, <2>1, <2>2, StopIsApi, ApiStutters
<1>4. ASSUME NEW k \in Run, Finish(k) \/ Fail(k) PROVE [Api!ApiNext]_Api!apiVars
  BY <1>4, FinishIsApi, FailIsApi
<1>5. ASSUME NEW k \in Run, Cancelled(k) PROVE [Api!ApiNext]_Api!apiVars
  BY <1>1, <1>5, StopIsApi DEF Cancelled
<1>6. ASSUME NEW k \in Run, Begin(k) \/ Launch(k) \/ CloseRun(k) \/ EndRun(k)
      PROVE  [Api!ApiNext]_Api!apiVars
  BY <1>6, ApiStutters DEF Begin, Launch, CloseRun, EndRun
<1>7. ASSUME NEW k \in Run, Monitor(k) PROVE [Api!ApiNext]_Api!apiVars
  <2>1. started' = started /\ (svc' = svc \/ \E r \in files : svc' = [svc EXCEPT !.progress = r])
    BY <1>7 DEF Monitor, MonitorTick, MonitorEnds
  <2>2. svc'.status = svc.status /\ svc'.result = svc.result
    BY <1>1, <2>1 DEF Service
  <2> QED BY <2>1, <2>2, ApiStutters
<1>8. ASSUME NEW k \in Run, Thread(k) \/ NodeWrites(k) \/ \E n \in Node : NodeExits(k, n)
      PROVE  [Api!ApiNext]_Api!apiVars
  <2>1. BesideLoop
    BY <1>8, ThreadBeside, NodeWritesBeside, NodeExitsBeside DEF ClientInv, ServiceInv
  <2> QED BY <2>1, ApiStutters DEF BesideLoop
<1>9. CASE Restart
  BY <1>9, RestartIsApi
<1>10. CASE Quiet \/ UNCHANGED vars
  BY <1>10, ApiStutters DEF Quiet, vars
<1> QED BY <1>2, <1>3, <1>4, <1>5, <1>6, <1>7, <1>8, <1>9, <1>10 DEF Next, EventLoop

(* To a client that waits for each answer, the service is the machine of   *)
(* SimulationApi, through cancellations, failures and restarts.            *)
THEOREM ServiceImplementsApi == OneClient => (Spec => ServiceIsApi)
<1> SUFFICES ASSUME OneClient PROVE Spec => ServiceIsApi
  OBVIOUS
<1>1. Spec => []ClientInv
  BY ClientInvariant
<1>2. Init => Api!ApiInit
  BY ServiceInitIsApi
<1>3. ClientInv /\ [Next]_vars => [Api!ApiNext]_Api!apiVars
  BY ServiceStepIsApi
<1> QED BY <1>1, <1>2, <1>3, PTL DEF Spec, ServiceIsApi, Api!ApiSpec
=============================================================================
