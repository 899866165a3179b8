--------------------------- MODULE TaskExecution ----------------------------
(***************************************************************************)
(* The execution of factory tasks: a job of kind factory.task.run, leased  *)
(* by a JobWorker, whose handler (codex in src/services/factory-runtime.ts)*)
(* runs the task as the durable activity of the job; the result is applied *)
(* to the task of the objective (service.ts, runTask), and a process that  *)
(* starts sweeps the stale jobs (resumeObjectives).                        *)
(*                                                                         *)
(* A task is what the objective knows of the job: running until a result   *)
(* was applied.  The codex child dies with the process that spawned it.    *)
(***************************************************************************)
EXTENDS JobWorker, Sequences

VARIABLES
  rows, attempts, calls, files,  \* of DurableActivity
  tasks,    \* status of the task a job runs: "running" or "done"
  applied,  \* how often a result of the job was applied
  stage,    \* inside a run: a result is to be applied, or was
  sweep     \* per job, the sweep of the process that started last

Act == INSTANCE DurableActivity WITH Keys <- Jobs, Calls <- Runs, Key <- JobOf, NoCall <- None

handlerVars == <<rows, attempts, calls, files, tasks, applied, stage>>
vars == <<workerVars, handlerVars, sweep>>

(* undefined is no run. *)
ASSUME RunAssumption == None \notin Runs

NoSweep == [at |-> "no", by |-> None, owner |-> None, attempt |-> 0]

Init ==
  /\ WorkerInit /\ Act!ActivityInit
  /\ tasks = [j \in Jobs |-> "running"]
  /\ applied = [j \in Jobs |-> 0]
  /\ stage = [r \in Runs |-> "none"]
  /\ sweep = [j \in Jobs |-> NoSweep]

(* The locals of a run are gone with it. *)
Forget(gone) ==
  /\ calls' = [r \in Runs |-> IF r \in gone THEN Act!Gone ELSE calls[r]]
  /\ stage' = [r \in Runs |-> IF r \in gone THEN "none" ELSE stage[r]]

Stage(r, s) == stage' = [stage EXCEPT ![r] = s]

(* applyTaskWorkerResult: the task leaves the status running, whatever it was. *)
Apply(j) ==
  /\ tasks' = [tasks EXCEPT ![j] = "done"]
  /\ applied' = [applied EXCEPT ![j] = @ + 1]

-----------------------------------------------------------------------------
(* The handler of run r, from markDurableJobRunning to its return.  The    *)
(* lookup, the recovery and the bookkeeping are those of the activity.     *)
Activity(r) ==
  /\ At(r, "handling")
  /\ Act!Lookup(r) \/ Act!Recover(r) \/ Act!RecordRecovered(r) \/ Act!Begin(r)
       \/ Act!Complete(r) \/ Act!Fail(r) \/ Act!Stamp(r)
  /\ UNCHANGED <<workerVars, tasks, applied, stage, sweep>>

(* The codex child leaves its last message, and the result file follows.   *)
WriteResult(r) ==
  /\ At(r, "handling") /\ stage[r] = "none"
  /\ Act!Persist(r)
  /\ Stage(r, "apply")
  /\ UNCHANGED <<workerVars, tasks, applied, sweep>>

(* runTask applies its own result without a look at the task. *)
ApplyResult(r) ==
  /\ At(r, "handling") /\ Act!In(r, "work") /\ stage[r] = "apply"
  /\ Apply(JobOf(r))
  /\ Stage(r, "applied")
  /\ UNCHANGED <<workerVars, rows, attempts, calls, files, sweep>>

RunTaskReturns(r) ==
  /\ At(r, "handling") /\ stage[r] = "applied"
  /\ Act!Returns(r)
  /\ UNCHANGED <<workerVars, tasks, applied, stage, sweep>>

(* Timeout, stall, a failing exit code, an error of applyTaskWorkerResult. *)
RunTaskThrows(r) ==
  /\ At(r, "handling")
  /\ Act!Throws(r)
  /\ UNCHANGED <<workerVars, tasks, applied, stage, sweep>>

(* pollSignal consumed an abort: the child is killed and runTask throws.   *)
AbortTask(r) ==
  /\ PullAbort(r) /\ stage[r] = "none"
  /\ Act!Throws(r)
  /\ UNCHANGED <<tasks, applied, stage, sweep>>

(* Mutants: a recovered result is applied without a look at the task, or never. *)
NeedsResultAlways(j) == TRUE
NeedsResultNever(j) == FALSE
NeedsResult(j) == tasks[j] = "running"

(* maybeApplyRecoveredTaskWorkerResult looks at the task, and applies. *)
CheckRecovered(r) ==
  /\ At(r, "handling") /\ Act!In(r, "recovered") /\ stage[r] = "none"
  /\ Stage(r, IF NeedsResult(JobOf(r)) THEN "apply" ELSE "applied")
  /\ UNCHANGED <<workerVars, rows, attempts, calls, files, tasks, applied, sweep>>

ApplyRecovered(r) ==
  /\ At(r, "handling") /\ Act!In(r, "recovered") /\ stage[r] = "apply"
  /\ Apply(JobOf(r))
  /\ Stage(r, "applied")
  /\ UNCHANGED <<workerVars, rows, attempts, calls, files, sweep>>

(* A cached or finished activity, and a recovered result once applied, are *)
(* ok.  An error is caught; one with a 4xx status is not retried.          *)
HandlerReturns(r) ==
  /\ \/ Act!In(r, "done") /\ Return(r, "ok")
     \/ Act!In(r, "recovered") /\ stage[r] = "applied" /\ Return(r, "ok")
     \/ Act!In(r, "recovered") /\ stage[r] = "apply" /\ Return(r, "retry")
     \/ Act!In(r, "failed") /\ \E result \in {"retry", "noretry"} : Return(r, result)
  /\ Forget({r})
  /\ UNCHANGED <<rows, attempts, files, tasks, applied, sweep>>

Handler(r) ==
  Activity(r) \/ WriteResult(r) \/ ApplyResult(r) \/ RunTaskReturns(r) \/ RunTaskThrows(r)
    \/ AbortTask(r) \/ CheckRecovered(r) \/ ApplyRecovered(r) \/ HandlerReturns(r)

-----------------------------------------------------------------------------
(* reconcileStaleObjectiveExecutionJobs: on its start a process lists the  *)
(* jobs that nobody has touched for long, queued ones too.                 *)
Stale(j) == jobs[j].status = "queued" \/ LeasePast(jobs[j])

StartProcess(w) ==
  /\ Restart(w)
  /\ sweep' = [j \in Jobs |-> IF Stale(j) THEN [at |-> "listed", by |-> w,
                                                owner |-> jobs[j].worker,
                                                attempt |-> jobs[j].attempt]
                              ELSE sweep[j]]
  /\ UNCHANGED handlerVars

Die(w) ==
  /\ Crash(w)
  /\ sweep' = [j \in Jobs |-> IF sweep[j].by = w THEN NoSweep ELSE sweep[j]]
  /\ Forget({r \in Runs : runs'[r].at = "done"})
  /\ UNCHANGED <<rows, attempts, files, tasks, applied>>

SweepTo(j, at) == sweep' = [sweep EXCEPT ![j].at = at]

HasResult(j) == Act!Cached(rows[j]) \/ files[j] # None

(* The sweep acts on its list.  It is late when the job was leased since.  *)
AsListed(j) == Stale(j) /\ jobs[j].attempt = sweep[j].attempt
InTime(j) ==
  /\ ~AsListed(j) => late < MaxLate
  /\ late' = IF AsListed(j) THEN late ELSE late + 1

(* A result in the row or the file: the task is looked at.  None: the job  *)
(* is canceled.                                                            *)
SweepJob(j) ==
  /\ sweep[j].at = "listed" /\ InTime(j)
  /\ IF HasResult(j)
     THEN SweepTo(j, IF NeedsResult(j) THEN "apply" ELSE "complete") /\ UNCHANGED jobs
     ELSE Post(j, Plain("canceled")) /\ sweep' = [sweep EXCEPT ![j] = NoSweep]
  /\ UNCHANGED <<handlerVars, signals, runs, active, leases, up, startup, overlap, crashes>>

SweepApplies(j) ==
  /\ sweep[j].at = "apply" /\ InTime(j)
  /\ Apply(j)
  /\ SweepTo(j, "complete")
  /\ UNCHANGED <<jobs, signals, runs, active, leases, up, startup, overlap, crashes>>
  /\ UNCHANGED <<rows, attempts, calls, files, stage>>

(* The job is completed in the name of the owner it had when it was listed. *)
SweepCompletes(j) ==
  LET w == sweep[j].owner IN
  /\ sweep[j].at = "complete"
  /\ Report(w, j, By("completed", w))
  /\ sweep' = [sweep EXCEPT ![j] = NoSweep]
  /\ UNCHANGED <<handlerVars, signals, runs, active, leases, up, startup, overlap, crashes, late>>

Sweep(j) == SweepJob(j) \/ SweepApplies(j) \/ SweepCompletes(j)

-----------------------------------------------------------------------------
WorkerOnly(w) == Lease(w) \/ \E j \in Jobs : TickLease(w, j) \/ ReconcileStartupLease(w, j)

Next ==
  \/ \E r \in Runs : RunStep(r) /\ UNCHANGED <<handlerVars, sweep>>
  \/ \E r \in Runs : Handler(r)
  \/ \E w \in Workers : WorkerOnly(w) /\ UNCHANGED <<handlerVars, sweep>>
  \/ \E w \in Workers : StartProcess(w) \/ Die(w)
  \/ \E j \in Jobs : JobStep(j) /\ UNCHANGED <<handlerVars, sweep>>
  \/ \E j \in Jobs : Sweep(j)

Spec == Init /\ [][Next]_vars

(* The runtime schedules every pending step, a handler returns (codex has  *)
(* timeouts), time passes for a lease nobody renews, some refresh of the   *)
(* queue follows, and a process that died is started again.                *)
Fairness ==
  /\ \A r \in Runs : WF_vars(RunStep(r) /\ UNCHANGED <<handlerVars, sweep>>)
  /\ \A r \in Runs : WF_vars(Handler(r))
  /\ \A w \in Workers : WF_vars(Lease(w) /\ UNCHANGED <<handlerVars, sweep>>)
  /\ \A w \in Workers : WF_vars(StartProcess(w))
  /\ \A j \in Jobs : WF_vars(~Covered(j) /\ LeasePasses(j) /\ UNCHANGED <<handlerVars, sweep>>)
  /\ \A j \in Jobs : WF_vars(Expire(j) /\ UNCHANGED <<handlerVars, sweep>>)

FairSpec == Spec /\ Fairness

-----------------------------------------------------------------------------
TypeOK ==
  /\ WorkerTypeOK /\ Act!ActivityTypeOK
  /\ tasks \in [Jobs -> {"running", "done"}]
  /\ applied \in [Jobs -> Nat]
  /\ stage \in [Runs -> {"none", "apply", "applied"}]
  /\ sweep \in [Jobs -> [at : {"no", "listed", "apply", "complete"},
                         by : Workers \cup {None}, owner : Workers \cup {None}, attempt : Nat]]

(* A result is applied to its task at most once, by the run that produced  *)
(* it, by a run that recovers it after a crash, or by the sweep of a start. *)
AppliedOnce == late = 0 => \A j \in Jobs : applied[j] <= 1

(* When the queue says the job is completed, the task is no longer running: *)
(* nothing else would ever move it.                                        *)
CompletedIsApplied ==
  \A j \in Jobs : jobs[j].status = "completed" => tasks[j] = "done"

(* Once the result of a task is on disk, the task is not run again: a later *)
(* attempt recovers the result (durable-execution.test.ts, "persisted      *)
(* terminal result is recovered instead of rerunning").                    *)
RecoveredNotRerun ==
  [][\A j \in Jobs : late' = 0 /\ files[j] # None => rows'[j].attempts = rows[j].attempts]_vars

(* Until a worker or a sweep is late, the row of the activity keeps the     *)
(* promise of ActivityOnce, crashes and restarts included.                 *)
Once == INSTANCE ActivityOnce WITH
  Keys <- Jobs, Outputs <- Runs, NoOutput <- None,
  tries <- [j \in Jobs |-> rows[j].attempts],
  outcome <- [j \in Jobs |-> IF Act!Cached(rows[j]) THEN rows[j].output ELSE None]
ImplementsOnce == Once!Init /\ [][late' = 0 => Once!Next \/ UNCHANGED Once!vars]_vars

(* Every job comes to an end, whatever crashes in between. *)
JobsEnd == \A j \in Jobs : Exists(jobs[j]) ~> Terminal(jobs[j])

(* docs/api/http.md:128: "Request cancel of a queued/running job."  Once a *)
(* worker has consumed the abort of a job, no handler starts on it again.  *)
AbortHeeded ==
  [][\A r \in Runs : signals[JobOf(r)] = "consumed" /\ ~At(r, "handling")
       => runs'[r].at # "handling"]_vars
=============================================================================
