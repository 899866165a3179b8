----------------------------- MODULE JobWorker ------------------------------
(***************************************************************************)
(* src/engine/runtime/job-worker.ts: workers that lease jobs, run their    *)
(* handlers, keep the leases alive and report the outcome.                 *)
(*                                                                         *)
(* The queue is the ledger that JobQueue implements within one process:    *)
(* every operation is one step on the job as it is.  Around it stands the  *)
(* wrapper of src/lib/durable-execution.ts: an abort of a job with a       *)
(* workflow is a signal of the workflow, never a command of the job.       *)
(*                                                                         *)
(* A run is one execution of runLeased, for the n-th lease of a job.  The  *)
(* worker knows its runs by job id only: the Maps active and activeLeases  *)
(* are sets of job ids.  The wait for the queue to advance (loop, 311-331) *)
(* is left out: it ends after idleResyncMs at the latest.  A stopped       *)
(* worker belongs to a process about to exit, which is Crash.              *)
(***************************************************************************)
EXTENDS JobRecord, FiniteSets

CONSTANTS
  Jobs,
  MaxAttempts,   \* maxAttempts of every job
  Concurrency,   \* runs a worker may have at once
  MaxCrashes,    \* bound: process deaths
  MaxLate        \* bound: leases that lapse although their run is alive

ASSUME WorkerAssumption ==
  /\ MaxAttempts \in Nat \ {0} /\ Concurrency \in Nat \ {0}
  /\ MaxCrashes \in Nat /\ MaxLate \in Nat

VARIABLES
  jobs,     \* the ledger
  signals,  \* the abort signal of a job: "none", "open" or "consumed"
  runs,     \* every run there may be, by job and attempt
  active,   \* per worker, the job ids of its Map active
  leases,   \* per worker, the job ids of its Map activeLeases
  up,       \* the process of the worker is alive
  startup,  \* per worker, the leases reconcileStartupLeases has still to visit
  overlap,  \* a worker leased a job that an earlier run of its own still held
  crashes, late

workerVars == <<jobs, signals, runs, active, leases, up, startup, overlap, crashes, late>>

Runs == Jobs \X (1..MaxAttempts)
JobOf(r) == r[1]

Steps == {"none", "preAbort", "cancel", "beat", "grace", "handling", "postAbort",
          "report", "after", "done"}
Results == {"none", "ok", "retry", "noretry"}
Run == [at : Steps, worker : Workers \cup {None}, result : Results]
NoRun == [at |-> "none", worker |-> None, result |-> "none"]

WorkerInit ==
  /\ jobs = [j \in Jobs |-> NoJob]
  /\ signals = [j \in Jobs |-> "none"]
  /\ runs = [r \in Runs |-> NoRun]
  /\ active = [w \in Workers |-> {}]
  /\ leases = [w \in Workers |-> {}]
  /\ up = [w \in Workers |-> TRUE]
  /\ startup = [w \in Workers |-> {}]
  /\ overlap = FALSE
  /\ crashes = 0 /\ late = 0

-----------------------------------------------------------------------------
(* The queue. *)
Post(j, e) == jobs' = [jobs EXCEPT ![j] = Reduce(@, e)]

(* heartbeat, complete and fail take effect for the owner, and for anyone  *)
(* when the job has none; a finished job is returned as it is.             *)
Missed(w, j) == ~Terminal(jobs[j]) /\ jobs[j].worker \notin {w, None}
Heartbeat(w, j) ==
  IF Missed(w, j) \/ Terminal(jobs[j]) THEN UNCHANGED jobs ELSE Post(j, By("heartbeat", w))
Report(w, j, e) ==
  IF Missed(w, j) \/ Terminal(jobs[j]) THEN UNCHANGED jobs ELSE Post(j, e)

At(r, step) == runs[r].at = step
Goto(r, step) == runs' = [runs EXCEPT ![r].at = step]
Alive(r) == runs[r].at \notin {"none", "done"}

(* A run whose worker is to keep the lease of its job alive. *)
Covered(j) == \E r \in Runs :
  /\ JobOf(r) = j /\ Alive(r) /\ ~At(r, "after")
  /\ r[2] = jobs[j].attempt /\ runs[r].worker = jobs[j].worker

Over == [NoRun EXCEPT !.at = "done"]

(* Mutant: the Map active keeps the job. *)
EndRunKept(r) == runs' = [runs EXCEPT ![r] = Over] /\ UNCHANGED active

(* The run returns, and its finally removes the job id from active.        *)
EndRun(r) ==
  /\ runs' = [runs EXCEPT ![r] = Over]
  /\ active' = [active EXCEPT ![runs[r].worker] = @ \ {JobOf(r)}]

(* clearActiveLease, for whichever run registered the id. *)
ClearLease(r) == leases' = [leases EXCEPT ![runs[r].worker] = @ \ {JobOf(r)}]

-----------------------------------------------------------------------------
HasSlot(w) == Cardinality(active[w]) < Concurrency

Lease(w) == \E j \in Jobs :
  LET n == jobs[j].attempt + 1 IN
  /\ up[w] /\ HasSlot(w) /\ ShouldQueue(jobs[j])
  /\ Post(j, Leased(w, n))
  /\ runs' = [runs EXCEPT ![<<j, n>>] = [NoRun EXCEPT !.at = "preAbort", !.worker = w]]
  /\ active' = [active EXCEPT ![w] = @ \cup {j}]
  /\ overlap' = (overlap \/ j \in active[w])
  /\ UNCHANGED <<signals, leases, up, startup, crashes, late>>

ConsumeAbort(j) ==
  signals' = [signals EXCEPT ![j] = IF @ = "open" THEN "consumed" ELSE @]

Register(r) == leases' = [leases EXCEPT ![runs[r].worker] = @ \cup {JobOf(r)}]

(* The abort signals are pulled before the handler starts.  Otherwise the  *)
(* lease is registered with the heartbeat loop.                            *)
PreAbort(r) ==
  /\ At(r, "preAbort")
  /\ ConsumeAbort(JobOf(r))
  /\ IF signals[JobOf(r)] = "open"
     THEN Goto(r, "cancel") /\ UNCHANGED leases
     ELSE Goto(r, "beat") /\ Register(r)
  /\ UNCHANGED <<jobs, active, up, startup, overlap, crashes, late>>

(* queue.cancel asks for no owner. *)
Cancel(r) ==
  /\ At(r, "cancel")
  /\ Post(JobOf(r), Plain("canceled"))
  /\ Goto(r, "after")
  /\ UNCHANGED <<signals, active, leases, up, startup, overlap, crashes, late>>

(* The first heartbeat.  A finished job ends the run; an owner who is       *)
(* somebody else gets a second look after the grace period, and then the   *)
(* handler starts all the same (heartbeatLease returns without clearing).  *)
Beat(r) ==
  LET j == JobOf(r)
      w == runs[r].worker
  IN
  /\ At(r, "beat") \/ At(r, "grace")
  /\ Heartbeat(w, j)
  /\ IF Terminal(jobs[j])
     THEN EndRun(r) /\ ClearLease(r)
     ELSE /\ Goto(r, IF Missed(w, j) /\ At(r, "beat") THEN "grace" ELSE "handling")
          /\ UNCHANGED <<active, leases>>
  /\ UNCHANGED <<signals, up, startup, overlap, crashes, late>>

(* The handler returns ok, not ok, or not ok with noRetry; a throw is not  *)
(* ok too.  The lease is cleared before anything is reported.              *)
Return(r, result) ==
  /\ At(r, "handling")
  /\ runs' = [runs EXCEPT ![r].at = "postAbort", ![r].result = result]
  /\ ClearLease(r)
  /\ UNCHANGED <<jobs, signals, active, up, startup, overlap, crashes, late>>

(* The handler pulls the abort itself (pollSignal, shouldAbort), and gives up. *)
PullAbort(r) ==
  /\ At(r, "handling")
  /\ signals[JobOf(r)] = "open"
  /\ ConsumeAbort(JobOf(r))
  /\ UNCHANGED <<jobs, runs, active, leases, up, startup, overlap, crashes, late>>

PostAbort(r) ==
  /\ At(r, "postAbort")
  /\ ConsumeAbort(JobOf(r))
  /\ Goto(r, IF signals[JobOf(r)] = "open" THEN "cancel" ELSE "report")
  /\ UNCHANGED <<jobs, active, leases, up, startup, overlap, crashes, late>>

MayRetry(r) == runs[r].result = "retry" /\ jobs[JobOf(r)].attempt < MaxAttempts

(* complete, or fail. *)
ReportOutcome(r) ==
  LET w == runs[r].worker IN
  /\ At(r, "report")
  /\ Report(w, JobOf(r), IF runs[r].result = "ok" THEN By("completed", w)
                         ELSE Failed(w, MayRetry(r)))
  /\ Goto(r, "after")
  /\ UNCHANGED <<signals, active, leases, up, startup, overlap, crashes, late>>

(* The job is reported, the run is not over: the wrapper notes the status  *)
(* of the workflow (durable-execution.ts, 262-286), afterComplete has the  *)
(* objective react, also when complete did nothing.  A job that is to be   *)
(* retried may be leased in between.                                       *)
RunReturns(r) ==
  /\ At(r, "after")
  /\ EndRun(r)
  /\ UNCHANGED <<jobs, signals, leases, up, startup, overlap, crashes, late>>

(* tickLeases, and the keepalive timer of the factory handlers. *)
TickLease(w, j) ==
  /\ up[w] /\ j \in leases[w]
  /\ Heartbeat(w, j)
  /\ leases' = [leases EXCEPT ![w] = IF Terminal(jobs[j]) THEN @ \ {j} ELSE @]
  /\ UNCHANGED <<signals, runs, active, up, startup, overlap, crashes, late>>

-----------------------------------------------------------------------------
(* A process dies with its runs and its Maps; the next one has the same    *)
(* worker id (JOB_WORKER_ID).                                              *)
Crash(w) ==
  /\ up[w] /\ crashes < MaxCrashes
  /\ crashes' = crashes + 1
  /\ up' = [up EXCEPT ![w] = FALSE]
  /\ runs' = [r \in Runs |-> IF Alive(r) /\ runs[r].worker = w
                             THEN Over ELSE runs[r]]
  /\ active' = [active EXCEPT ![w] = {}]
  /\ leases' = [leases EXCEPT ![w] = {}]
  /\ startup' = [startup EXCEPT ![w] = {}]
  /\ UNCHANGED <<jobs, signals, overlap, late>>

(* start() lists the leased and running jobs that carry its worker id ...  *)
Restart(w) ==
  /\ ~up[w]
  /\ up' = [up EXCEPT ![w] = TRUE]
  /\ startup' = [startup EXCEPT ![w] = {j \in Jobs : Active(jobs[j]) /\ jobs[j].worker = w}]
  /\ UNCHANGED <<jobs, signals, runs, active, leases, overlap, crashes, late>>

(* ... and renews each of them, which nobody runs, once. *)
ReconcileStartupLease(w, j) ==
  /\ j \in startup[w]
  /\ startup' = [startup EXCEPT ![w] = @ \ {j}]
  /\ Heartbeat(w, j)
  /\ UNCHANGED <<signals, runs, active, leases, up, overlap, crashes, late>>

(* The deadline of a lease passes.  That of a run that is alive passes only *)
(* when the loops of its worker are late.                                  *)
LeasePasses(j) ==
  /\ jobs[j].lease = "live"
  /\ Covered(j) => late < MaxLate
  /\ late' = IF Covered(j) THEN late + 1 ELSE late
  /\ jobs' = [jobs EXCEPT ![j] = Age(@)]
  /\ UNCHANGED <<signals, runs, active, leases, up, startup, overlap, crashes>>

(* Any refresh of the queue expires the leases that passed. *)
Expire(j) ==
  /\ LeasePast(jobs[j])
  /\ Post(j, Expired(jobs[j].attempt < MaxAttempts))
  /\ UNCHANGED <<signals, runs, active, leases, up, startup, overlap, crashes, late>>

Enqueue(j) ==
  /\ ~Exists(jobs[j])
  /\ Post(j, Plain("enqueued"))
  /\ UNCHANGED <<signals, runs, active, leases, up, startup, overlap, crashes, late>>

(* POST /jobs/:id/abort through the wrapper. *)
SendAbort(j) ==
  /\ Exists(jobs[j]) /\ signals[j] = "none"
  /\ signals' = [signals EXCEPT ![j] = "open"]
  /\ UNCHANGED <<jobs, runs, active, leases, up, startup, overlap, crashes, late>>

(* A service cancels the job outright (cancelObjectiveScopedJobs and others). *)
CancelJob(j) ==
  /\ Exists(jobs[j]) /\ ~Terminal(jobs[j])
  /\ Post(j, Plain("canceled"))
  /\ UNCHANGED <<signals, runs, active, leases, up, startup, overlap, crashes, late>>

RunStep(r) == PreAbort(r) \/ Cancel(r) \/ Beat(r) \/ PostAbort(r) \/ ReportOutcome(r)
                \/ RunReturns(r)
WorkerStep(w) == Lease(w) \/ Crash(w) \/ Restart(w)
                   \/ \E j \in Jobs : TickLease(w, j) \/ ReconcileStartupLease(w, j)
JobStep(j) == LeasePasses(j) \/ Expire(j) \/ Enqueue(j) \/ SendAbort(j) \/ CancelJob(j)
HandlerStep(r) == PullAbort(r) \/ \E result \in Results \ {"none"} : Return(r, result)

WorkerNext ==
  \/ \E r \in Runs : RunStep(r) \/ HandlerStep(r)
  \/ \E w \in Workers : WorkerStep(w)
  \/ \E j \in Jobs : JobStep(j)

WorkerSpec == WorkerInit /\ [][WorkerNext]_workerVars

-----------------------------------------------------------------------------
WorkerTypeOK ==
  /\ jobs \in [Jobs -> Job]
  /\ signals \in [Jobs -> {"none", "open", "consumed"}]
  /\ runs \in [Runs -> Run]
  /\ active \in [Workers -> SUBSET Jobs]
  /\ leases \in [Workers -> SUBSET Jobs]
  /\ up \in [Workers -> BOOLEAN]
  /\ startup \in [Workers -> SUBSET Jobs]
  /\ overlap \in BOOLEAN
  /\ crashes \in 0..MaxCrashes /\ late \in 0..MaxLate

(* As long as no worker was late, at most one run executes the handler of a *)
(* job: across two workers, expired leases, a crash and a restart with the *)
(* same worker id, an abort and a cancel.  (A late worker breaks it; only   *)
(* the lease stands between two runs.)                                     *)
HandlersExclusive == late = 0 =>
  \A r, s \in Runs : JobOf(r) = JobOf(s) /\ At(r, "handling") /\ At(s, "handling") => r = s

(* The size of the Map active, which the concurrency limit is checked       *)
(* against, counts the runs of the worker: keyed by job id, it does so      *)
(* unless the worker leases a job again, to retry it or because it was      *)
(* late, before the earlier run of its own is over.  Then the end of that   *)
(* one takes the slot of the next out of the Map.                           *)
RunsOf(w) == {r \in Runs : Alive(r) /\ runs[r].worker = w}
SlotsHeld == ~overlap =>
  \A w \in Workers :
    /\ active[w] = {JobOf(r) : r \in RunsOf(w)}
    /\ Cardinality(RunsOf(w)) <= Concurrency
=============================================================================
