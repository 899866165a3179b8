------------------------ MODULE TaskExecution_proofs ------------------------
(***************************************************************************)
(* Theorems about TaskExecution, for any number of workers, jobs,          *)
(* attempts, slots, crashes and late leases.                               *)
(*                                                                         *)
(* The argument: as long as nobody was late, a run that has not reported   *)
(* is the one the last lease of its job was granted to.  Its job is        *)
(* finished, or is leased to the worker of the run with a deadline that    *)
(* has not passed; so nothing takes the job away, and the attempt tells it *)
(* from every other run at work on the job (RunsInv).  A run that has      *)
(* reported may live on while the job is retried: as long as no worker     *)
(* leases a job it still has a run of, its Map active, keyed by job id,    *)
(* counts its runs (SlotsInv).                                             *)
(*                                                                         *)
(* For the results: DiskInv relates the file, the row and the task to      *)
(* where the calls and sweeps are; OnceInv says that whoever is to apply a *)
(* result, as long as nobody was late, finds its task at work; TwoInv says *)
(* how far both runs of a job are when an outcome is not applied yet.      *)
(***************************************************************************)
EXTENDS TaskExecution, JobRecord_proofs, FiniteSetTheorems, SequenceTheorems

(* A job of the ledger: a queued one has an attempt left, a leased one a    *)
(* worker.                                                                  *)
Fine(p) ==
  /\ p.attempt <= MaxAttempts
  /\ p.status = "none" => p.attempt = 0
  /\ p.status = "queued" => p.attempt < MaxAttempts
  /\ Active(p) => p.worker \in Workers

(* The run of attempt n holds the job p, or finds it finished. *)
Owns(p, run, n) ==
  /\ n = p.attempt
  /\ \/ Terminal(p)
     \/ Active(p) /\ p.worker = run.worker /\ p.lease # "past"

(* No run that holds p loses it when p becomes q. *)
Kept(p, q) ==
  /\ q.attempt = p.attempt
  /\ Terminal(p) => Terminal(q)
  /\ Active(p) /\ p.lease # "past" =>
       Terminal(q) \/ (Active(q) /\ q.worker = p.worker /\ q.lease # "past")

(* A run that is not over, and one that has not reported yet. *)
Living(run) == run.at \notin {"none", "done"}
Working(run) == run.at \notin {"none", "done", "after"}
RunsAt(rs, w) == {r \in Runs : Living(rs[r]) /\ rs[r].worker = w}

Counted(rs, ids, w) ==
  /\ IsFiniteSet(ids[w]) /\ IsFiniteSet(RunsAt(rs, w))
  /\ ids[w] = {JobOf(r) : r \in RunsAt(rs, w)}
  /\ Cardinality(RunsAt(rs, w)) = Cardinality(ids[w])
  /\ Cardinality(ids[w]) <= Concurrency
  /\ \A r, s \in RunsAt(rs, w) : JobOf(r) = JobOf(s) => r = s

JobsInv == \A j \in Jobs : Fine(jobs[j])
RunnersInv == \A r \in Runs : Living(runs[r]) =>
  runs[r].worker \in Workers /\ r[2] <= jobs[JobOf(r)].attempt
RunsInv == late = 0 => \A r \in Runs : Working(runs[r]) => Owns(jobs[JobOf(r)], runs[r], r[2])
SlotsInv == ~overlap => \A w \in Workers : Counted(runs, active, w)

-----------------------------------------------------------------------------
(* The job of a run is a job. *)
LEMMA RunJob == ASSUME NEW r \in Runs PROVE JobOf(r) \in Jobs /\ r[2] \in 1..MaxAttempts
  BY DEF Runs, JobOf

(* A run is known by its job and its attempt. *)
LEMMA RunIs ==
  ASSUME NEW r \in Runs, NEW s \in Runs, JobOf(r) = JobOf(s), r[2] = s[2] PROVE r = s
  BY DEF Runs, JobOf

(* A job with one event more is a job. *)
LEMMA PostType ==
  ASSUME WorkerTypeOK, NEW j \in Jobs, NEW e \in Event, Post(j, e)
  PROVE  jobs' \in [Jobs -> Job] /\ jobs' = [jobs EXCEPT ![j] = Reduce(jobs[j], e)]
<1>1. jobs[j] \in Job
  BY DEF WorkerTypeOK
<1>2. Reduce(jobs[j], e) \in Job
  BY <1>1, ReduceType
<1>3. jobs' = [jobs EXCEPT ![j] = Reduce(jobs[j], e)]
  BY DEF Post
<1> QED
  BY <1>2, <1>3 DEF WorkerTypeOK

(* heartbeat leaves a ledger of jobs. *)
LEMMA HeartbeatType ==
  ASSUME WorkerTypeOK, NEW j \in Jobs, NEW w \in Workers, Heartbeat(w, j)
  PROVE  jobs' \in [Jobs -> Job]
<1>1. CASE UNCHANGED jobs
  BY <1>1 DEF WorkerTypeOK
<1>2. CASE Post(j, By("heartbeat", w))
  BY <1>2, PostType, EventTypes
<1> QED
  BY <1>1, <1>2 DEF Heartbeat

(* So do complete and fail. *)
LEMMA ReportType ==
  ASSUME WorkerTypeOK, NEW j \in Jobs, NEW w, NEW e \in Event, Report(w, j, e)
  PROVE  jobs' \in [Jobs -> Job]
<1>1. CASE UNCHANGED jobs
  BY <1>1 DEF WorkerTypeOK
<1>2. CASE Post(j, e)
  BY <1>2, PostType
<1> QED
  BY <1>1, <1>2 DEF Report

(* A run that moves on is a run. *)
LEMMA GotoType ==
  ASSUME WorkerTypeOK, NEW r \in Runs, NEW step \in Steps, Goto(r, step)
  PROVE  runs' \in [Runs -> Run]
  BY DEF WorkerTypeOK, Goto, Run

(* A run that ends is a run, and leaves a Map of job ids. *)
LEMMA EndRunType ==
  ASSUME WorkerTypeOK, NEW r \in Runs, EndRun(r)
  PROVE  runs' \in [Runs -> Run] /\ active' \in [Workers -> SUBSET Jobs]
<1>1. Over \in Run
  BY DEF Over, NoRun, Run, Steps, Results
<1> QED
  BY <1>1 DEF WorkerTypeOK, EndRun

(* The Map activeLeases stays one of job ids. *)
LEMMA LeasesType ==
  ASSUME WorkerTypeOK, NEW r \in Runs, ClearLease(r) \/ Register(r)
  PROVE  leases' \in [Workers -> SUBSET Jobs]
  BY RunJob DEF WorkerTypeOK, ClearLease, Register

(* A signal is consumed at most. *)
LEMMA ConsumeType ==
  ASSUME WorkerTypeOK, NEW j \in Jobs, ConsumeAbort(j)
  PROVE  signals' \in [Jobs -> {"none", "open", "consumed"}]
  BY DEF WorkerTypeOK, ConsumeAbort

(* A lease keeps the types. *)
LEMMA TypeLease == ASSUME WorkerTypeOK, NEW w \in Workers, Lease(w) PROVE WorkerTypeOK'
<1> PICK j \in Jobs :
      LET n == jobs[j].attempt + 1 IN
      /\ Post(j, Leased(w, n))
      /\ runs' = [runs EXCEPT ![<<j, n>>] = [NoRun EXCEPT !.at = "preAbort", !.worker = w]]
      /\ active' = [active EXCEPT ![w] = @ \cup {j}]
      /\ overlap' = (overlap \/ j \in active[w])
      /\ UNCHANGED <<signals, leases, up, startup, crashes, late>>
  BY DEF Lease
<1>1. jobs[j].attempt + 1 \in Nat
  BY DEF WorkerTypeOK, Job
<1>2. jobs' \in [Jobs -> Job]
  BY <1>1, PostType, EventTypes
<1>3. [NoRun EXCEPT !.at = "preAbort", !.worker = w] \in Run
  BY DEF NoRun, Run, Steps, Results
<1>4. runs' \in [Runs -> Run]
  BY <1>3 DEF WorkerTypeOK
<1>5. active' \in [Workers -> SUBSET Jobs]
  BY DEF WorkerTypeOK
<1>6. overlap' \in BOOLEAN
  BY ZenonT(20) DEF WorkerTypeOK
<1> QED
  BY <1>2, <1>4, <1>5, <1>6 DEF WorkerTypeOK

(* So do the steps of a run that are not the handler's. *)
LEMMA TypeRunStep ==
  ASSUME WorkerTypeOK, RunnersInv, NEW r \in Runs, RunStep(r) PROVE WorkerTypeOK'
<1> DEFINE w == runs[r].worker
<1>0. JobOf(r) \in Jobs
  BY RunJob
<1>w. Living(runs[r]) => w \in Workers
  BY DEF RunnersInv
<1>1. CASE PreAbort(r)
  <2>1. signals' \in [Jobs -> {"none", "open", "consumed"}]
    BY <1>0, <1>1, ConsumeType DEF PreAbort
  <2>2. runs' \in [Runs -> Run]
    BY <1>1, GotoType DEF PreAbort, Steps
  <2>3. leases' \in [Workers -> SUBSET Jobs]
    BY <1>1, LeasesType DEF PreAbort, WorkerTypeOK
  <2> QED
    BY <1>1, <2>1, <2>2, <2>3 DEF PreAbort, WorkerTypeOK
<1>2. CASE Cancel(r)
  <2>1. jobs' \in [Jobs -> Job]
    BY <1>0, <1>2, PostType, EventTypes DEF Cancel
  <2>2. runs' \in [Runs -> Run]
    BY <1>2, GotoType DEF Cancel, Steps
  <2> QED
    BY <1>2, <2>1, <2>2 DEF Cancel, WorkerTypeOK
<1>3. CASE Beat(r)
  <2>1. Living(runs[r])
    BY <1>3 DEF Beat, At, Living
  <2>2. jobs' \in [Jobs -> Job]
    BY <1>0, <1>w, <1>3, <2>1, HeartbeatType DEF Beat
  <2>3. CASE Terminal(jobs[JobOf(r)])
    <3>1. runs' \in [Runs -> Run] /\ active' \in [Workers -> SUBSET Jobs]
      BY <1>3, <2>3, EndRunType DEF Beat
    <3>2. leases' \in [Workers -> SUBSET Jobs]
      BY <1>3, <2>3, LeasesType DEF Beat
    <3> QED
      BY <1>3, <2>2, <3>1, <3>2 DEF Beat, WorkerTypeOK
  <2>4. CASE ~Terminal(jobs[JobOf(r)])
    <3>1. runs' \in [Runs -> Run]
      BY <1>3, <2>4, GotoType DEF Beat, Steps
    <3> QED
      BY <1>3, <2>2, <2>4, <3>1 DEF Beat, WorkerTypeOK
  <2> QED
    BY <2>3, <2>4
<1>4. CASE PostAbort(r)
  <2>1. signals' \in [Jobs -> {"none", "open", "consumed"}]
    BY <1>0, <1>4, ConsumeType DEF PostAbort
  <2>2. runs' \in [Runs -> Run]
    BY <1>4, GotoType DEF PostAbort, Steps
  <2> QED
    BY <1>4, <2>1, <2>2 DEF PostAbort, WorkerTypeOK
<1>5. CASE ReportOutcome(r)
  <2>1. w \in Workers
    BY <1>w, <1>5 DEF ReportOutcome, At, Living
  <2>2. MayRetry(r) \in BOOLEAN
    BY DEF MayRetry
  <2>3. By("completed", w) \in Event /\ Failed(w, MayRetry(r)) \in Event
    BY <2>1, <2>2, EventTypes
  <2>4. jobs' \in [Jobs -> Job]
    BY <1>0, <1>5, <2>3, ReportType DEF ReportOutcome
  <2>5. runs' \in [Runs -> Run]
    BY <1>5, GotoType DEF ReportOutcome, Steps
  <2> QED
    BY <1>5, <2>4, <2>5 DEF ReportOutcome, WorkerTypeOK
<1>6. CASE RunReturns(r)
  <2>1. runs' \in [Runs -> Run] /\ active' \in [Workers -> SUBSET Jobs]
    BY <1>6, EndRunType DEF RunReturns
  <2> QED
    BY <1>6, <2>1 DEF RunReturns, WorkerTypeOK
<1> QED
  BY <1>1, <1>2, <1>3, <1>4, <1>5, <1>6 DEF RunStep

(* So do the steps of a job. *)
LEMMA TypeJobStep == ASSUME WorkerTypeOK, NEW j \in Jobs, JobStep(j) PROVE WorkerTypeOK'
<1>1. CASE LeasePasses(j)
  <2>1. jobs[j] \in Job
    BY DEF WorkerTypeOK
  <2>2. Age(jobs[j]) \in Job
    BY <2>1, AgeType
  <2>3. jobs' \in [Jobs -> Job]
    BY <1>1, <2>2 DEF LeasePasses, WorkerTypeOK
  <2>4. late' \in 0..MaxLate
    BY <1>1, WorkerAssumption DEF LeasePasses, WorkerTypeOK
  <2> QED
    BY <1>1, <2>3, <2>4 DEF LeasePasses, WorkerTypeOK
<1>2. CASE Expire(j)
  <2>1. (jobs[j].attempt < MaxAttempts) \in BOOLEAN
    OBVIOUS
  <2>2. jobs' \in [Jobs -> Job]
    BY <1>2, <2>1, PostType, EventTypes DEF Expire
  <2> QED
    BY <1>2, <2>2 DEF Expire, WorkerTypeOK
<1>3. CASE Enqueue(j)
  <2>1. jobs' \in [Jobs -> Job]
    BY <1>3, PostType, EventTypes DEF Enqueue
  <2> QED
    BY <1>3, <2>1 DEF Enqueue, WorkerTypeOK
<1>4. CASE SendAbort(j)
  BY <1>4 DEF SendAbort, WorkerTypeOK
<1>5. CASE CancelJob(j)
  <2>1. jobs' \in [Jobs -> Job]
    BY <1>5, PostType, EventTypes DEF CancelJob
  <2> QED
    BY <1>5, <2>1 DEF CancelJob, WorkerTypeOK
<1> QED
  BY <1>1, <1>2, <1>3, <1>4, <1>5 DEF JobStep

(* So do the loops of a worker. *)
LEMMA TypeTick ==
  ASSUME WorkerTypeOK, NEW w \in Workers, NEW j \in Jobs,
         TickLease(w, j) \/ ReconcileStartupLease(w, j)
  PROVE  WorkerTypeOK'
<1>1. jobs' \in [Jobs -> Job]
  BY HeartbeatType DEF TickLease, ReconcileStartupLease
<1> QED
  BY <1>1 DEF TickLease, ReconcileStartupLease, WorkerTypeOK

(* So does a crash. *)
LEMMA TypeCrash == ASSUME WorkerTypeOK, NEW w \in Workers, Crash(w) PROVE WorkerTypeOK'
<1>1. Over \in Run
  BY DEF Over, NoRun, Run, Steps, Results
<1>2. runs' \in [Runs -> Run]
  BY <1>1 DEF Crash, WorkerTypeOK
<1>3. crashes' \in 0..MaxCrashes
  BY WorkerAssumption DEF Crash, WorkerTypeOK
<1> QED
  BY <1>2, <1>3 DEF Crash, WorkerTypeOK

(* So does a restart. *)
LEMMA TypeRestart == ASSUME WorkerTypeOK, NEW w \in Workers, Restart(w) PROVE WorkerTypeOK'
  BY DEF Restart, WorkerTypeOK

-----------------------------------------------------------------------------
(* Where a call of the activity may stand. *)
CallAts == {"idle", "recover", "record", "begin", "work", "returned", "stamp", "threw",
            "stampThrow", "done", "recovered", "failed", "lost"}

(* A call that moves on is a call. *)
LEMMA MoveType ==
  ASSUME Act!ActivityTypeOK, NEW r \in Runs, NEW at \in CallAts, Act!Move(r, at)
  PROVE  calls' \in [Runs -> Act!Call]
  BY DEF Act!ActivityTypeOK, Act!Move, Act!Call, CallAts

(* So is one that gets its output, *)
LEMMA MoveWithType ==
  ASSUME Act!ActivityTypeOK, NEW r \in Runs, NEW at \in CallAts,
         NEW output \in Runs \cup {None}, Act!MoveWith(r, at, output)
  PROVE  calls' \in [Runs -> Act!Call]
  BY DEF Act!ActivityTypeOK, Act!MoveWith, Act!Call, CallAts

(* or the attempt to stamp. *)
LEMMA MoveStampedType ==
  ASSUME Act!ActivityTypeOK, NEW r \in Runs, NEW at \in CallAts, Act!MoveStamped(r, at)
  PROVE  calls' \in [Runs -> Act!Call]
<1>1. rows[JobOf(r)].attempts \in Nat
  BY RunJob DEF Act!ActivityTypeOK, Act!Row
<1> QED
  BY <1>1 DEF Act!ActivityTypeOK, Act!MoveStamped, Act!Call, CallAts

(* The steps of an activity keep its types. *)
LEMMA TypeActivity ==
  ASSUME Act!ActivityTypeOK, NEW r \in Runs, Act!ActivityStep(r)
  PROVE  Act!ActivityTypeOK'
<1> DEFINE k == JobOf(r)
<1>k. k \in Jobs
  BY RunJob
<1>c. calls[r].output \in Runs \cup {None} /\ rows[k] \in Act!Row /\ files[k] \in Runs \cup {None}
  BY <1>k DEF Act!ActivityTypeOK, Act!Call
<1>m. ASSUME NEW output \in Runs \cup {None} PROVE Act!Completed(rows[k], output) \in Act!Row
  BY <1>c, <1>m DEF Act!Completed, Act!Row
<1>1. CASE Act!Lookup(r)
  <2>1. rows[k].output \in Runs \cup {None}
    BY <1>c DEF Act!Row
  <2>2. calls' \in [Runs -> Act!Call]
    BY <1>1, <2>1, MoveType, MoveWithType DEF Act!Lookup, CallAts
  <2> QED
    BY <1>1, <2>2 DEF Act!Lookup, Act!ActivityTypeOK
<1>2. CASE Act!Recover(r)
  <2>1. calls' \in [Runs -> Act!Call]
    BY <1>2, <1>c, MoveType, MoveWithType DEF Act!Recover, CallAts
  <2> QED
    BY <1>2, <2>1 DEF Act!Recover, Act!ActivityTypeOK
<1>3. CASE Act!RecordRecovered(r)
  <2>1. calls' \in [Runs -> Act!Call]
    BY <1>3, MoveType DEF Act!RecordRecovered, CallAts
  <2>2. rows' = [rows EXCEPT ![k] = Act!Completed(rows[k], calls[r].output)]
    BY <1>3 DEF Act!RecordRecovered
  <2>3. rows' \in [Jobs -> Act!Row]
    BY <1>c, <1>m, <2>2 DEF Act!ActivityTypeOK
  <2> QED
    BY <1>3, <2>1, <2>3 DEF Act!RecordRecovered, Act!ActivityTypeOK
<1>4. CASE Act!Begin(r)
  <2>1. calls' \in [Runs -> Act!Call]
    BY <1>4, MoveType DEF Act!Begin, CallAts
  <2>2. rows[k].attempts + 1 \in Nat
    BY <1>c DEF Act!Row
  <2>3. [status |-> "running", attempts |-> rows[k].attempts + 1, output |-> None] \in Act!Row
    BY <2>2 DEF Act!Row
  <2>4. rows' \in [Jobs -> Act!Row]
    BY <1>4, <2>3 DEF Act!Begin, Act!ActivityTypeOK
  <2>5. Append(attempts[k], "running") \in Seq({"running", "completed", "failed"})
    BY <1>k DEF Act!ActivityTypeOK
  <2>6. attempts' \in [Jobs -> Seq({"running", "completed", "failed"})]
    BY <1>4, <2>5 DEF Act!Begin, Act!ActivityTypeOK
  <2> QED
    BY <1>4, <2>1, <2>4, <2>6 DEF Act!Begin, Act!ActivityTypeOK
<1>5. CASE Act!Persist(r)
  BY <1>5 DEF Act!Persist, Act!ActivityTypeOK
<1>6. CASE Act!Returns(r)
  <2>1. calls' \in [Runs -> Act!Call]
    BY <1>6, MoveWithType DEF Act!Returns, CallAts
  <2> QED
    BY <1>6, <2>1 DEF Act!Returns, Act!ActivityTypeOK
<1>7. CASE Act!Throws(r)
  <2>1. calls' \in [Runs -> Act!Call]
    BY <1>7, MoveType DEF Act!Throws, CallAts
  <2> QED
    BY <1>7, <2>1 DEF Act!Throws, Act!ActivityTypeOK
<1>8. CASE Act!Complete(r)
  <2>1. calls' \in [Runs -> Act!Call]
    BY <1>8, MoveStampedType DEF Act!Complete, CallAts
  <2>2. rows' = [rows EXCEPT ![k] = Act!Completed(rows[k], calls[r].output)]
    BY <1>8 DEF Act!Complete
  <2>3. rows' \in [Jobs -> Act!Row]
    BY <1>c, <1>m, <2>2 DEF Act!ActivityTypeOK
  <2> QED
    BY <1>8, <2>1, <2>3 DEF Act!Complete, Act!ActivityTypeOK
<1>9. CASE Act!Fail(r)
  <2>1. calls' \in [Runs -> Act!Call]
    BY <1>9, MoveStampedType DEF Act!Fail, CallAts
  <2>2. [rows[k] EXCEPT !.status = "failed"] \in Act!Row
    BY <1>c DEF Act!Row
  <2>3. rows' \in [Jobs -> Act!Row]
    BY <1>9, <2>2 DEF Act!Fail, Act!ActivityTypeOK
  <2> QED
    BY <1>9, <2>1, <2>3 DEF Act!Fail, Act!ActivityTypeOK
<1>10. CASE Act!Stamp(r)
  <2>1. calls' \in [Runs -> Act!Call]
    BY <1>10, MoveType DEF Act!Stamp, CallAts
  <2>2. PICK status \in {"completed", "failed"} :
          attempts' = [attempts EXCEPT ![k][calls[r].stamp] = status]
    BY <1>10 DEF Act!Stamp
  <2>3. attempts[k] \in Seq({"running", "completed", "failed"})
    BY <1>k DEF Act!ActivityTypeOK
  <2>4. [attempts[k] EXCEPT ![calls[r].stamp] = status]
          \in Seq({"running", "completed", "failed"})
    <3>1. CASE calls[r].stamp \in 1..Len(attempts[k])
      BY <2>3, <3>1, ExceptSeq
    <3>2. CASE calls[r].stamp \notin 1..Len(attempts[k])
      <4>1. DOMAIN attempts[k] = 1..Len(attempts[k])
        BY <2>3
      <4>2. [attempts[k] EXCEPT ![calls[r].stamp] = status] = attempts[k]
        BY <3>2, <4>1, <2>3
      <4> QED
        BY <2>3, <4>2
    <3> QED
      BY <3>1, <3>2
  <2>5. attempts' \in [Jobs -> Seq({"running", "completed", "failed"})]
    BY <2>2, <2>4 DEF Act!ActivityTypeOK
  <2> QED
    BY <1>10, <2>1, <2>5 DEF Act!Stamp, Act!ActivityTypeOK
<1> QED
  BY <1>1, <1>2, <1>3, <1>4, <1>5, <1>6, <1>7, <1>8, <1>9, <1>10 DEF Act!ActivityStep

-----------------------------------------------------------------------------
(* The types of what the task adds. *)
TaskTypeOK ==
  /\ tasks \in [Jobs -> {"running", "done"}]
  /\ applied \in [Jobs -> Nat]
  /\ stage \in [Runs -> {"none", "apply", "applied"}]
SweepTypeOK ==
  sweep \in [Jobs -> [at : {"no", "listed", "apply", "complete"},
                      by : Workers \cup {None}, owner : Workers \cup {None}, attempt : Nat]]

(* TypeOK is the four together. *)
TypeParts == WorkerTypeOK /\ Act!ActivityTypeOK /\ TaskTypeOK /\ SweepTypeOK
LEMMA TypeIsParts == TypeOK <=> TypeParts
  BY DEF TypeOK, TypeParts, TaskTypeOK, SweepTypeOK

(* A result that is applied counts. *)
LEMMA ApplyType ==
  ASSUME TaskTypeOK, NEW j \in Jobs, Apply(j)
  PROVE  tasks' \in [Jobs -> {"running", "done"}] /\ applied' \in [Jobs -> Nat]
  BY DEF TaskTypeOK, Apply

(* A run moves on in its handler. *)
LEMMA StageType ==
  ASSUME TaskTypeOK, NEW r \in Runs, NEW s \in {"none", "apply", "applied"}, Stage(r, s)
  PROVE  stage' \in [Runs -> {"none", "apply", "applied"}]
  BY DEF TaskTypeOK, Stage

(* What a run forgets is well typed. *)
LEMMA ForgetType ==
  ASSUME Act!ActivityTypeOK, TaskTypeOK, NEW gone, Forget(gone)
  PROVE  calls' \in [Runs -> Act!Call] /\ stage' \in [Runs -> {"none", "apply", "applied"}]
<1>1. Act!Gone \in Act!Call
  BY DEF Act!Gone, Act!NoCallYet, Act!Call
<1> QED
  BY <1>1 DEF Act!ActivityTypeOK, TaskTypeOK, Forget

(* A handler that returns leaves the types of a worker. *)
LEMMA ReturnType ==
  ASSUME WorkerTypeOK, NEW r \in Runs, NEW result \in Results, Return(r, result)
  PROVE  WorkerTypeOK'
<1>1. runs' \in [Runs -> Run]
  BY DEF Return, WorkerTypeOK, Run, Steps
<1>2. leases' \in [Workers -> SUBSET Jobs]
  BY LeasesType DEF Return
<1> QED
  BY <1>1, <1>2 DEF Return, WorkerTypeOK

(* So does one that pulls the abort. *)
LEMMA PullAbortType ==
  ASSUME WorkerTypeOK, NEW r \in Runs, PullAbort(r) PROVE WorkerTypeOK'
<1>1. signals' \in [Jobs -> {"none", "open", "consumed"}]
  BY RunJob, ConsumeType DEF PullAbort
<1> QED
  BY <1>1 DEF PullAbort, WorkerTypeOK

(* What a step leaves alone keeps its types: those of the worker, *)
LEMMA SameWorker ==
  ASSUME WorkerTypeOK,
         UNCHANGED <<jobs, signals, runs, active, leases, up, startup, overlap, crashes, late>>
  PROVE  WorkerTypeOK'
  BY DEF WorkerTypeOK

(* those of the activity, *)
LEMMA SameActivity ==
  ASSUME Act!ActivityTypeOK, UNCHANGED <<rows, attempts, calls, files>>
  PROVE  Act!ActivityTypeOK'
  BY DEF Act!ActivityTypeOK

(* those of the task, *)
LEMMA SameTask == ASSUME TaskTypeOK, UNCHANGED <<tasks, applied, stage>> PROVE TaskTypeOK'
  BY DEF TaskTypeOK

(* and those of the sweep. *)
LEMMA SameSweep == ASSUME SweepTypeOK, UNCHANGED sweep PROVE SweepTypeOK'
  BY DEF SweepTypeOK

(* The handler keeps the types. *)
LEMMA TypeHandler == ASSUME TypeParts, NEW r \in Runs, Handler(r) PROVE TypeParts'
<1>0. WorkerTypeOK /\ Act!ActivityTypeOK /\ TaskTypeOK /\ SweepTypeOK /\ JobOf(r) \in Jobs
  BY RunJob DEF TypeParts
<1>1. CASE Activity(r)
  <2>1. Act!ActivityTypeOK'
    BY <1>0, <1>1, TypeActivity DEF Activity, Act!ActivityStep
  <2> QED
    BY <1>0, <1>1, <2>1, SameWorker, SameTask, SameSweep DEF Activity, TypeParts, workerVars
<1>2. CASE WriteResult(r)
  <2>1. Act!ActivityTypeOK'
    BY <1>0, <1>2, TypeActivity DEF WriteResult, Act!ActivityStep
  <2>2. TaskTypeOK'
    BY <1>0, <1>2, StageType DEF WriteResult, TaskTypeOK
  <2> QED
    BY <1>0, <1>2, <2>1, <2>2, SameWorker, SameSweep DEF WriteResult, TypeParts, workerVars
<1>3. CASE ApplyResult(r)
  <2>1. TaskTypeOK'
    BY <1>0, <1>3, StageType, ApplyType DEF ApplyResult, TaskTypeOK
  <2>2. Act!ActivityTypeOK'
    BY <1>0, <1>3 DEF ApplyResult, Stage, Act!ActivityTypeOK
  <2> QED
    BY <1>0, <1>3, <2>1, <2>2, SameWorker, SameSweep DEF ApplyResult, TypeParts, workerVars
<1>4. CASE RunTaskReturns(r)
  <2>1. Act!ActivityTypeOK'
    BY <1>0, <1>4, TypeActivity DEF RunTaskReturns, Act!ActivityStep
  <2> QED
    BY <1>0, <1>4, <2>1, SameWorker, SameTask, SameSweep DEF RunTaskReturns, TypeParts, workerVars
<1>5. CASE RunTaskThrows(r)
  <2>1. Act!ActivityTypeOK'
    BY <1>0, <1>5, TypeActivity DEF RunTaskThrows, Act!ActivityStep
  <2> QED
    BY <1>0, <1>5, <2>1, SameWorker, SameTask, SameSweep DEF RunTaskThrows, TypeParts, workerVars
<1>6. CASE AbortTask(r)
  <2>1. Act!ActivityTypeOK'
    BY <1>0, <1>6, TypeActivity DEF AbortTask, Act!ActivityStep
  <2> QED
    BY <1>0, <1>6, <2>1, PullAbortType, SameTask, SameSweep DEF AbortTask, TypeParts
<1>7. CASE CheckRecovered(r)
  <2>1. TaskTypeOK'
    BY <1>0, <1>7, StageType DEF CheckRecovered, TaskTypeOK
  <2> QED
    BY <1>0, <1>7, <2>1, SameWorker, SameSweep DEF CheckRecovered, TypeParts, workerVars, Act!ActivityTypeOK, Stage
<1>8. CASE ApplyRecovered(r)
  <2>1. TaskTypeOK'
    BY <1>0, <1>8, StageType, ApplyType DEF ApplyRecovered, TaskTypeOK
  <2>2. Act!ActivityTypeOK'
    BY <1>0, <1>8 DEF ApplyRecovered, Act!ActivityTypeOK
  <2> QED
    BY <1>0, <1>8, <2>1, <2>2, SameWorker, SameSweep DEF ApplyRecovered, TypeParts, workerVars
<1>9. CASE HandlerReturns(r)
  <2>1. PICK result \in Results : Return(r, result)
    BY <1>9 DEF HandlerReturns, Results
  <2>2. calls' \in [Runs -> Act!Call] /\ stage' \in [Runs -> {"none", "apply", "applied"}]
    BY <1>0, <1>9, ForgetType DEF HandlerReturns
  <2>3. Act!ActivityTypeOK' /\ TaskTypeOK'
    BY <1>0, <1>9, <2>2 DEF HandlerReturns, Act!ActivityTypeOK, TaskTypeOK
  <2> QED
    BY <1>0, <1>9, <2>1, <2>3, ReturnType, SameSweep DEF HandlerReturns, TypeParts
<1> QED
  BY <1>1, <1>2, <1>3, <1>4, <1>5, <1>6, <1>7, <1>8, <1>9 DEF Handler

(* The sweep of a start keeps them. *)
LEMMA TypeSweep == ASSUME TypeParts, NEW j \in Jobs, Sweep(j) PROVE TypeParts'
<1> DEFINE w == sweep[j].owner
<1>0. WorkerTypeOK /\ Act!ActivityTypeOK /\ TaskTypeOK /\ SweepTypeOK
  BY DEF TypeParts
<1>s. ASSUME NEW at \in {"apply", "complete"}, SweepTo(j, at) PROVE SweepTypeOK'
  BY <1>0, <1>s DEF SweepTo, SweepTypeOK
<1>n. NoSweep \in [at : {"no", "listed", "apply", "complete"},
                   by : Workers \cup {None}, owner : Workers \cup {None}, attempt : Nat]
  BY DEF NoSweep
<1>l. ASSUME InTime(j) PROVE late' \in 0..MaxLate
  BY <1>0, <1>l, WorkerAssumption DEF InTime, WorkerTypeOK
<1>1. CASE SweepJob(j)
  <2>1. jobs' \in [Jobs -> Job] /\ SweepTypeOK'
    <3>1. CASE HasResult(j)
      BY <1>0, <1>s, <1>1, <3>1 DEF SweepJob, WorkerTypeOK
    <3>2. CASE ~HasResult(j)
      <4>1. jobs' \in [Jobs -> Job]
        BY <1>0, <1>1, <3>2, PostType, EventTypes DEF SweepJob
      <4> QED
        BY <1>0, <1>n, <1>1, <3>2, <4>1 DEF SweepJob, SweepTypeOK
    <3> QED
      BY <3>1, <3>2
  <2>2. WorkerTypeOK'
    BY <1>0, <1>l, <1>1, <2>1 DEF SweepJob, WorkerTypeOK
  <2>3. Act!ActivityTypeOK' /\ TaskTypeOK'
    BY <1>0, <1>1 DEF SweepJob, handlerVars, Act!ActivityTypeOK, TaskTypeOK
  <2> QED
    BY <2>1, <2>2, <2>3 DEF TypeParts
<1>2. CASE SweepApplies(j)
  <2>1. TaskTypeOK'
    BY <1>0, <1>2, ApplyType DEF SweepApplies, TaskTypeOK
  <2>2. SweepTypeOK'
    BY <1>s, <1>2 DEF SweepApplies
  <2>3. WorkerTypeOK'
    BY <1>0, <1>l, <1>2 DEF SweepApplies, WorkerTypeOK
  <2>4. Act!ActivityTypeOK'
    BY <1>0, <1>2 DEF SweepApplies, Act!ActivityTypeOK
  <2> QED
    BY <2>1, <2>2, <2>3, <2>4 DEF TypeParts
<1>3. CASE SweepCompletes(j)
  <2>1. w \in Workers \cup {None}
    BY <1>0 DEF SweepTypeOK
  <2>2. jobs' \in [Jobs -> Job]
    BY <1>0, <1>3, <2>1, ReportType, EventTypes DEF SweepCompletes
  <2>3. SweepTypeOK'
    BY <1>0, <1>n, <1>3 DEF SweepCompletes, SweepTypeOK
  <2>4. WorkerTypeOK'
    BY <1>0, <1>3, <2>2 DEF SweepCompletes, WorkerTypeOK
  <2>5. Act!ActivityTypeOK' /\ TaskTypeOK'
    BY <1>0, <1>3 DEF SweepCompletes, handlerVars, Act!ActivityTypeOK, TaskTypeOK
  <2> QED
    BY <2>3, <2>4, <2>5 DEF TypeParts
<1> QED
  BY <1>1, <1>2, <1>3 DEF Sweep

(* A start keeps them, *)
LEMMA TypeStart == ASSUME TypeParts, NEW w \in Workers, StartProcess(w) PROVE TypeParts'
<1>1. WorkerTypeOK'
  BY TypeRestart DEF StartProcess, TypeParts
<1>2. ASSUME NEW j \in Jobs
      PROVE  jobs[j].worker \in Workers \cup {None} /\ jobs[j].attempt \in Nat
  BY <1>2 DEF TypeParts, WorkerTypeOK, Job
<1>3. SweepTypeOK'
  BY <1>2 DEF StartProcess, TypeParts, SweepTypeOK
<1>4. Act!ActivityTypeOK' /\ TaskTypeOK'
  BY DEF StartProcess, handlerVars, TypeParts, Act!ActivityTypeOK, TaskTypeOK
<1> QED
  BY <1>1, <1>3, <1>4 DEF TypeParts

(* and so does a death. *)
LEMMA TypeDie == ASSUME TypeParts, NEW w \in Workers, Die(w) PROVE TypeParts'
<1>1. WorkerTypeOK'
  BY TypeCrash DEF Die, TypeParts
<1>2. NoSweep \in [at : {"no", "listed", "apply", "complete"},
                   by : Workers \cup {None}, owner : Workers \cup {None}, attempt : Nat]
  BY DEF NoSweep
<1>3. SweepTypeOK'
  BY <1>2 DEF Die, TypeParts, SweepTypeOK
<1>4. calls' \in [Runs -> Act!Call] /\ stage' \in [Runs -> {"none", "apply", "applied"}]
  BY ForgetType DEF Die, TypeParts
<1>5. Act!ActivityTypeOK' /\ TaskTypeOK'
  BY <1>4 DEF Die, TypeParts, Act!ActivityTypeOK, TaskTypeOK
<1> QED
  BY <1>1, <1>3, <1>5 DEF TypeParts

(* A step of the worker alone keeps what is not the worker's. *)
LEMMA TypeWorkerOnly ==
  ASSUME TypeParts, WorkerTypeOK', UNCHANGED <<handlerVars, sweep>> PROVE TypeParts'
  BY DEF TypeParts, handlerVars, Act!ActivityTypeOK, TaskTypeOK, SweepTypeOK

(* Every step keeps the types. *)
LEMMA TypeNext ==
  ASSUME TypeParts, RunnersInv, [Next]_vars PROVE TypeParts'
<1>1. ASSUME NEW r \in Runs, RunStep(r), UNCHANGED <<handlerVars, sweep>> PROVE TypeParts'
  BY <1>1, TypeRunStep, TypeWorkerOnly DEF TypeParts
<1>2. ASSUME NEW w \in Workers, WorkerOnly(w), UNCHANGED <<handlerVars, sweep>>
      PROVE  TypeParts'
  <2>1. WorkerTypeOK'
    BY <1>2, TypeLease, TypeTick DEF WorkerOnly, TypeParts
  <2> QED
    BY <1>2, <2>1, TypeWorkerOnly
<1>3. ASSUME NEW j \in Jobs, JobStep(j), UNCHANGED <<handlerVars, sweep>> PROVE TypeParts'
  BY <1>3, TypeJobStep, TypeWorkerOnly DEF TypeParts
<1>4. CASE UNCHANGED vars
  BY <1>4 DEF vars, workerVars, handlerVars, TypeParts, WorkerTypeOK, Act!ActivityTypeOK,
              TaskTypeOK, SweepTypeOK
<1> QED
  BY <1>1, <1>2, <1>3, <1>4, TypeHandler, TypeSweep, TypeStart, TypeDie DEF Next

-----------------------------------------------------------------------------
(* What most steps do: no run loses its job, runs go on or end. *)
KeptAll(ps, qs) == \A j \in Jobs : Fine(qs[j]) /\ Kept(ps[j], qs[j])
GoesOn(rs, ss) == \A r \in Runs :
  /\ Living(ss[r]) => Living(rs[r]) /\ ss[r].worker = rs[r].worker
  /\ Working(ss[r]) => Working(rs[r])
SameRuns(rs, ss) == \A r \in Runs :
  /\ Living(ss[r]) <=> Living(rs[r])
  /\ Living(rs[r]) => ss[r].worker = rs[r].worker

LedgerInv == JobsInv /\ RunnersInv /\ RunsInv

(* Then the runs that live on still own their jobs. *)
LEMMA KeptInv ==
  ASSUME LedgerInv, KeptAll(jobs, jobs'), GoesOn(runs, runs'), late' = 0 => late = 0
  PROVE  LedgerInv'
<1>1. JobsInv' /\ RunnersInv'
  BY RunJob DEF LedgerInv, JobsInv, RunnersInv, KeptAll, Kept, GoesOn
<1>2. ASSUME late' = 0, NEW r \in Runs, Working(runs'[r])
      PROVE  Owns(jobs'[JobOf(r)], runs'[r], r[2])
  <2>1. Owns(jobs[JobOf(r)], runs[r], r[2])
    BY <1>2 DEF LedgerInv, RunsInv, GoesOn
  <2>2. Kept(jobs[JobOf(r)], jobs'[JobOf(r)])
    BY RunJob DEF KeptAll
  <2>3. runs'[r].worker = runs[r].worker
    BY <1>2 DEF GoesOn, Living, Working
  <2> QED
    BY <2>1, <2>2, <2>3 DEF Owns, Kept
<1> QED
  BY <1>1, <1>2 DEF LedgerInv, RunsInv

(* Runs that live where they lived take the slots they took. *)
LEMMA SameSlots ==
  ASSUME SlotsInv, SameRuns(runs, runs'), UNCHANGED <<active, overlap>>
  PROVE  SlotsInv'
<1>1. ASSUME NEW w \in Workers PROVE RunsAt(runs', w) = RunsAt(runs, w)
  BY DEF RunsAt, SameRuns
<1> QED
  BY <1>1 DEF SlotsInv, Counted

(* Jobs that do not change are kept. *)
LEMMA KeptSame == ASSUME JobsInv, UNCHANGED jobs PROVE KeptAll(jobs, jobs')
  BY DEF JobsInv, KeptAll, Kept

(* One job that is kept. *)
LEMMA KeptOne ==
  ASSUME JobsInv, WorkerTypeOK, NEW j \in Jobs, NEW q, jobs' = [jobs EXCEPT ![j] = q],
         Fine(q), Kept(jobs[j], q)
  PROVE  KeptAll(jobs, jobs')
  BY DEF JobsInv, WorkerTypeOK, KeptAll, Kept

(* A heartbeat of its worker keeps a job. *)
LEMMA KeptHeartbeat ==
  ASSUME JobsInv, WorkerTypeOK, NEW j \in Jobs, NEW w \in Workers, Heartbeat(w, j)
  PROVE  KeptAll(jobs, jobs')
<1> DEFINE p == jobs[j]
           q == Reduce(p, By("heartbeat", w))
<1>1. CASE Missed(w, j) \/ Terminal(p)
  BY <1>1, KeptSame DEF Heartbeat
<1>2. CASE ~(Missed(w, j) \/ Terminal(p))
  <2>1. jobs' = [jobs EXCEPT ![j] = q]
    BY <1>2 DEF Heartbeat, Post
  <2>2. Fine(p) /\ p \in Job
    BY DEF JobsInv, WorkerTypeOK
  <2>3. CASE Active(p)
    <3>1. p.worker = w
      BY <1>2, <2>2, <2>3, RecordAssumption DEF Missed, Fine
    <3>2. q = [p EXCEPT !.status = "running", !.worker = w, !.lease = "live"]
      BY <2>3 DEF Reduce, Applies, Effect, By, Plain
    <3>3. q.status = "running" /\ q.worker = w /\ q.lease = "live" /\ q.attempt = p.attempt
      BY <2>2, <3>2 DEF Job
    <3>4. Fine(q) /\ Kept(p, q)
      BY <1>2, <2>2, <3>1, <3>3 DEF Fine, Kept, Active, Terminal
    <3> QED
      BY <2>1, <3>4, KeptOne
  <2>4. CASE ~Active(p)
    <3>1. q = p
      BY <2>4 DEF Reduce, Applies, By, Plain
    <3>2. Kept(p, q)
      BY <3>1, <2>4 DEF Kept
    <3> QED
      BY <2>1, <2>2, <3>1, <3>2, KeptOne
  <2> QED
    BY <2>3, <2>4
<1> QED
  BY <1>1, <1>2

(* A job that is completed is kept: it is finished. *)
LEMMA KeptCompleted ==
  ASSUME JobsInv, WorkerTypeOK, NEW j \in Jobs, NEW w, NEW v,
         Report(w, j, By("completed", v))
  PROVE  KeptAll(jobs, jobs')
<1> DEFINE p == jobs[j]
           q == Reduce(p, By("completed", v))
<1>1. CASE Missed(w, j) \/ Terminal(p)
  BY <1>1, KeptSame DEF Report
<1>2. CASE ~(Missed(w, j) \/ Terminal(p))
  <2>1. jobs' = [jobs EXCEPT ![j] = q]
    BY <1>2 DEF Report, Post
  <2>2. Fine(p) /\ p \in Job
    BY DEF JobsInv, WorkerTypeOK
  <2>3. CASE Active(p)
    <3>1. q = [p EXCEPT !.status = "completed", !.worker = v, !.lease = "none"]
      BY <2>3 DEF Reduce, Applies, Effect, By, Plain
    <3>2. q.status = "completed" /\ q.attempt = p.attempt
      BY <2>2, <3>1 DEF Job
    <3>3. Fine(q) /\ Kept(p, q)
      BY <2>2, <3>2 DEF Fine, Kept, Active, Terminal
    <3> QED
      BY <2>1, <3>3, KeptOne
  <2>4. CASE ~Active(p)
    <3>1. q = p
      BY <2>4 DEF Reduce, Applies, By, Plain
    <3>2. Kept(p, q)
      BY <3>1, <2>4 DEF Kept
    <3> QED
      BY <2>1, <2>2, <3>1, <3>2, KeptOne
  <2> QED
    BY <2>3, <2>4
<1> QED
  BY <1>1, <1>2

(* So is one that is canceled. *)
LEMMA KeptCanceled ==
  ASSUME JobsInv, WorkerTypeOK, NEW j \in Jobs, Post(j, Plain("canceled"))
  PROVE  KeptAll(jobs, jobs')
<1> DEFINE p == jobs[j]
           q == Reduce(p, Plain("canceled"))
<1>1. jobs' = [jobs EXCEPT ![j] = q]
  BY DEF Post
<1>2. Fine(p) /\ p \in Job
  BY DEF JobsInv, WorkerTypeOK
<1>3. CASE Terminal(p)
  <2>1. q = p
    BY <1>3 DEF Reduce, Applies, Plain
  <2>2. Kept(p, q)
    BY <2>1 DEF Kept
  <2> QED
    BY <1>1, <1>2, <2>1, <2>2, KeptOne
<1>4. CASE ~Terminal(p)
  <2>1. q = [p EXCEPT !.status = "canceled", !.lease = "none", !.abort = TRUE]
    BY <1>4 DEF Reduce, Applies, Effect, Plain
  <2>2. q.status = "canceled" /\ q.attempt = p.attempt
    BY <1>2, <2>1 DEF Job
  <2>3. Fine(q) /\ Kept(p, q)
    BY <1>2, <2>2 DEF Fine, Kept, Active, Terminal
  <2> QED
    BY <1>1, <2>3, KeptOne
<1> QED
  BY <1>3, <1>4

(* A run that goes to a step other than the last ones lives on as it was. *)
LEMMA GotoGoesOn ==
  ASSUME WorkerTypeOK, NEW r \in Runs, Working(runs[r]),
         NEW step \in Steps \ {"none", "done"}, Goto(r, step)
  PROVE  GoesOn(runs, runs') /\ SameRuns(runs, runs')
<1>1. runs'[r].at = step /\ runs'[r].worker = runs[r].worker
  BY DEF WorkerTypeOK, Run, Goto
<1>2. ASSUME NEW s \in Runs, s # r PROVE runs'[s] = runs[s]
  BY <1>2 DEF WorkerTypeOK, Goto
<1> QED
  BY <1>1, <1>2 DEF GoesOn, SameRuns, Living, Working

(* A run that ends does not live on; the others do. *)
LEMMA EndRunGoesOn ==
  ASSUME WorkerTypeOK, NEW r \in Runs, EndRun(r)
  PROVE  GoesOn(runs, runs')
<1>1. ~Living(runs'[r])
  BY DEF WorkerTypeOK, EndRun, Over, NoRun, Living
<1>2. ASSUME NEW s \in Runs, s # r PROVE runs'[s] = runs[s]
  BY <1>2 DEF WorkerTypeOK, EndRun
<1> QED
  BY <1>1, <1>2 DEF GoesOn, Living, Working

(* Two runs of one job are not at work at once. *)
LEMMA OneRun ==
  ASSUME RunsInv, late = 0, NEW r \in Runs, NEW s \in Runs, Working(runs[r]), Working(runs[s]),
         JobOf(r) = JobOf(s)
  PROVE  r = s
<1>1. r[2] = jobs[JobOf(r)].attempt /\ s[2] = jobs[JobOf(s)].attempt
  BY DEF RunsInv, Owns
<1> QED
  BY <1>1, RunIs

(* A run that ends frees its slot. *)
LEMMA EndRunSlots ==
  ASSUME WorkerTypeOK, RunnersInv, SlotsInv, NEW r \in Runs, Living(runs[r]), EndRun(r),
         UNCHANGED overlap
  PROVE  SlotsInv'
<1> SUFFICES ASSUME ~overlap, NEW w \in Workers PROVE Counted(runs', active', w)
  BY DEF SlotsInv
<1> DEFINE R == RunsAt(runs, w)
<1>1. Counted(runs, active, w)
  BY DEF SlotsInv
<1>2. ~Living(runs'[r]) /\ \A s \in Runs : s # r => runs'[s] = runs[s]
  BY DEF WorkerTypeOK, EndRun, Over, NoRun, Living
<1>3. CASE runs[r].worker # w
  <2>1. RunsAt(runs', w) = R
    BY <1>2, <1>3 DEF RunsAt
  <2>2. active'[w] = active[w]
    BY <1>3 DEF EndRun, WorkerTypeOK
  <2> QED
    BY <1>1, <2>1, <2>2 DEF Counted
<1>4. CASE runs[r].worker = w
  <2>1. RunsAt(runs', w) = R \ {r} /\ r \in R
    BY <1>2, <1>4 DEF RunsAt
  <2>2. active'[w] = active[w] \ {JobOf(r)}
    BY <1>4 DEF EndRun, WorkerTypeOK
  <2>3. JobOf(r) \in active[w]
    BY <1>1, <2>1 DEF Counted
  <2>4. \A s \in R \ {r} : JobOf(s) # JobOf(r)
    BY <1>1, <2>1 DEF Counted
  <2>5. active'[w] = {JobOf(s) : s \in R \ {r}}
    BY <1>1, <2>2, <2>4 DEF Counted
  <2>6. IsFiniteSet(R) /\ IsFiniteSet(active[w]) /\ Cardinality(R) = Cardinality(active[w])
          /\ Cardinality(active[w]) <= Concurrency
    BY <1>1 DEF Counted
  <2>7. IsFiniteSet(R \ {r}) /\ Cardinality(R \ {r}) = Cardinality(R) - 1
    BY <2>1, <2>6, FS_RemoveElement
  <2>8. IsFiniteSet(active'[w]) /\ Cardinality(active'[w]) = Cardinality(active[w]) - 1
    BY <2>2, <2>3, <2>6, FS_RemoveElement
  <2>9. Cardinality(active[w]) \in Nat
    BY <2>6, FS_CardinalityType
  <2>10. Cardinality(active'[w]) <= Concurrency
    BY <2>6, <2>8, <2>9, WorkerAssumption
  <2> QED
    BY <1>1, <2>1, <2>5, <2>6, <2>7, <2>8, <2>10 DEF Counted
<1> QED
  BY <1>3, <1>4

(* The ledger, and the slots. *)
RunnerInv == LedgerInv /\ SlotsInv
IInv == TypeParts /\ RunnerInv

(* A run ends, and no other loses its job. *)
LEMMA EndKept ==
  ASSUME WorkerTypeOK, RunnerInv, NEW r \in Runs, Living(runs[r]), EndRun(r),
         KeptAll(jobs, jobs'), UNCHANGED <<overlap, late>>
  PROVE  RunnerInv'
<1>1. LedgerInv'
  BY KeptInv, EndRunGoesOn DEF RunnerInv
<1>2. SlotsInv'
  BY EndRunSlots DEF RunnerInv, LedgerInv
<1> QED
  BY <1>1, <1>2 DEF RunnerInv

(* A run goes on, and none loses its job. *)
LEMMA GotoKept ==
  ASSUME WorkerTypeOK, RunnerInv, NEW r \in Runs, Working(runs[r]),
         NEW step \in Steps \ {"none", "done"}, Goto(r, step), KeptAll(jobs, jobs'),
         UNCHANGED <<active, overlap, late>>
  PROVE  RunnerInv'
<1>1. LedgerInv'
  BY KeptInv, GotoGoesOn DEF RunnerInv
<1>2. SlotsInv'
  BY SameSlots, GotoGoesOn DEF RunnerInv
<1> QED
  BY <1>1, <1>2 DEF RunnerInv

(* A job changes, and no run loses it. *)
LEMMA JobKept ==
  ASSUME RunnerInv, KeptAll(jobs, jobs'), UNCHANGED <<runs, active, overlap>>,
         late' = 0 => late = 0
  PROVE  RunnerInv'
<1>1. GoesOn(runs, runs') /\ SameRuns(runs, runs')
  BY DEF GoesOn, SameRuns
<1> QED
  BY <1>1, KeptInv, SameSlots DEF RunnerInv

(* A run that failed gives its job back: no other run was at work on it. *)
LEMMA FailKept ==
  ASSUME WorkerTypeOK, RunnerInv, NEW r \in Runs, Working(runs[r]), runs[r].worker \in Workers,
         Goto(r, "after"), Report(runs[r].worker, JobOf(r), Failed(runs[r].worker, MayRetry(r))),
         UNCHANGED <<active, overlap, late>>
  PROVE  RunnerInv'
<1> DEFINE j == JobOf(r)
           w == runs[r].worker
           p == jobs[j]
           again == MayRetry(r)
           q == Reduce(p, Failed(w, again))
<1>0. j \in Jobs /\ p \in Job /\ Fine(p)
  BY RunJob DEF WorkerTypeOK, RunnerInv, LedgerInv, JobsInv
<1>1. CASE UNCHANGED jobs
  BY <1>1, KeptSame, GotoKept DEF RunnerInv, LedgerInv, Steps
<1>2. CASE ~UNCHANGED jobs
  <2>1. jobs' = [jobs EXCEPT ![j] = q]
    BY <1>2 DEF Report, Post
  <2>2. Fine(q) /\ q.attempt = p.attempt
    <3>1. CASE ~Active(p)
      BY <1>0, <3>1 DEF Reduce, Applies, Failed, Plain
    <3>2. CASE Active(p)
      <4>1. q = [p EXCEPT !.status = IF again THEN "queued" ELSE "failed",
                          !.lease = "none", !.worker = w]
        BY <3>2 DEF Reduce, Applies, Effect, Release, Failed, Plain
      <4>2. q.attempt = p.attempt /\ q.status = IF again THEN "queued" ELSE "failed"
        BY <1>0, <4>1 DEF Job
      <4>3. again => p.attempt < MaxAttempts
        BY DEF MayRetry
      <4> QED
        BY <1>0, <4>2, <4>3 DEF Fine, Active
    <3> QED
      BY <3>1, <3>2
  <2>3. JobsInv'
    BY <1>0, <2>1, <2>2 DEF RunnerInv, LedgerInv, JobsInv, WorkerTypeOK
  <2>4. \A s \in Runs : Working(runs'[s]) => s # r /\ runs'[s] = runs[s]
    BY DEF WorkerTypeOK, Goto, Run, Working
  <2>g. GoesOn(runs, runs') /\ SameRuns(runs, runs')
    BY GotoGoesOn DEF Steps
  <2>k. \A k \in Jobs : jobs'[k].attempt = jobs[k].attempt
    BY <1>0, <2>1, <2>2 DEF WorkerTypeOK
  <2>5. RunnersInv'
    BY <2>g, <2>k, RunJob DEF RunnerInv, LedgerInv, RunnersInv, GoesOn
  <2>6. RunsInv'
    <3> SUFFICES ASSUME late = 0, NEW s \in Runs, Working(runs'[s])
                 PROVE  Owns(jobs'[JobOf(s)], runs'[s], s[2])
      BY DEF RunsInv
    <3>1. s # r /\ runs'[s] = runs[s]
      BY <2>4
    <3>2. JobOf(s) # j
      BY <3>1, OneRun DEF RunnerInv, LedgerInv
    <3>3. jobs'[JobOf(s)] = jobs[JobOf(s)]
      BY <2>1, <3>2, RunJob DEF WorkerTypeOK
    <3> QED
      BY <3>1, <3>3 DEF RunnerInv, LedgerInv, RunsInv
  <2>7. SlotsInv'
    BY <2>g, SameSlots DEF RunnerInv
  <2> QED
    BY <2>3, <2>5, <2>6, <2>7 DEF RunnerInv, LedgerInv
<1> QED
  BY <1>1, <1>2

(* The steps of a run keep the invariant. *)
LEMMA RunStepKept ==
  ASSUME WorkerTypeOK, RunnerInv, NEW r \in Runs, RunStep(r) PROVE RunnerInv'
<1> DEFINE w == runs[r].worker
           j == JobOf(r)
<1>0. JobsInv /\ RunnersInv /\ RunsInv /\ SlotsInv /\ j \in Jobs
  BY RunJob DEF RunnerInv, LedgerInv
<1>1. /\ Living(runs[r]) /\ w \in Workers
      /\ Working(runs[r]) \/ RunReturns(r)
  BY <1>0 DEF RunStep, PreAbort, Cancel, Beat, PostAbort, ReportOutcome, RunReturns,
              At, Living, Working, RunnersInv
<1>w. runs[r].at # "after" => Working(runs[r])
  BY <1>1 DEF Living, Working
<1>2. CASE PreAbort(r)
  <2>1. KeptAll(jobs, jobs')
    BY <1>0, <1>2, KeptSame DEF PreAbort
  <2>2. PICK step \in {"cancel", "beat"} : Goto(r, step)
    BY <1>2 DEF PreAbort
  <2> QED
    BY <1>w, <1>2, <2>1, <2>2, GotoKept DEF PreAbort, Steps, At
<1>3. CASE Cancel(r)
  BY <1>0, <1>w, <1>3, KeptCanceled, GotoKept DEF Cancel, Steps, At
<1>4. CASE Beat(r)
  <2>1. KeptAll(jobs, jobs')
    BY <1>0, <1>1, <1>4, KeptHeartbeat DEF Beat
  <2>2. CASE Terminal(jobs[j])
    BY <1>1, <1>4, <2>1, <2>2, EndKept DEF Beat
  <2>3. CASE ~Terminal(jobs[j])
    <3>1. PICK step \in {"grace", "handling"} : Goto(r, step)
      BY <1>4, <2>3 DEF Beat
    <3> QED
      BY <1>w, <1>4, <2>1, <2>3, <3>1, GotoKept DEF Beat, Steps, At
  <2> QED
    BY <2>2, <2>3
<1>5. CASE PostAbort(r)
  <2>1. KeptAll(jobs, jobs')
    BY <1>0, <1>5, KeptSame DEF PostAbort
  <2>2. PICK step \in {"cancel", "report"} : Goto(r, step)
    BY <1>5 DEF PostAbort
  <2> QED
    BY <1>w, <1>5, <2>1, <2>2, GotoKept DEF PostAbort, Steps, At
<1>6. CASE ReportOutcome(r)
  <2>0. Working(runs[r]) /\ Goto(r, "after") /\ UNCHANGED <<active, overlap, late>>
    BY <1>w, <1>6 DEF ReportOutcome, At
  <2>1. CASE runs[r].result = "ok"
    <3>1. Report(w, j, By("completed", w))
      BY <1>6, <2>1 DEF ReportOutcome
    <3>2. KeptAll(jobs, jobs')
      BY <1>0, <3>1, KeptCompleted
    <3> QED
      BY <2>0, <3>2, GotoKept DEF Steps
  <2>2. CASE runs[r].result # "ok"
    <3>1. Report(w, j, Failed(w, MayRetry(r)))
      BY <1>6, <2>2 DEF ReportOutcome
    <3> QED
      BY <1>1, <2>0, <3>1, FailKept
  <2> QED
    BY <2>1, <2>2
<1>7. CASE RunReturns(r)
  <2>1. KeptAll(jobs, jobs')
    BY <1>0, <1>7, KeptSame DEF RunReturns
  <2> QED
    BY <1>1, <1>7, <2>1, EndKept DEF RunReturns
<1> QED
  BY <1>2, <1>3, <1>4, <1>5, <1>6, <1>7 DEF RunStep

(* A lease: no run lives on a queued job, and its worker has a slot left.  *)
LEMMA LeaseKept ==
  ASSUME WorkerTypeOK, RunnerInv, NEW w \in Workers, Lease(w) PROVE RunnerInv'
<1>0. JobsInv /\ RunnersInv /\ RunsInv /\ SlotsInv
  BY DEF RunnerInv, LedgerInv
<1> PICK j \in Jobs :
      LET n == jobs[j].attempt + 1 IN
      /\ HasSlot(w) /\ ShouldQueue(jobs[j])
      /\ Post(j, Leased(w, n))
      /\ runs' = [runs EXCEPT ![<<j, n>>] = [NoRun EXCEPT !.at = "preAbort", !.worker = w]]
      /\ active' = [active EXCEPT ![w] = @ \cup {j}]
      /\ overlap' = (overlap \/ j \in active[w])
      /\ UNCHANGED <<signals, leases, up, startup, crashes, late>>
  BY DEF Lease
<1> DEFINE p == jobs[j]
           n == p.attempt + 1
           r == <<j, n>>
           q == Reduce(p, Leased(w, n))
<1>1. p \in Job /\ Fine(p) /\ p.status = "queued" /\ n \in Nat
  BY <1>0 DEF WorkerTypeOK, JobsInv, ShouldQueue, Job
<1>2. n \in 1..MaxAttempts /\ r \in Runs /\ JobOf(r) = j /\ r[2] = n
  <2>1. p.attempt \in Nat /\ p.attempt < MaxAttempts
    BY <1>1 DEF Fine, Job
  <2>2. n \in 1..MaxAttempts
    BY <2>1, WorkerAssumption
  <2> QED
    BY <2>2 DEF Runs, JobOf
<1>3. q.status = "leased" /\ q.attempt = n /\ q.worker = w /\ q.lease = "live"
  <2>1. q = [p EXCEPT !.status = "leased", !.attempt = n, !.worker = w, !.lease = "live"]
    BY <1>1 DEF Reduce, Applies, Effect, Leased, Plain
  <2> QED
    BY <1>1, <2>1 DEF Job
<1>4. Fine(q) /\ jobs' = [jobs EXCEPT ![j] = q]
  BY <1>2, <1>3, WorkerAssumption DEF Fine, Active, Post
<1>5. JobsInv'
  BY <1>0, <1>4 DEF JobsInv, WorkerTypeOK
<1>6. runs'[r].at = "preAbort" /\ runs'[r].worker = w /\ Living(runs'[r])
        /\ \A s \in Runs : s # r => runs'[s] = runs[s]
  BY <1>2 DEF WorkerTypeOK, NoRun, Living
<1>a. \A k \in Jobs : jobs'[k].attempt >= jobs[k].attempt
  BY <1>1, <1>3, <1>4 DEF WorkerTypeOK, Job
<1>b. jobs'[j].attempt = n
  BY <1>3, <1>4 DEF WorkerTypeOK
<1>7. RunnersInv'
  <2> SUFFICES ASSUME NEW s \in Runs, Living(runs'[s])
               PROVE  runs'[s].worker \in Workers /\ s[2] <= jobs'[JobOf(s)].attempt
    BY DEF RunnersInv
  <2>1. CASE s = r
    BY <1>1, <1>2, <1>6, <1>b, <2>1
  <2>2. CASE s # r
    <3>1. runs[s].worker \in Workers /\ s[2] <= jobs[JobOf(s)].attempt /\ runs'[s] = runs[s]
      BY <1>0, <1>6, <2>2 DEF RunnersInv
    <3>2. /\ JobOf(s) \in Jobs /\ s[2] \in Nat /\ jobs[JobOf(s)].attempt \in Nat
          /\ jobs'[JobOf(s)].attempt \in Nat
      BY <1>1, <1>4, <1>3, RunJob DEF WorkerTypeOK, Job
    <3> QED
      BY <1>a, <3>1, <3>2
  <2> QED
    BY <2>1, <2>2
<1>8. ASSUME late = 0, NEW s \in Runs, Working(runs[s]) PROVE JobOf(s) # j
  BY <1>0, <1>1, <1>8 DEF RunsInv, Owns, Active, Terminal
<1>9. RunsInv'
  <2> SUFFICES ASSUME late = 0, NEW s \in Runs, Working(runs'[s])
               PROVE  Owns(jobs'[JobOf(s)], runs'[s], s[2])
    BY DEF RunsInv
  <2>1. CASE s = r
    <3>1. jobs'[j] = q
      BY <1>4 DEF WorkerTypeOK
    <3> QED
      BY <1>2, <1>3, <1>6, <2>1, <3>1 DEF Owns, Active
  <2>2. CASE s # r
    <3>1. runs'[s] = runs[s] /\ JobOf(s) # j
      BY <1>6, <1>8, <2>2
    <3>2. jobs'[JobOf(s)] = jobs[JobOf(s)]
      BY <1>4, <3>1, RunJob DEF WorkerTypeOK
    <3> QED
      BY <1>0, <3>1, <3>2 DEF RunsInv
  <2> QED
    BY <2>1, <2>2
<1>10. SlotsInv'
  <2>o. overlap' = FALSE => overlap = FALSE /\ j \notin active[w]
    BY Zenon DEF WorkerTypeOK
  <2> SUFFICES ASSUME overlap = FALSE, j \notin active[w], NEW v \in Workers
               PROVE  Counted(runs', active', v)
    BY <2>o DEF SlotsInv
  <2> DEFINE R == RunsAt(runs, v)
  <2>1. Counted(runs, active, v)
    BY <1>0 DEF SlotsInv
  <2>2. ~Living(runs[r])
    BY <1>0, <1>1, <1>2 DEF RunnersInv, Job
  <2>3. CASE v # w
    <3>1. RunsAt(runs', v) = R
      BY <1>2, <1>6, <2>2, <2>3 DEF RunsAt
    <3>2. active'[v] = active[v]
      BY <2>3 DEF WorkerTypeOK
    <3> QED
      BY <2>1, <3>1, <3>2 DEF Counted
  <2>4. CASE v = w
    <3>1. RunsAt(runs', v) = R \cup {r} /\ r \notin R
      BY <1>2, <1>6, <2>2, <2>4 DEF RunsAt
    <3>2. active'[v] = active[v] \cup {j}
      BY <2>4 DEF WorkerTypeOK
    <3>3. active[v] = {JobOf(s) : s \in R}
      BY <2>1 DEF Counted
    <3>4. j \notin active[v]
      BY <2>4
    <3>5. active'[v] = {JobOf(s) : s \in R \cup {r}}
      BY <1>2, <3>2, <3>3
    <3>6. IsFiniteSet(R) /\ IsFiniteSet(active[v]) /\ Cardinality(R) = Cardinality(active[v])
      BY <2>1 DEF Counted
    <3>7. IsFiniteSet(R \cup {r}) /\ Cardinality(R \cup {r}) = Cardinality(R) + 1
      BY <3>1, <3>6, FS_AddElement
    <3>8. IsFiniteSet(active'[v]) /\ Cardinality(active'[v]) = Cardinality(active[v]) + 1
      BY <3>2, <3>4, <3>6, FS_AddElement
    <3>9. Cardinality(active[v]) \in Nat /\ Cardinality(active[v]) < Concurrency
      BY <2>4, <3>6, FS_CardinalityType DEF HasSlot
    <3>10. Cardinality(active'[v]) <= Concurrency
      BY <3>8, <3>9, WorkerAssumption
    <3>11. \A x, y \in R \cup {r} : JobOf(x) = JobOf(y) => x = y
      <4>1. \A x \in R : JobOf(x) # JobOf(r)
        BY <1>2, <3>3, <3>4
      <4>2. \A x, y \in R : JobOf(x) = JobOf(y) => x = y
        BY <2>1 DEF Counted
      <4> QED
        BY <4>1, <4>2
    <3> QED
      BY <3>1, <3>5, <3>6, <3>7, <3>8, <3>10, <3>11 DEF Counted
  <2> QED
    BY <2>3, <2>4
<1> QED
  BY <1>5, <1>7, <1>9, <1>10 DEF RunnerInv, LedgerInv

(* The deadline of a lease passes: unless somebody is late, no run holds it. *)
LEMMA LeasePassesKept ==
  ASSUME WorkerTypeOK, RunnerInv, NEW j \in Jobs, LeasePasses(j) PROVE RunnerInv'
<1> DEFINE p == jobs[j]
           q == Age(p)
<1>0. JobsInv /\ RunnersInv /\ RunsInv /\ SlotsInv /\ p \in Job
  BY DEF RunnerInv, LedgerInv, WorkerTypeOK
<1>1. jobs' = [jobs EXCEPT ![j] = q] /\ UNCHANGED <<runs, active>>
  BY DEF LeasePasses
<1>2. q.status = p.status /\ q.attempt = p.attempt /\ q.worker = p.worker
  BY <1>0 DEF Age, Job
<1>3. JobsInv'
  BY <1>0, <1>1, <1>2 DEF JobsInv, WorkerTypeOK, Fine, Active
<1>4. late' = 0 => late = 0 /\ ~Covered(j)
  BY DEF LeasePasses, WorkerTypeOK
<1>5. RunsInv'
  <2> SUFFICES ASSUME late = 0, ~Covered(j), NEW r \in Runs, Working(runs[r])
               PROVE  Owns(jobs'[JobOf(r)], runs[r], r[2])
    BY <1>1, <1>4 DEF RunsInv
  <2>1. Owns(jobs[JobOf(r)], runs[r], r[2])
    BY <1>0 DEF RunsInv
  <2>2. CASE JobOf(r) # j
    BY <1>1, <2>1, <2>2, RunJob DEF WorkerTypeOK
  <2>3. CASE JobOf(r) = j
    <3>1. Terminal(p)
      BY <2>1, <2>3 DEF Owns, Covered, Alive, Working, At
    <3>2. jobs'[j] = q
      BY <1>1 DEF WorkerTypeOK
    <3> QED
      BY <1>2, <2>1, <2>3, <3>1, <3>2 DEF Owns, Terminal
  <2> QED
    BY <2>2, <2>3
<1>6. RunnersInv'
  BY <1>0, <1>1, <1>2, RunJob DEF RunnersInv, WorkerTypeOK
<1>7. SlotsInv'
  BY <1>0, <1>1 DEF SlotsInv, Counted, RunsAt, LeasePasses
<1> QED
  BY <1>3, <1>5, <1>6, <1>7 DEF RunnerInv, LedgerInv

(* The steps of a job keep the invariant. *)
LEMMA JobStepKept ==
  ASSUME WorkerTypeOK, RunnerInv, NEW j \in Jobs, JobStep(j) PROVE RunnerInv'
<1> DEFINE p == jobs[j]
<1>0. JobsInv /\ p \in Job /\ Fine(p)
  BY DEF RunnerInv, LedgerInv, JobsInv, WorkerTypeOK
<1>1. CASE LeasePasses(j)
  BY <1>1, LeasePassesKept
<1>2. CASE Expire(j)
  <2> DEFINE again == p.attempt < MaxAttempts
             q == Reduce(p, Expired(again))
  <2>1. Active(p) /\ p.lease = "past" /\ jobs' = [jobs EXCEPT ![j] = q]
    BY <1>2 DEF Expire, LeasePast, Post
  <2>2. q = [p EXCEPT !.status = IF again THEN "queued" ELSE "failed",
                      !.lease = "none", !.worker = None]
    BY <2>1 DEF Reduce, Applies, Effect, Release, Expired, Plain
  <2>3. q.attempt = p.attempt /\ q.status = IF again THEN "queued" ELSE "failed"
    BY <1>0, <2>2 DEF Job
  <2>4. Fine(q) /\ Kept(p, q)
    BY <1>0, <2>1, <2>3 DEF Fine, Kept, Active, Terminal
  <2>5. KeptAll(jobs, jobs')
    BY <1>0, <2>1, <2>4, KeptOne
  <2> QED
    BY <1>2, <2>5, JobKept DEF Expire
<1>3. CASE Enqueue(j)
  <2> DEFINE q == Reduce(p, Plain("enqueued"))
  <2>1. p.status = "none" /\ jobs' = [jobs EXCEPT ![j] = q]
    BY <1>3 DEF Enqueue, Exists, Post
  <2>2. q = [NoJob EXCEPT !.status = "queued"]
    BY DEF Reduce, Applies, Effect, Plain
  <2>3. q.status = "queued" /\ q.attempt = 0
    BY <2>2 DEF NoJob
  <2>4. Fine(q) /\ Kept(p, q)
    BY <1>0, <2>1, <2>3, WorkerAssumption DEF Fine, Kept, Active, Terminal
  <2>5. KeptAll(jobs, jobs')
    BY <1>0, <2>1, <2>4, KeptOne
  <2> QED
    BY <1>3, <2>5, JobKept DEF Enqueue
<1>4. CASE SendAbort(j)
  <2>1. KeptAll(jobs, jobs')
    BY <1>0, <1>4, KeptSame DEF SendAbort
  <2> QED
    BY <1>4, <2>1, JobKept DEF SendAbort
<1>5. CASE CancelJob(j)
  <2>1. KeptAll(jobs, jobs')
    BY <1>0, <1>5, KeptCanceled DEF CancelJob
  <2> QED
    BY <1>5, <2>1, JobKept DEF CancelJob
<1> QED
  BY <1>1, <1>2, <1>3, <1>4, <1>5 DEF JobStep

(* The loops of a worker keep the invariant. *)
LEMMA TickKept ==
  ASSUME WorkerTypeOK, RunnerInv, NEW w \in Workers, NEW j \in Jobs,
         TickLease(w, j) \/ ReconcileStartupLease(w, j)
  PROVE  RunnerInv'
<1>1. KeptAll(jobs, jobs')
  BY KeptHeartbeat DEF RunnerInv, LedgerInv, TickLease, ReconcileStartupLease
<1>2. UNCHANGED <<runs, active, overlap, late>>
  BY DEF TickLease, ReconcileStartupLease
<1> QED
  BY <1>1, <1>2, JobKept

(* A process dies: its runs are gone, and its Maps. *)
LEMMA CrashKept ==
  ASSUME WorkerTypeOK, RunnerInv, NEW w \in Workers, Crash(w) PROVE RunnerInv'
<1>1. \A r \in Runs : IF Living(runs[r]) /\ runs[r].worker = w THEN ~Living(runs'[r])
                                                            /\ runs'[r].at = "done"
                                                         ELSE runs'[r] = runs[r]
  BY DEF Crash, Alive, Living, Over, NoRun
<1>2. GoesOn(runs, runs')
  BY <1>1 DEF GoesOn, Living, Working
<1>3. KeptAll(jobs, jobs')
  BY KeptSame DEF RunnerInv, LedgerInv, Crash
<1>4. UNCHANGED <<overlap, late>>
  BY DEF Crash
<1>5. LedgerInv'
  BY <1>2, <1>3, <1>4, KeptInv DEF RunnerInv
<1>6. SlotsInv'
  <2> SUFFICES ASSUME ~overlap, NEW v \in Workers PROVE Counted(runs', active', v)
    BY <1>4 DEF SlotsInv
  <2>1. Counted(runs, active, v)
    BY DEF RunnerInv, SlotsInv
  <2>2. CASE v # w
    <3>1. RunsAt(runs', v) = RunsAt(runs, v)
      BY <1>1, <2>2 DEF RunsAt
    <3>2. active'[v] = active[v]
      BY <2>2 DEF Crash, WorkerTypeOK
    <3> QED
      BY <2>1, <3>1, <3>2 DEF Counted
  <2>3. CASE v = w
    <3>1. RunsAt(runs', v) = {}
      BY <1>1, <2>3 DEF RunsAt
    <3>2. active'[v] = {}
      BY <2>3 DEF Crash, WorkerTypeOK
    <3> QED
      BY <3>1, <3>2, FS_EmptySet, WorkerAssumption DEF Counted
  <2> QED
    BY <2>2, <2>3
<1> QED
  BY <1>5, <1>6 DEF RunnerInv

(* The handler changes no job, and its run goes on. *)
LEMMA HandlerKept ==
  ASSUME WorkerTypeOK, RunnerInv, NEW r \in Runs, Handler(r) PROVE RunnerInv'
<1>1. CASE UNCHANGED <<jobs, runs, active, overlap, late>>
  <2>1. KeptAll(jobs, jobs')
    BY <1>1, KeptSame DEF RunnerInv, LedgerInv
  <2> QED
    BY <1>1, <2>1, JobKept
<1>2. CASE HandlerReturns(r)
  <2>1. PICK result \in Results : Return(r, result)
    BY <1>2 DEF HandlerReturns, Results
  <2>2. UNCHANGED <<jobs, active, overlap, late>>
    BY <2>1 DEF Return
  <2>3. KeptAll(jobs, jobs')
    BY <2>2, KeptSame DEF RunnerInv, LedgerInv
  <2>4. Living(runs[r]) /\ runs'[r].at = "postAbort" /\ runs'[r].worker = runs[r].worker
    BY <2>1 DEF Return, At, Living, WorkerTypeOK, Run
  <2>5. \A s \in Runs : s # r => runs'[s] = runs[s]
    BY <2>1 DEF Return, WorkerTypeOK
  <2>w. Working(runs[r])
    BY <2>1 DEF Return, At, Working
  <2>6. GoesOn(runs, runs') /\ SameRuns(runs, runs')
    BY <2>4, <2>5, <2>w DEF GoesOn, SameRuns, Living
  <2> QED
    BY <2>2, <2>3, <2>6, KeptInv, SameSlots DEF RunnerInv
<1>3. HandlerReturns(r) \/ UNCHANGED <<jobs, runs, active, overlap, late>>
  BY DEF Handler, Activity, WriteResult, ApplyResult, RunTaskReturns, RunTaskThrows, AbortTask,
         PullAbort, CheckRecovered, ApplyRecovered, workerVars
<1> QED
  BY <1>1, <1>2, <1>3

(* The sweep ends jobs, and loses none. *)
LEMMA SweepKept ==
  ASSUME WorkerTypeOK, RunnerInv, NEW j \in Jobs, Sweep(j) PROVE RunnerInv'
<1>1. UNCHANGED <<runs, active, overlap>>
  BY DEF Sweep, SweepJob, SweepApplies, SweepCompletes
<1>2. late' = 0 => late = 0
  BY DEF Sweep, SweepJob, SweepApplies, SweepCompletes, InTime, WorkerTypeOK
<1>3. KeptAll(jobs, jobs')
  <2>1. CASE UNCHANGED jobs
    BY <2>1, KeptSame DEF RunnerInv, LedgerInv
  <2>2. CASE Post(j, Plain("canceled"))
    BY <2>2, KeptCanceled DEF RunnerInv, LedgerInv
  <2>3. CASE Report(sweep[j].owner, j, By("completed", sweep[j].owner))
    BY <2>3, KeptCompleted DEF RunnerInv, LedgerInv
  <2> QED
    BY <2>1, <2>2, <2>3 DEF Sweep, SweepJob, SweepApplies, SweepCompletes
<1> QED
  BY <1>1, <1>2, <1>3, JobKept

-----------------------------------------------------------------------------
(* The invariant holds at first, *)
LEMMA InitInv == ASSUME Init PROVE TypeParts /\ RunnerInv
<1>1. WorkerTypeOK
  <2>1. overlap \in BOOLEAN
    BY DEF Init, WorkerInit
  <2>2. runs \in [Runs -> Run]
    BY DEF Init, WorkerInit, NoRun, Run, Steps, Results
  <2>3. jobs \in [Jobs -> Job]
    BY NoJobType DEF Init, WorkerInit
  <2>4. /\ signals \in [Jobs -> {"none", "open", "consumed"}]
        /\ active \in [Workers -> SUBSET Jobs] /\ leases \in [Workers -> SUBSET Jobs]
        /\ up \in [Workers -> BOOLEAN] /\ startup \in [Workers -> SUBSET Jobs]
    BY DEF Init, WorkerInit
  <2>5. crashes \in 0..MaxCrashes /\ late \in 0..MaxLate
    BY WorkerAssumption DEF Init, WorkerInit
  <2> QED
    BY <2>1, <2>2, <2>3, <2>4, <2>5 DEF WorkerTypeOK
<1>2. Act!ActivityTypeOK
  BY DEF Init, Act!ActivityInit, Act!ActivityTypeOK, Act!NoRow, Act!Row, Act!NoCallYet, Act!Call
<1>3. TaskTypeOK /\ SweepTypeOK
  BY DEF Init, TaskTypeOK, SweepTypeOK, NoSweep
<1>4. JobsInv
  BY WorkerAssumption DEF Init, WorkerInit, JobsInv, Fine, NoJob, Active
<1>5. \A r \in Runs : ~Living(runs[r])
  BY DEF Init, WorkerInit, NoRun, Living
<1>6. RunnersInv /\ RunsInv
  BY <1>5 DEF RunnersInv, RunsInv, Living, Working
<1>7. SlotsInv
  <2> SUFFICES ASSUME NEW w \in Workers PROVE Counted(runs, active, w)
    BY DEF SlotsInv
  <2>1. RunsAt(runs, w) = {} /\ active[w] = {}
    BY <1>5 DEF RunsAt, Init, WorkerInit
  <2> QED
    BY <2>1, FS_EmptySet, WorkerAssumption DEF Counted
<1> QED
  BY <1>1, <1>2, <1>3, <1>4, <1>6, <1>7 DEF TypeParts, RunnerInv, LedgerInv

(* and every step keeps it. *)
LEMMA NextInv == ASSUME TypeParts, RunnerInv, [Next]_vars PROVE TypeParts' /\ RunnerInv'
<1>0. WorkerTypeOK /\ RunnersInv
  BY DEF TypeParts, RunnerInv, LedgerInv
<1>1. TypeParts'
  BY <1>0, TypeNext
<1>2. CASE UNCHANGED vars
  <2>1. UNCHANGED <<jobs, runs, active, overlap, late>>
    BY <1>2 DEF vars, workerVars
  <2>2. KeptAll(jobs, jobs')
    BY <2>1, KeptSame DEF RunnerInv, LedgerInv
  <2> QED
    BY <1>1, <2>1, <2>2, JobKept
<1>3. ASSUME NEW w \in Workers, WorkerOnly(w) PROVE RunnerInv'
  BY <1>0, <1>3, LeaseKept, TickKept DEF WorkerOnly
<1>4. ASSUME NEW w \in Workers, StartProcess(w) PROVE RunnerInv'
  <2>1. UNCHANGED <<jobs, runs, active, overlap, late>>
    BY <1>4 DEF StartProcess, Restart
  <2>2. KeptAll(jobs, jobs')
    BY <2>1, KeptSame DEF RunnerInv, LedgerInv
  <2> QED
    BY <2>1, <2>2, JobKept
<1>5. ASSUME NEW w \in Workers, Die(w) PROVE RunnerInv'
  BY <1>0, <1>5, CrashKept DEF Die
<1> QED
  BY <1>0, <1>1, <1>2, <1>3, <1>4, <1>5, RunStepKept, HandlerKept, JobStepKept, SweepKept
     DEF Next

(* It holds of every behaviour. *)
LEMMA Invariance == Spec => []IInv
<1>1. Init => IInv
  BY InitInv DEF IInv
<1>2. IInv /\ [Next]_vars => IInv'
  BY NextInv DEF IInv
<1> QED
  BY <1>1, <1>2, PTL DEF Spec

(* Types: the queue, the workers with their Maps, the rows and the files of *)
(* the activities, the tasks and the sweep stay what they are declared to  *)
(* be, whatever crashes and however late a worker is.                      *)
THEOREM TypeCorrect == Spec => []TypeOK
<1>1. TypeParts => TypeOK
  BY TypeIsParts
<1> QED
  BY <1>1, Invariance, PTL DEF IInv

(* As long as nobody was late, the handler of a job (job-worker.ts,         *)
(* runLeased) is executed by one run at a time.                            *)
THEOREM Exclusion == Spec => []HandlersExclusive
<1>1. RunnerInv => HandlersExclusive
  BY OneRun DEF RunnerInv, LedgerInv, HandlersExclusive, At, Working
<1> QED
  BY <1>1, Invariance, PTL DEF IInv

(* As long as no worker leased a job it still had a run of, the Map active  *)
(* of a worker, keyed by job id, counts its runs, and they are never more  *)
(* than the concurrency limit (job-worker.ts, tick).                       *)
THEOREM Slots == Spec => []SlotsHeld
<1>1. RunnerInv => SlotsHeld
  <2> SUFFICES ASSUME RunnerInv, ~overlap, NEW w \in Workers
               PROVE  /\ active[w] = {JobOf(r) : r \in RunsOf(w)}
                      /\ Cardinality(RunsOf(w)) <= Concurrency
    BY DEF SlotsHeld
  <2>1. RunsOf(w) = RunsAt(runs, w)
    BY DEF RunsOf, RunsAt, Alive, Living
  <2> QED
    BY <2>1 DEF RunnerInv, SlotsInv, Counted
<1> QED
  BY <1>1, Invariance, PTL DEF IInv

(* A worker with one slot leases a job only when its Map active is empty:   *)
(* then there is no such lease, however late a worker is, and the Map       *)
(* always counts its runs.                                                 *)
THEOREM OneSlotCounts ==
  ASSUME Concurrency = 1 PROVE Spec => [](~overlap /\ SlotsHeld)
<1> DEFINE N == overlap = FALSE
<1>1. Init => N
  BY DEF Init, WorkerInit
<1>2. IInv /\ N /\ [Next]_vars => N'
  <2> SUFFICES ASSUME IInv, N, [Next]_vars PROVE N'
    OBVIOUS
  <2>0. SlotsInv
    BY DEF IInv, RunnerInv
  <2>1. ASSUME NEW w \in Workers, Lease(w) PROVE N'
    <3> PICK j \in Jobs : HasSlot(w) /\ overlap' = (overlap \/ j \in active[w])
      BY <2>1 DEF Lease
    <3>1. IsFiniteSet(active[w]) /\ Cardinality(active[w]) < 1
      BY <2>0 DEF SlotsInv, Counted, HasSlot
    <3>2. Cardinality(active[w]) \in Nat
      BY <3>1, FS_CardinalityType
    <3>3. active[w] = {}
      BY <3>1, <3>2, FS_EmptySet
    <3> QED
      BY <3>3, Zenon
  <2>2. ASSUME UNCHANGED overlap PROVE N'
    BY <2>2
  <2>3. ASSUME NEW r \in Runs, Handler(r) PROVE UNCHANGED overlap
    BY <2>3 DEF Handler, Activity, WriteResult, ApplyResult, RunTaskReturns, RunTaskThrows,
         AbortTask, PullAbort, CheckRecovered, ApplyRecovered, HandlerReturns, Return, workerVars
  <2>4. ASSUME NEW r \in Runs, RunStep(r) PROVE UNCHANGED overlap
    BY <2>4 DEF RunStep, PreAbort, Cancel, Beat, PostAbort, ReportOutcome, RunReturns
  <2>5. ASSUME NEW j \in Jobs, JobStep(j) \/ Sweep(j) PROVE UNCHANGED overlap
    BY <2>5 DEF JobStep, LeasePasses, Expire, Enqueue, SendAbort, CancelJob, Sweep, SweepJob,
         SweepApplies, SweepCompletes
  <2>6. ASSUME NEW w \in Workers, WorkerOnly(w) \/ StartProcess(w) \/ Die(w), ~Lease(w)
        PROVE  UNCHANGED overlap
    BY <2>6 DEF WorkerOnly, TickLease, ReconcileStartupLease, StartProcess, Restart, Die, Crash
  <2> QED
    BY <2>1, <2>2, <2>3, <2>4, <2>5, <2>6 DEF Next, vars, workerVars
<1>3. N => ~overlap
  OBVIOUS
<1> QED
  BY <1>1, <1>2, <1>3, Invariance, Slots, PTL DEF Spec

-----------------------------------------------------------------------------
(* A call of the activity is made by a run in its handler; and when it is   *)
(* about to run the work, there is no result on disk: the handler is alone.*)
CallsInv == late = 0 => \A r \in Runs :
  /\ calls[r].at \notin {"idle", "lost"} => At(r, "handling")
  /\ Act!In(r, "begin") => files[JobOf(r)] = None

(* It holds at first, *)
LEMMA CallsInit == ASSUME Init PROVE CallsInv
  BY DEF Init, Act!ActivityInit, Act!NoCallYet, CallsInv, Act!In

(* with the steps that only move runs that are not in a handler, *)
LEMMA CallsSame ==
  ASSUME CallsInv, UNCHANGED <<calls, files>>, late' = 0 => late = 0,
         \A r \in Runs : At(r, "handling") => runs'[r].at = "handling"
  PROVE  CallsInv'
  BY DEF CallsInv, At, Act!In

(* and with those of the handler. *)
LEMMA CallsHandler == ASSUME IInv, CallsInv, NEW r \in Runs, Handler(r) PROVE CallsInv'
<1>0. WorkerTypeOK /\ Act!ActivityTypeOK /\ RunsInv
  BY DEF IInv, TypeParts, RunnerInv, LedgerInv
<1>l. late' = late
  BY DEF Handler, Activity, WriteResult, ApplyResult, RunTaskReturns, RunTaskThrows, AbortTask,
         PullAbort, CheckRecovered, ApplyRecovered, HandlerReturns, Return, workerVars
<1> SUFFICES ASSUME late = 0, NEW s \in Runs
             PROVE  /\ calls'[s].at \notin {"idle", "lost"} => runs'[s].at = "handling"
                    /\ calls'[s].at = "begin" => files'[JobOf(s)] = None
  BY <1>l DEF CallsInv, At, Act!In
<1>s. /\ calls[s].at \notin {"idle", "lost"} => runs[s].at = "handling"
      /\ calls[s].at = "begin" => files[JobOf(s)] = None
  BY DEF CallsInv, At, Act!In
<1>1. CASE Activity(r)
  <2>1. runs[r].at = "handling" /\ UNCHANGED <<runs, files>>
    BY <1>1 DEF Activity, At, workerVars, Act!Lookup, Act!Recover, Act!RecordRecovered,
                Act!Begin, Act!Complete, Act!Fail, Act!Stamp
  <2>2. CASE s # r
    <3>1. calls'[s] = calls[s]
      BY <1>0, <1>1, <2>2 DEF Activity, Act!ActivityTypeOK, Act!Move, Act!MoveWith,
           Act!MoveStamped, Act!Lookup, Act!Recover, Act!RecordRecovered, Act!Begin,
           Act!Complete, Act!Fail, Act!Stamp
    <3> QED
      BY <1>s, <2>1, <3>1
  <2>3. CASE s = r
    <3>1. ASSUME calls'[r].at = "begin" PROVE files[JobOf(r)] = None
      <4>1. ASSUME NEW at \in CallAts \ {"begin"}, Act!Move(r, at) PROVE FALSE
        BY <1>0, <3>1, <4>1 DEF Act!Move, Act!ActivityTypeOK, Act!Call
      <4>2. ASSUME NEW at \in CallAts \ {"begin"}, NEW output, Act!MoveWith(r, at, output)
            PROVE  FALSE
        BY <1>0, <3>1, <4>2 DEF Act!MoveWith, Act!ActivityTypeOK, Act!Call
      <4>3. ASSUME NEW at \in CallAts \ {"begin"}, Act!MoveStamped(r, at) PROVE FALSE
        BY <1>0, <3>1, <4>3 DEF Act!MoveStamped, Act!ActivityTypeOK, Act!Call
      <4>4. Act!Recover(r)
        BY <1>1, <4>1, <4>2, <4>3 DEF Activity, CallAts, Act!Lookup, Act!RecordRecovered,
             Act!Begin, Act!Complete, Act!Fail, Act!Stamp
      <4> QED
        BY <4>2, <4>4 DEF Act!Recover, CallAts
    <3> QED
      BY <2>1, <2>3, <3>1
  <2> QED
    BY <2>2, <2>3
<1>2. CASE WriteResult(r)
  <2>1. UNCHANGED <<runs, calls>> /\ runs[r].at = "handling" /\ calls[r].at = "work"
    BY <1>2 DEF WriteResult, Act!Persist, Act!In, At, workerVars
  <2>2. ASSUME calls[s].at = "begin" PROVE JobOf(s) # JobOf(r)
    BY <1>0, <1>s, <2>1, <2>2, OneRun DEF Working
  <2>3. JobOf(s) # JobOf(r) => files'[JobOf(s)] = files[JobOf(s)]
    BY <1>0, <1>2, RunJob DEF WriteResult, Act!Persist, Act!ActivityTypeOK
  <2> QED
    BY <1>s, <2>1, <2>2, <2>3
<1>3. CASE HandlerReturns(r)
  <2>1. PICK result \in Results : Return(r, result)
    BY <1>3 DEF HandlerReturns, Results
  <2>2. calls'[s] = IF s = r THEN Act!Gone ELSE calls[s]
    BY <1>3 DEF HandlerReturns, Forget
  <2>3. s # r => runs'[s] = runs[s]
    BY <1>0, <2>1 DEF Return, WorkerTypeOK
  <2>4. files' = files
    BY <1>3 DEF HandlerReturns
  <2> QED
    BY <1>s, <2>2, <2>3, <2>4 DEF Act!Gone, Act!NoCallYet
<1>4. CASE RunTaskReturns(r) \/ RunTaskThrows(r) \/ AbortTask(r)
  <2>1. UNCHANGED <<runs, files>> /\ runs[r].at = "handling"
    BY <1>4 DEF RunTaskReturns, RunTaskThrows, AbortTask, PullAbort, At, workerVars,
                Act!Returns, Act!Throws
  <2>2. s # r => calls'[s] = calls[s]
    BY <1>0, <1>4 DEF RunTaskReturns, RunTaskThrows, AbortTask, Act!Returns, Act!Throws,
                      Act!Move, Act!MoveWith, Act!ActivityTypeOK
  <2>3. calls'[r].at # "begin"
    BY <1>0, <1>4 DEF RunTaskReturns, RunTaskThrows, AbortTask, Act!Returns, Act!Throws,
                      Act!Move, Act!MoveWith, Act!ActivityTypeOK, Act!Call
  <2> QED
    BY <1>s, <2>1, <2>2, <2>3
<1>5. CASE ApplyResult(r) \/ CheckRecovered(r) \/ ApplyRecovered(r)
  <2>1. UNCHANGED <<runs, calls, files>>
    BY <1>5 DEF ApplyResult, CheckRecovered, ApplyRecovered, workerVars
  <2> QED
    BY <1>s, <2>1
<1> QED
  BY <1>1, <1>2, <1>3, <1>4, <1>5 DEF Handler

(* Every step keeps it. *)
LEMMA CallsNext == ASSUME IInv, CallsInv, [Next]_vars PROVE CallsInv'
<1>0. WorkerTypeOK /\ RunsInv /\ JobsInv
  BY DEF IInv, TypeParts, RunnerInv, LedgerInv
<1>1. ASSUME NEW r \in Runs, RunStep(r), UNCHANGED <<handlerVars, sweep>> PROVE CallsInv'
  <2>1. runs[r].at # "handling" /\ late' = late
    BY <1>1 DEF RunStep, PreAbort, Cancel, Beat, PostAbort, ReportOutcome, RunReturns, At
  <2>2. \A q \in Runs : q # r => runs'[q] = runs[q]
    BY <1>0, <1>1 DEF WorkerTypeOK, RunStep, PreAbort, Cancel, Beat, PostAbort, ReportOutcome,
                      RunReturns, Goto, EndRun
  <2> QED
    BY <1>1, <2>1, <2>2, CallsSame DEF handlerVars, At
<1>2. ASSUME NEW w \in Workers, Lease(w), UNCHANGED <<handlerVars, sweep>> PROVE CallsInv'
  <2> SUFFICES ASSUME late = 0 PROVE CallsInv'
    BY <1>2 DEF Lease, CallsInv
  <2> PICK j \in Jobs :
        LET n == jobs[j].attempt + 1 IN
        /\ ShouldQueue(jobs[j])
        /\ runs' = [runs EXCEPT ![<<j, n>>] = [NoRun EXCEPT !.at = "preAbort", !.worker = w]]
        /\ late' = late
    BY <1>2 DEF Lease
  <2> DEFINE r == <<j, jobs[j].attempt + 1>>
  <2>1. \A q \in Runs : q # r => runs'[q] = runs[q]
    BY <1>0 DEF WorkerTypeOK
  <2>2. ASSUME r \in Runs PROVE ~At(r, "handling")
    <3> SUFFICES ASSUME At(r, "handling") PROVE FALSE
      OBVIOUS
    <3>1. Owns(jobs[JobOf(r)], runs[r], r[2])
      BY <1>0, <2>2 DEF RunsInv, Working, At
    <3> QED
      BY <3>1 DEF Owns, JobOf, ShouldQueue, Active, Terminal
  <2>3. \A q \in Runs : At(q, "handling") => runs'[q].at = "handling"
    BY <2>1, <2>2 DEF At
  <2> QED
    BY <1>2, <2>3, CallsSame DEF handlerVars
<1>3. ASSUME UNCHANGED <<runs, calls, files>>, late' = 0 => late = 0 PROVE CallsInv'
  BY <1>3, CallsSame DEF At
<1>4. ASSUME NEW w \in Workers, NEW j \in Jobs, TickLease(w, j) \/ ReconcileStartupLease(w, j),
             UNCHANGED <<handlerVars, sweep>>
      PROVE  CallsInv'
  BY <1>3, <1>4 DEF TickLease, ReconcileStartupLease, handlerVars
<1>5. ASSUME NEW w \in Workers, StartProcess(w) PROVE CallsInv'
  BY <1>3, <1>5 DEF StartProcess, Restart, handlerVars
<1>6. ASSUME NEW w \in Workers, Die(w) PROVE CallsInv'
  <2> SUFFICES ASSUME late = 0, NEW r \in Runs
               PROVE  /\ calls'[r].at \notin {"idle", "lost"} => runs'[r].at = "handling"
                      /\ calls'[r].at = "begin" => files'[JobOf(r)] = None
    BY <1>6 DEF Die, Crash, CallsInv, At, Act!In
  <2>1. calls'[r] = (IF runs'[r].at = "done" THEN Act!Gone ELSE calls[r]) /\ files' = files
    BY <1>6 DEF Die, Forget
  <2>2. runs'[r].at # "done" => runs'[r] = runs[r]
    BY <1>6 DEF Die, Crash, Over, NoRun
  <2> QED
    BY <2>1, <2>2 DEF CallsInv, Act!Gone, Act!NoCallYet, Act!In, At
<1>7. ASSUME NEW j \in Jobs, JobStep(j), UNCHANGED <<handlerVars, sweep>> PROVE CallsInv'
  <2>1. UNCHANGED runs /\ (late' = 0 => late = 0)
    BY <1>0, <1>7 DEF JobStep, LeasePasses, Expire, Enqueue, SendAbort, CancelJob, WorkerTypeOK
  <2> QED
    BY <1>3, <1>7, <2>1 DEF handlerVars
<1>8. ASSUME NEW j \in Jobs, Sweep(j) PROVE CallsInv'
  <2>1. UNCHANGED <<runs, calls, files>> /\ (late' = 0 => late = 0)
    BY <1>0, <1>8 DEF Sweep, SweepJob, SweepApplies, SweepCompletes, InTime, WorkerTypeOK,
                      handlerVars
  <2> QED
    BY <1>3, <2>1
<1>9. CASE UNCHANGED vars
  BY <1>3, <1>9 DEF vars, workerVars, handlerVars
<1> QED
  BY <1>1, <1>2, <1>4, <1>5, <1>6, <1>7, <1>8, <1>9, CallsHandler DEF Next, WorkerOnly

(* A step that starts no attempt leaves the attempts of the rows. *)
LEMMA OnlyBegin ==
  ASSUME IInv, [Next]_vars, NEW j \in Jobs, rows'[j].attempts # rows[j].attempts
  PROVE  late' = late /\ \E r \in Runs : Act!In(r, "begin") /\ JobOf(r) = j
<1>0. Act!ActivityTypeOK
  BY DEF IInv, TypeParts
<1>1. ~UNCHANGED rows
  OBVIOUS
<1>2. PICK r \in Runs : Activity(r)
  BY <1>1 DEF Next, vars, handlerVars, Handler, WriteResult, ApplyResult, RunTaskReturns,
       RunTaskThrows, AbortTask, CheckRecovered, ApplyRecovered, HandlerReturns, StartProcess,
       Die, Sweep, SweepJob, SweepApplies, SweepCompletes, Act!Persist, Act!Returns, Act!Throws
<1>3. ASSUME NEW k, NEW output, rows' = [rows EXCEPT ![k] = Act!Completed(@, output)]
      PROVE  FALSE
  BY <1>0, <1>3 DEF Act!Completed, Act!ActivityTypeOK, Act!Row
<1>4. ASSUME NEW k, rows' = [rows EXCEPT ![k].status = "failed"] PROVE FALSE
  BY <1>0, <1>4 DEF Act!ActivityTypeOK, Act!Row
<1>5. Act!Begin(r)
  BY <1>1, <1>2, <1>3, <1>4 DEF Activity, Act!Lookup, Act!Recover, Act!RecordRecovered,
                                Act!Complete, Act!Fail, Act!Stamp
<1>6. JobOf(r) = j
  BY <1>0, <1>5 DEF Act!Begin, Act!ActivityTypeOK
<1> QED
  BY <1>2, <1>5, <1>6 DEF Act!Begin, Activity, workerVars

(* As long as nobody was late, a task whose result is on disk is not run    *)
(* again: runDurableActivity (packages/durable/src/local.ts) looks for the *)
(* result before it runs the work, and no other run writes one meanwhile.  *)
THEOREM Recovered == Spec => RecoveredNotRerun
<1> DEFINE A == \A j \in Jobs : late' = 0 /\ files[j] # None
                                  => rows'[j].attempts = rows[j].attempts
<1>1. Init => CallsInv
  BY CallsInit
<1>2. IInv /\ CallsInv /\ [Next]_vars => CallsInv'
  BY CallsNext
<1>3. IInv /\ CallsInv /\ [Next]_vars => A
  <2> SUFFICES ASSUME IInv, CallsInv, [Next]_vars, NEW j \in Jobs, late' = 0,
                      files[j] # None, rows'[j].attempts # rows[j].attempts
               PROVE  FALSE
    OBVIOUS
  <2>1. late = 0 /\ \E r \in Runs : Act!In(r, "begin") /\ JobOf(r) = j
    BY OnlyBegin
  <2> QED
    BY <2>1 DEF CallsInv
<1>4. IInv /\ CallsInv /\ [Next]_vars => [A]_vars
  BY <1>3
<1> QED
  BY <1>1, <1>2, <1>4, Invariance, PTL DEF Spec, RecoveredNotRerun

-----------------------------------------------------------------------------
(***************************************************************************)
(* The results.  The argument: the result file, the row of the activity    *)
(* and the task of a job follow one another (DiskInv).  As long as nobody  *)
(* was late only one run is in the handler, so none of them changes behind *)
(* its back: a result about to be applied meets a running task (OnceInv).  *)
(***************************************************************************)

(* A job: a result on disk comes from an attempt of the activity, and a     *)
(* cached outcome or a task that is done from a result on disk.             *)
DiskFacts(row, file, task) ==
  /\ file # None => row.attempts > 0
  /\ Act!Cached(row) => file # None
  /\ task = "done" => file # None

(* A run: what its call knows, and what was applied. *)
CallFacts(c, st, row, file, task) ==
  /\ c.at \in {"idle", "recover", "record", "begin", "lost"} => st = "none"
  /\ c.at \in {"record", "recovered"} => file # None
  /\ c.at \in {"record", "returned"} => c.output # None
  /\ c.at \in {"record", "work", "returned"} => row.attempts > 0
  /\ c.at \in {"returned", "stamp"} => st = "applied"
  /\ st # "none" => file # None
  /\ st = "applied" => task = "done"

(* The sweep of a job. *)
SweepFacts(s, p, file, task) ==
  /\ s.at \in {"apply", "complete"} => file # None
  /\ s.at = "complete" => task = "done"
  /\ s.at # "no" => s.attempt <= p.attempt

DiskInv ==
  /\ \A j \in Jobs : DiskFacts(rows[j], files[j], tasks[j])
  /\ \A r \in Runs : CallFacts(calls[r], stage[r], rows[JobOf(r)], files[JobOf(r)], tasks[JobOf(r)])
  /\ \A j \in Jobs : SweepFacts(sweep[j], jobs[j], files[j], tasks[j])

(* As long as nobody was late: a run in the handler has no outcome in the  *)
(* row, and a result it is to apply meets a running task.                  *)
OnceFacts(c, st, row, file, task) ==
  /\ c.at \in {"recover", "record", "begin", "work", "returned", "threw"} => ~Act!Cached(row)
  /\ c.at = "work" /\ st = "none" => file = None
  /\ st = "apply" => task = "running"

NoRunOf(j) == \A r \in Runs : JobOf(r) = j => ~Working(runs[r])

(* The sweep is to apply a result: the job was leased since, or nobody     *)
(* runs it and its task is running.                                        *)
SweepInTime(j) ==
  sweep[j].at = "apply" =>
    sweep[j].attempt < jobs[j].attempt \/ (tasks[j] = "running" /\ NoRunOf(j))

OnceInv == late = 0 =>
  /\ \A r \in Runs : OnceFacts(calls[r], stage[r], rows[JobOf(r)], files[JobOf(r)], tasks[JobOf(r)])
  /\ \A j \in Jobs : applied[j] = IF tasks[j] = "done" THEN 1 ELSE 0
  /\ \A j \in Jobs : SweepInTime(j)

-----------------------------------------------------------------------------
(* What a step of the handler of run r does to the job and to the run. *)
SameRow(j) == rows'[j] = rows[j]
SameFile(j) == files'[j] = files[j]
SameTasks(j) == tasks'[j] = tasks[j] /\ applied'[j] = applied[j]
SameStage(r) == stage'[r] = stage[r]

Looks(r, j) ==
  /\ SameRow(j) /\ SameFile(j) /\ SameTasks(j) /\ SameStage(r)
  /\ \/ calls[r].at = "idle" /\ Act!Cached(rows[j]) /\ calls'[r].at = "done"
     \/ calls[r].at = "idle" /\ ~Act!Cached(rows[j]) /\ calls'[r].at = "recover"
     \/ /\ calls[r].at = "recover" /\ files[j] # None
        /\ calls'[r].at = "record" /\ calls'[r].output = files[j]
     \/ calls[r].at = "recover" /\ files[j] = None /\ calls'[r].at = "begin"

Works(r, j) ==
  /\ SameRow(j) /\ calls[r].at = "work"
  /\ \/ /\ stage[r] = "none" /\ stage'[r] = "apply" /\ files'[j] = r
        /\ calls'[r] = calls[r] /\ SameTasks(j)
     \/ /\ stage[r] = "applied" /\ calls'[r].at = "returned" /\ calls'[r].output = r
        /\ SameFile(j) /\ SameTasks(j) /\ SameStage(r)
     \/ calls'[r].at = "threw" /\ SameFile(j) /\ SameTasks(j) /\ SameStage(r)

Decides(r, j) ==
  /\ \/ calls[r].at = "record" /\ calls'[r].at = "recovered"
     \/ calls[r].at = "returned" /\ calls'[r].at = "stamp"
  /\ rows'[j].status = "completed" /\ rows'[j].output = calls[r].output
  /\ rows'[j].attempts = rows[j].attempts
  /\ SameFile(j) /\ SameTasks(j) /\ SameStage(r)

Begins(r, j) ==
  /\ calls[r].at = "begin" /\ calls'[r].at = "work"
  /\ rows'[j].status = "running" /\ rows'[j].output = None
  /\ rows'[j].attempts = rows[j].attempts + 1
  /\ SameFile(j) /\ SameTasks(j) /\ SameStage(r)

Ends(r, j) ==
  /\ SameFile(j) /\ SameTasks(j) /\ SameStage(r)
  /\ \/ /\ calls[r].at = "threw" /\ calls'[r].at = "stampThrow"
        /\ rows'[j].status = "failed" /\ rows'[j].output = rows[j].output
        /\ rows'[j].attempts = rows[j].attempts
     \/ calls[r].at = "stamp" /\ calls'[r].at = "done" /\ SameRow(j)
     \/ calls[r].at = "stampThrow" /\ calls'[r].at = "failed" /\ SameRow(j)

Applying(r, j) ==
  /\ calls'[r] = calls[r] /\ SameRow(j) /\ SameFile(j)
  /\ \/ /\ calls[r].at \in {"work", "recovered"} /\ stage[r] = "apply" /\ stage'[r] = "applied"
        /\ tasks'[j] = "done" /\ applied'[j] = applied[j] + 1
     \/ /\ calls[r].at = "recovered" /\ stage[r] = "none" /\ SameTasks(j)
        /\ stage'[r] = IF tasks[j] = "running" THEN "apply" ELSE "applied"

Leaves(r, j) ==
  /\ SameRow(j) /\ SameFile(j) /\ SameTasks(j)
  /\ calls'[r] = Act!Gone /\ stage'[r] = "none"
  /\ runs'[r].at = "postAbort"
  /\ runs'[r].result = "ok" => calls[r].at = "done" \/ stage[r] = "applied"

Stays(r) == runs'[r] = runs[r]

Turn(r, j) ==
  \/ Stays(r) /\ (Looks(r, j) \/ Works(r, j) \/ Decides(r, j) \/ Begins(r, j) \/ Ends(r, j)
                    \/ Applying(r, j))
  \/ Leaves(r, j)

(* Nothing else changes. *)
Alone(r, j) ==
  /\ runs[r].at = "handling" /\ UNCHANGED <<jobs, sweep, late>>
  /\ \A k \in Jobs : k # j => SameRow(k) /\ SameFile(k) /\ SameTasks(k)
  /\ \A s \in Runs : s # r => calls'[s] = calls[s] /\ SameStage(s) /\ runs'[s] = runs[s]

(* Each step of the handler is such a turn. *)
LEMMA HandlerTurn ==
  ASSUME IInv, NEW r \in Runs, Handler(r)
  PROVE  Turn(r, JobOf(r)) /\ Alone(r, JobOf(r))
<1> DEFINE j == JobOf(r)
<1>0. /\ j \in Jobs /\ runs \in [Runs -> Run]
      /\ rows \in [Jobs -> Act!Row] /\ calls \in [Runs -> Act!Call]
      /\ files \in [Jobs -> Runs \cup {None}]
      /\ tasks \in [Jobs -> {"running", "done"}] /\ applied \in [Jobs -> Nat]
      /\ stage \in [Runs -> {"none", "apply", "applied"}]
  BY RunJob DEF IInv, TypeParts, WorkerTypeOK, Act!ActivityTypeOK, TaskTypeOK
<1>1. CASE Activity(r)
  <2>0. /\ runs[r].at = "handling" /\ UNCHANGED <<jobs, runs, late, tasks, applied, stage, sweep>>
        /\ UNCHANGED files
    BY <1>1 DEF Activity, At, workerVars, Act!Lookup, Act!Recover, Act!RecordRecovered,
                Act!Begin, Act!Complete, Act!Fail, Act!Stamp
  <2> SUFFICES /\ \A k \in Jobs : k # j => SameRow(k)
               /\ \A s \in Runs : s # r => calls'[s] = calls[s]
               /\ Looks(r, j) \/ Decides(r, j) \/ Begins(r, j) \/ Ends(r, j)
    BY <2>0 DEF Turn, Alone, SameFile, SameTasks, SameStage, Stays
  <2>1. SameFile(j) /\ SameTasks(j) /\ SameStage(r)
    BY <2>0 DEF SameFile, SameTasks, SameStage
  <2>m. ASSUME NEW at, Act!Move(r, at)
        PROVE  calls'[r].at = at /\ calls'[r].output = calls[r].output
                 /\ \A s \in Runs : s # r => calls'[s] = calls[s]
    BY <1>0, <2>m DEF Act!Move, Act!Call
  <2>n. ASSUME NEW at, NEW output, Act!MoveWith(r, at, output)
        PROVE  calls'[r].at = at /\ calls'[r].output = output
                 /\ \A s \in Runs : s # r => calls'[s] = calls[s]
    BY <1>0, <2>n DEF Act!MoveWith, Act!Call
  <2>o. ASSUME NEW at, Act!MoveStamped(r, at)
        PROVE  calls'[r].at = at /\ \A s \in Runs : s # r => calls'[s] = calls[s]
    BY <1>0, <2>o DEF Act!MoveStamped, Act!Call
  <2>p. ASSUME NEW output, rows' = [rows EXCEPT ![j] = Act!Completed(@, output)]
        PROVE  /\ rows'[j].status = "completed" /\ rows'[j].output = output
               /\ rows'[j].attempts = rows[j].attempts
               /\ \A k \in Jobs : k # j => SameRow(k)
    <3>1. rows'[j] = [rows[j] EXCEPT !.status = "completed", !.output = output]
      BY <1>0, <2>p DEF Act!Completed
    <3>2. \A k \in Jobs : k # j => SameRow(k)
      BY <1>0, <2>p DEF SameRow
    <3> QED
      BY <1>0, <3>1, <3>2 DEF Act!Row
  <2>2. CASE Act!Lookup(r)
    <3>1. UNCHANGED rows /\ calls[r].at = "idle"
      BY <2>2 DEF Act!Lookup, Act!In
    <3> QED
      BY <2>1, <2>2, <2>m, <2>n, <3>1 DEF Act!Lookup, Looks, SameRow
  <2>3. CASE Act!Recover(r)
    <3>1. UNCHANGED rows /\ calls[r].at = "recover"
      BY <2>3 DEF Act!Recover, Act!In
    <3> QED
      BY <2>1, <2>3, <2>m, <2>n, <3>1 DEF Act!Recover, Looks, SameRow
  <2>4. CASE Act!RecordRecovered(r)
    BY <2>1, <2>4, <2>m, <2>p DEF Act!RecordRecovered, Act!In, Decides
  <2>5. CASE Act!Begin(r)
    <3>1. /\ rows'[j] = [status |-> "running", attempts |-> rows[j].attempts + 1, output |-> None]
          /\ \A k \in Jobs : k # j => SameRow(k)
      BY <1>0, <2>5 DEF Act!Begin, SameRow
    <3> QED
      BY <2>1, <2>5, <2>m, <3>1 DEF Act!Begin, Act!In, Begins
  <2>6. CASE Act!Complete(r)
    BY <2>1, <2>6, <2>o, <2>p DEF Act!Complete, Act!In, Decides
  <2>7. CASE Act!Fail(r)
    <3>1. rows'[j] = [rows[j] EXCEPT !.status = "failed"] /\ \A k \in Jobs : k # j => SameRow(k)
      BY <1>0, <2>7 DEF Act!Fail, SameRow
    <3>2. /\ rows'[j].status = "failed" /\ rows'[j].output = rows[j].output
          /\ rows'[j].attempts = rows[j].attempts
      BY <1>0, <3>1 DEF Act!Row
    <3> QED
      BY <2>1, <2>7, <2>o, <3>1, <3>2 DEF Act!Fail, Act!In, Ends
  <2>8. CASE Act!Stamp(r)
    <3>1. UNCHANGED rows
      BY <2>8 DEF Act!Stamp
    <3>2. \/ calls[r].at = "stamp" /\ Act!Move(r, "done")
          \/ calls[r].at = "stampThrow" /\ Act!Move(r, "failed")
      BY <2>8 DEF Act!Stamp, Act!In
    <3> QED
      BY <2>1, <2>m, <3>1, <3>2 DEF Ends, SameRow
  <2> QED
    BY <1>1, <2>2, <2>3, <2>4, <2>5, <2>6, <2>7, <2>8 DEF Activity
<1>2. CASE WriteResult(r)
  <2>1. /\ runs[r].at = "handling" /\ calls[r].at = "work" /\ stage[r] = "none"
        /\ UNCHANGED <<jobs, runs, late, sweep, tasks, applied, rows, calls>>
        /\ files' = [files EXCEPT ![j] = r] /\ stage' = [stage EXCEPT ![r] = "apply"]
    BY <1>2 DEF WriteResult, Act!Persist, Stage, At, Act!In, workerVars
  <2> QED
    BY <1>0, <2>1 DEF Turn, Alone, Works, SameRow, SameFile, SameTasks, SameStage, Stays
<1>3. CASE ApplyResult(r) \/ ApplyRecovered(r)
  <2>1. /\ runs[r].at = "handling" /\ calls[r].at \in {"work", "recovered"} /\ stage[r] = "apply"
        /\ UNCHANGED <<jobs, runs, late, sweep, rows, calls, files>>
        /\ tasks' = [tasks EXCEPT ![j] = "done"] /\ stage' = [stage EXCEPT ![r] = "applied"]
        /\ applied' = [applied EXCEPT ![j] = @ + 1]
    BY <1>3 DEF ApplyResult, ApplyRecovered, Apply, Stage, At, Act!In, workerVars
  <2> QED
    BY <1>0, <2>1 DEF Turn, Alone, Applying, SameRow, SameFile, SameTasks, SameStage, Stays
<1>4. CASE CheckRecovered(r)
  <2>1. /\ runs[r].at = "handling" /\ calls[r].at = "recovered" /\ stage[r] = "none"
        /\ UNCHANGED <<jobs, runs, late, sweep, rows, calls, files, tasks, applied>>
        /\ stage' = [stage EXCEPT ![r] = IF tasks[j] = "running" THEN "apply" ELSE "applied"]
    BY <1>4 DEF CheckRecovered, NeedsResult, Stage, At, Act!In, workerVars
  <2> QED
    BY <1>0, <2>1 DEF Turn, Alone, Applying, SameRow, SameFile, SameTasks, SameStage, Stays
<1>5. CASE RunTaskReturns(r) \/ RunTaskThrows(r) \/ AbortTask(r)
  <2>1. /\ runs[r].at = "handling" /\ calls[r].at = "work"
        /\ UNCHANGED <<jobs, runs, late, sweep, rows, files, tasks, applied, stage>>
        /\ \/ stage[r] = "applied" /\ Act!MoveWith(r, "returned", r)
           \/ Act!Move(r, "threw")
    BY <1>5 DEF RunTaskReturns, RunTaskThrows, AbortTask, PullAbort, Act!Returns, Act!Throws,
                At, Act!In, workerVars
  <2>2. /\ \/ stage[r] = "applied" /\ calls'[r].at = "returned" /\ calls'[r].output = r
           \/ calls'[r].at = "threw"
        /\ \A s \in Runs : s # r => calls'[s] = calls[s]
    BY <1>0, <2>1 DEF Act!Move, Act!MoveWith, Act!Call
  <2> QED
    BY <2>1, <2>2 DEF Turn, Alone, Works, SameRow, SameFile, SameTasks, SameStage, Stays
<1>6. CASE HandlerReturns(r)
  <2>1. PICK result \in Results :
          /\ Return(r, result)
          /\ result = "ok" => calls[r].at = "done" \/ stage[r] = "applied"
    BY <1>6 DEF HandlerReturns, Results, Act!In
  <2>2. /\ runs[r].at = "handling" /\ UNCHANGED <<jobs, late, sweep, rows, files, tasks, applied>>
        /\ runs' = [runs EXCEPT ![r].at = "postAbort", ![r].result = result]
    BY <1>6, <2>1 DEF HandlerReturns, Return, At
  <2>3. /\ runs'[r].at = "postAbort" /\ runs'[r].result = result
        /\ \A s \in Runs : s # r => runs'[s] = runs[s]
    BY <1>0, <2>2 DEF Run
  <2>4. \A s \in Runs : /\ calls'[s] = IF s = r THEN Act!Gone ELSE calls[s]
                        /\ stage'[s] = IF s = r THEN "none" ELSE stage[s]
    BY <1>6 DEF HandlerReturns, Forget
  <2> QED
    BY <2>1, <2>2, <2>3, <2>4 DEF Turn, Alone, Leaves, SameRow, SameFile, SameTasks, SameStage
<1> QED
  BY <1>1, <1>2, <1>3, <1>4, <1>5, <1>6 DEF Handler

-----------------------------------------------------------------------------
(* A turn of the handler keeps what the files, the rows and the tasks know. *)
LEMMA DiskTurn ==
  ASSUME IInv, DiskInv, NEW r \in Runs, Turn(r, JobOf(r)), Alone(r, JobOf(r)) PROVE DiskInv'
<1> DEFINE j == JobOf(r)
<1>0. /\ j \in Jobs /\ rows[j].attempts \in Nat /\ tasks[j] \in {"running", "done"}
      /\ None \notin Runs
  BY RunJob, RunAssumption DEF IInv, TypeParts, Act!ActivityTypeOK, Act!Row, TaskTypeOK
<1>1. /\ DiskFacts(rows[j], files[j], tasks[j])
      /\ CallFacts(calls[r], stage[r], rows[j], files[j], tasks[j])
      /\ SweepFacts(sweep[j], jobs[j], files[j], tasks[j])
  BY <1>0 DEF DiskInv
<1>2. /\ rows[j].attempts > 0 => rows'[j].attempts > 0
      /\ files[j] # None => files'[j] # None
      /\ tasks[j] = "done" => tasks'[j] = "done"
  BY <1>0 DEF Turn, Looks, Works, Decides, Begins, Ends, Applying, Leaves, SameRow, SameFile,
              SameTasks
<1>3. DiskFacts(rows'[j], files'[j], tasks'[j])
  BY <1>0, <1>1, <1>2 DEF DiskFacts, CallFacts, Act!Cached, Turn, Looks, Works, Decides, Begins,
              Ends, Applying, Leaves, SameRow, SameFile, SameTasks
<1>4. CallFacts(calls'[r], stage'[r], rows'[j], files'[j], tasks'[j])
  <2>1. CASE Looks(r, j) \/ Begins(r, j) \/ Ends(r, j)
    BY <1>0, <1>1, <1>2, <2>1 DEF CallFacts, DiskFacts, Looks, Begins, Ends, SameRow, SameFile,
         SameTasks, SameStage
  <2>2. CASE Works(r, j)
    BY <1>0, <1>1, <1>2, <2>2 DEF CallFacts, Works, SameRow, SameFile, SameTasks, SameStage
  <2>3. CASE Decides(r, j)
    BY <1>0, <1>1, <1>2, <2>3 DEF CallFacts, Decides, SameFile, SameTasks, SameStage
  <2>4. CASE Applying(r, j)
    BY <1>0, <1>1, <1>2, <2>4 DEF CallFacts, Applying, SameRow, SameFile, SameTasks
  <2>5. CASE Leaves(r, j)
    BY <1>0, <1>1, <1>2, <2>5 DEF CallFacts, Leaves, Act!Gone, Act!NoCallYet
  <2> QED
    BY <2>1, <2>2, <2>3, <2>4, <2>5 DEF Turn
<1>5. ASSUME NEW s \in Runs, s # r
      PROVE  CallFacts(calls'[s], stage'[s], rows'[JobOf(s)], files'[JobOf(s)], tasks'[JobOf(s)])
  <2>1. CallFacts(calls[s], stage[s], rows[JobOf(s)], files[JobOf(s)], tasks[JobOf(s)])
    BY DEF DiskInv
  <2>2. calls'[s] = calls[s] /\ stage'[s] = stage[s]
    BY <1>5 DEF Alone, SameStage
  <2>3. JobOf(s) # j => /\ rows'[JobOf(s)] = rows[JobOf(s)]
                        /\ files'[JobOf(s)] = files[JobOf(s)]
                        /\ tasks'[JobOf(s)] = tasks[JobOf(s)]
    BY RunJob DEF Alone, SameRow, SameFile, SameTasks
  <2> QED
    BY <1>2, <2>1, <2>2, <2>3 DEF CallFacts
<1>6. ASSUME NEW k \in Jobs
      PROVE  /\ DiskFacts(rows'[k], files'[k], tasks'[k])
             /\ SweepFacts(sweep'[k], jobs'[k], files'[k], tasks'[k])
  <2>1. DiskFacts(rows[k], files[k], tasks[k]) /\ SweepFacts(sweep[k], jobs[k], files[k], tasks[k])
    BY DEF DiskInv
  <2>2. sweep'[k] = sweep[k] /\ jobs'[k] = jobs[k]
    BY DEF Alone
  <2>3. CASE k = j
    BY <1>2, <1>3, <2>1, <2>2, <2>3 DEF SweepFacts
  <2>4. CASE k # j
    BY <2>1, <2>2, <2>4 DEF Alone, SameRow, SameFile, SameTasks
  <2> QED
    BY <2>3, <2>4
<1> QED
  BY <1>4, <1>5, <1>6 DEF DiskInv

(* No two runs in the handler of one job. *)
LEMMA AloneInHandler ==
  ASSUME IInv, late = 0, NEW r \in Runs, NEW s \in Runs, JobOf(r) = JobOf(s),
         runs[r].at = "handling", runs[s].at = "handling"
  PROVE  r = s
  BY OneRun DEF IInv, RunnerInv, LedgerInv, TypeParts, Working

(* And it keeps, as long as nobody was late, that a result is applied once. *)
LEMMA OnceTurn ==
  ASSUME IInv, CallsInv, DiskInv, OnceInv, NEW r \in Runs, Turn(r, JobOf(r)),
         Alone(r, JobOf(r))
  PROVE  OnceInv'
<1> DEFINE j == JobOf(r)
<1> SUFFICES ASSUME late = 0 PROVE OnceInv'
  BY DEF Alone, OnceInv
<1>0. /\ j \in Jobs /\ rows[j].attempts \in Nat /\ tasks[j] \in {"running", "done"}
      /\ None \notin Runs /\ runs[r].at = "handling"
  BY RunJob, RunAssumption DEF IInv, TypeParts, Act!ActivityTypeOK, Act!Row, TaskTypeOK, Alone
<1>1. /\ DiskFacts(rows[j], files[j], tasks[j])
      /\ CallFacts(calls[r], stage[r], rows[j], files[j], tasks[j])
      /\ OnceFacts(calls[r], stage[r], rows[j], files[j], tasks[j])
      /\ calls[r].at = "begin" => files[j] = None
  BY <1>0 DEF DiskInv, OnceInv, CallsInv, Act!In
<1>2. OnceFacts(calls'[r], stage'[r], rows'[j], files'[j], tasks'[j])
  <2>1. CASE Looks(r, j)
    BY <1>1, <2>1 DEF CallFacts, OnceFacts, Looks, SameRow, SameFile, SameTasks, SameStage
  <2>2. CASE Works(r, j)
    BY <1>0, <1>1, <2>2 DEF CallFacts, DiskFacts, OnceFacts, Works, SameRow, SameFile, SameTasks,
         SameStage
  <2>3. CASE Decides(r, j)
    BY <1>1, <2>3 DEF OnceFacts, Decides, SameFile, SameTasks, SameStage
  <2>4. CASE Begins(r, j)
    BY <1>1, <2>4 DEF CallFacts, OnceFacts, Begins, SameFile, SameTasks, SameStage, Act!Cached
  <2>5. CASE Ends(r, j)
    BY <1>1, <2>5 DEF OnceFacts, Ends, SameFile, SameTasks, SameStage
  <2>6. CASE Applying(r, j)
    BY <1>0, <1>1, <2>6 DEF OnceFacts, Applying, SameRow, SameFile, SameTasks
  <2>7. CASE Leaves(r, j)
    BY <2>7 DEF OnceFacts, Leaves, Act!Gone, Act!NoCallYet
  <2> QED
    BY <2>1, <2>2, <2>3, <2>4, <2>5, <2>6, <2>7 DEF Turn
<1>3. ASSUME NEW s \in Runs, s # r
      PROVE  OnceFacts(calls'[s], stage'[s], rows'[JobOf(s)], files'[JobOf(s)], tasks'[JobOf(s)])
  <2>1. /\ OnceFacts(calls[s], stage[s], rows[JobOf(s)], files[JobOf(s)], tasks[JobOf(s)])
        /\ CallFacts(calls[s], stage[s], rows[JobOf(s)], files[JobOf(s)], tasks[JobOf(s)])
        /\ calls[s].at \notin {"idle", "lost"} => runs[s].at = "handling"
    BY DEF OnceInv, DiskInv, CallsInv, At
  <2>2. calls'[s] = calls[s] /\ stage'[s] = stage[s]
    BY <1>3 DEF Alone, SameStage
  <2>3. CASE JobOf(s) # j
    <3>1. /\ rows'[JobOf(s)] = rows[JobOf(s)]
          /\ files'[JobOf(s)] = files[JobOf(s)]
          /\ tasks'[JobOf(s)] = tasks[JobOf(s)]
      BY <2>3, RunJob DEF Alone, SameRow, SameFile, SameTasks
    <3> QED
      BY <2>1, <2>2, <3>1
  <2>4. CASE JobOf(s) = j
    <3>1. runs[s].at # "handling"
      BY <1>0, <1>3, <2>4, AloneInHandler
    <3>2. calls[s].at \in {"idle", "lost"} /\ stage[s] = "none"
      BY <2>1, <3>1 DEF CallFacts
    <3> QED
      BY <2>2, <3>2 DEF OnceFacts
  <2> QED
    BY <2>3, <2>4
<1>4. ASSUME NEW k \in Jobs PROVE applied'[k] = IF tasks'[k] = "done" THEN 1 ELSE 0
  <2>1. applied[k] = IF tasks[k] = "done" THEN 1 ELSE 0
    BY DEF OnceInv
  <2>2. CASE k = j
    <3>1. CASE SameTasks(j)
      BY <2>1, <2>2, <3>1 DEF SameTasks
    <3>2. CASE ~SameTasks(j)
      <4>1. stage[r] = "apply" /\ tasks'[j] = "done" /\ applied'[j] = applied[j] + 1
        BY <3>2 DEF Turn, Looks, Works, Decides, Begins, Ends, Applying, Leaves
      <4> QED
        BY <1>1, <2>1, <2>2, <4>1 DEF OnceFacts
    <3> QED
      BY <3>1, <3>2
  <2>3. CASE k # j
    BY <2>1, <2>3 DEF Alone, SameTasks
  <2> QED
    BY <2>2, <2>3
<1>5. ASSUME NEW k \in Jobs, sweep'[k].at = "apply"
      PROVE  \/ sweep'[k].attempt < jobs'[k].attempt
             \/ tasks'[k] = "running" /\ \A s \in Runs : JobOf(s) = k => ~Working(runs'[s])
  <2>1. sweep'[k] = sweep[k] /\ jobs'[k] = jobs[k]
    BY DEF Alone
  <2>2. CASE k = j
    <3>1. ~NoRunOf(k)
      BY <1>0, <2>2 DEF NoRunOf, Working
    <3> QED
      BY <1>5, <2>1, <3>1 DEF OnceInv, SweepInTime
  <2>3. CASE k # j
    <3>1. tasks'[k] = tasks[k] /\ \A s \in Runs : JobOf(s) = k => runs'[s] = runs[s]
      BY <2>3 DEF Alone, SameTasks
    <3> QED
      BY <1>5, <2>1, <3>1 DEF OnceInv, SweepInTime, NoRunOf
  <2> QED
    BY <2>2, <2>3
<1> QED
  BY <1>2, <1>3, <1>4, <1>5 DEF OnceInv, SweepInTime, NoRunOf

-----------------------------------------------------------------------------
(* Every event but a lease keeps the attempt; only one completes a job. *)
LEMMA ReduceAttempt ==
  ASSUME NEW p \in Job, NEW e \in Event, e.type \notin {"leased", "enqueued"}
  PROVE  /\ Reduce(p, e).attempt = p.attempt
         /\ Reduce(p, e).status = "completed" => p.status = "completed" \/ e.type = "completed"
<1>1. CASE ~Applies(p, e)
  BY <1>1 DEF Reduce
<1>2. CASE Applies(p, e)
  <2>1. Reduce(p, e) = Effect(p, e)
    BY <1>2 DEF Reduce
  <2>2. e.type \in {"heartbeat", "progress", "completed", "failed",
                    "canceled", "command", "consumed", "lease_expired"}
    BY DEF Event
  <2>3. CASE e.type = "heartbeat"
    BY <2>1, <2>3 DEF Effect, Job
  <2>4. CASE e.type = "progress"
    BY <2>1, <2>4 DEF Effect, Job
  <2>5. CASE e.type = "completed"
    BY <2>1, <2>5 DEF Effect, Job
  <2>6. CASE e.type = "failed"
    BY <2>1, <2>6 DEF Effect, Release, Job
  <2>7. CASE e.type = "canceled"
    BY <2>1, <2>7 DEF Effect, Job
  <2>8. CASE e.type = "command"
    BY <2>1, <2>8 DEF Effect, Job
  <2>9. CASE e.type = "consumed"
    BY <2>1, <2>9 DEF Effect, Job
  <2>10. CASE e.type = "lease_expired"
    BY <2>1, <2>10 DEF Effect, Release, Job
  <2> QED
    BY <2>2, <2>3, <2>4, <2>5, <2>6, <2>7, <2>8, <2>9, <2>10
<1> QED
  BY <1>1, <1>2

(* What the queue posts: a lease is the next attempt of its job, a job is   *)
(* enqueued once, and completed by a run that succeeded or by the sweep.   *)
Fits(j, e) ==
  /\ Post(j, e)
  /\ e.type = "enqueued" => ~Exists(jobs[j])
  /\ e.type = "leased" => jobs[j].status = "queued" /\ e.attempt = jobs[j].attempt + 1
  /\ e.type = "completed" =>
       \/ \E r \in Runs : JobOf(r) = j /\ runs[r].at = "report" /\ runs[r].result = "ok"
       \/ sweep[j].at = "complete"

(* A heartbeat is such an event, *)
LEMMA HeartbeatFits ==
  ASSUME NEW w \in Workers, NEW j \in Jobs, Heartbeat(w, j)
  PROVE  UNCHANGED jobs \/ \E e \in Event : Fits(j, e)
<1>1. By("heartbeat", w) \in Event /\ By("heartbeat", w).type = "heartbeat"
  BY EventTypes DEF By, Plain
<1> QED
  BY <1>1 DEF Heartbeat, Fits

(* a cancel is, *)
LEMMA CanceledFits ==
  ASSUME NEW j \in Jobs, Post(j, Plain("canceled"))
  PROVE  \E e \in Event : Fits(j, e)
<1>1. Plain("canceled") \in Event /\ Plain("canceled").type = "canceled"
  BY EventTypes DEF Plain
<1> QED
  BY <1>1 DEF Fits

(* and every step posts one at most, or lets the deadline of a lease pass. *)
LEMMA NextFits ==
  ASSUME IInv, [Next]_vars
  PROVE  \/ UNCHANGED jobs
         \/ \E j \in Jobs : \E e \in Event : Fits(j, e)
         \/ \E j \in Jobs : jobs' = [jobs EXCEPT ![j] = Age(@)]
<1>0. WorkerTypeOK /\ RunnersInv /\ SweepTypeOK
  BY DEF IInv, TypeParts, RunnerInv, LedgerInv
<1>1. ASSUME NEW r \in Runs, RunStep(r) PROVE UNCHANGED jobs \/ \E e \in Event : Fits(JobOf(r), e)
  <2>0. JobOf(r) \in Jobs /\ runs[r].worker \in Workers
    BY <1>0, <1>1, RunJob DEF RunnersInv, Living, RunStep, PreAbort, Cancel, Beat, PostAbort,
         ReportOutcome, RunReturns, At
  <2>1. CASE ReportOutcome(r) /\ runs[r].result = "ok"
    <3> DEFINE e == By("completed", runs[r].worker)
    <3>1. e \in Event /\ e.type = "completed"
      BY <2>0, EventTypes DEF By, Plain
    <3>2. UNCHANGED jobs \/ Post(JobOf(r), e)
      BY <2>1 DEF ReportOutcome, Report
    <3> QED
      BY <2>1, <3>1, <3>2 DEF Fits, ReportOutcome, At
  <2>2. CASE ReportOutcome(r) /\ runs[r].result # "ok"
    <3> DEFINE e == Failed(runs[r].worker, MayRetry(r))
    <3>1. e \in Event /\ e.type = "failed"
      BY <2>0, EventTypes DEF Failed, Plain, MayRetry
    <3>2. UNCHANGED jobs \/ Post(JobOf(r), e)
      BY <2>2 DEF ReportOutcome, Report
    <3> QED
      BY <3>1, <3>2 DEF Fits
  <2> QED
    BY <1>1, <2>0, <2>1, <2>2, HeartbeatFits, CanceledFits DEF RunStep, PreAbort, Cancel, Beat,
         PostAbort, RunReturns
<1>2. ASSUME NEW w \in Workers, Lease(w) PROVE \E j \in Jobs : \E e \in Event : Fits(j, e)
  <2> PICK j \in Jobs : ShouldQueue(jobs[j]) /\ Post(j, Leased(w, jobs[j].attempt + 1))
    BY <1>2 DEF Lease
  <2> DEFINE e == Leased(w, jobs[j].attempt + 1)
  <2>1. jobs[j].attempt + 1 \in Nat
    BY <1>0 DEF WorkerTypeOK, Job
  <2>2. e \in Event /\ e.type = "leased" /\ e.attempt = jobs[j].attempt + 1
    BY <2>1, EventTypes DEF Leased, Plain
  <2> QED
    BY <2>2 DEF Fits, ShouldQueue
<1>3. ASSUME NEW j \in Jobs, JobStep(j) PROVE UNCHANGED jobs \/ (\E e \in Event : Fits(j, e))
                                                \/ LeasePasses(j)
  <2>1. CASE Expire(j)
    <3> DEFINE e == Expired(jobs[j].attempt < MaxAttempts)
    <3>0. (jobs[j].attempt < MaxAttempts) \in BOOLEAN
      OBVIOUS
    <3>1. e \in Event /\ e.type = "lease_expired"
      BY <3>0, EventTypes DEF Expired, Plain
    <3> QED
      BY <2>1, <3>1 DEF Fits, Expire
  <2>2. CASE Enqueue(j)
    <3>1. Plain("enqueued") \in Event /\ Plain("enqueued").type = "enqueued"
      BY EventTypes DEF Plain
    <3> QED
      BY <2>2, <3>1 DEF Fits, Enqueue
  <2> QED
    BY <1>3, <2>1, <2>2, CanceledFits DEF JobStep, SendAbort, CancelJob
<1>4. ASSUME NEW w \in Workers, NEW j \in Jobs, TickLease(w, j) \/ ReconcileStartupLease(w, j)
      PROVE  UNCHANGED jobs \/ \E e \in Event : Fits(j, e)
  BY <1>4, HeartbeatFits DEF TickLease, ReconcileStartupLease
<1>5. ASSUME NEW j \in Jobs, Sweep(j) PROVE UNCHANGED jobs \/ \E e \in Event : Fits(j, e)
  <2>1. CASE SweepCompletes(j)
    <3> DEFINE e == By("completed", sweep[j].owner)
    <3>1. e \in Event /\ e.type = "completed"
      BY <1>0, EventTypes DEF SweepTypeOK, By, Plain
    <3>2. UNCHANGED jobs \/ Post(j, e)
      BY <2>1 DEF SweepCompletes, Report
    <3> QED
      BY <2>1, <3>1, <3>2 DEF Fits, SweepCompletes
  <2> QED
    BY <1>5, <2>1, CanceledFits DEF Sweep, SweepJob, SweepApplies
<1>6. ASSUME NEW r \in Runs, Handler(r) PROVE UNCHANGED jobs
  BY <1>6, HandlerTurn DEF Alone
<1>7. ASSUME NEW w \in Workers, StartProcess(w) \/ Die(w) PROVE UNCHANGED jobs
  BY <1>7 DEF StartProcess, Restart, Die, Crash
<1>8. ASSUME NEW r \in Runs PROVE JobOf(r) \in Jobs
  BY RunJob
<1>9. CASE UNCHANGED vars
  BY <1>9 DEF vars, workerVars
<1>10. CASE Next
  <2>1. ASSUME NEW r \in Runs, RunStep(r)
        PROVE  UNCHANGED jobs \/ \E j \in Jobs : \E e \in Event : Fits(j, e)
    BY <1>1, <1>8, <2>1
  <2>2. ASSUME NEW w \in Workers, WorkerOnly(w)
        PROVE  UNCHANGED jobs \/ \E j \in Jobs : \E e \in Event : Fits(j, e)
    BY <1>2, <1>4, <2>2 DEF WorkerOnly
  <2>3. ASSUME NEW j \in Jobs, LeasePasses(j) PROVE jobs' = [jobs EXCEPT ![j] = Age(@)]
    BY <2>3 DEF LeasePasses
  <2> QED
    BY <1>3, <1>5, <1>6, <1>7, <1>10, <2>1, <2>2, <2>3 DEF Next
<1> QED
  BY <1>9, <1>10

(* A job only ever gains attempts. *)
LEMMA AttemptsGrow ==
  ASSUME IInv, [Next]_vars, NEW j \in Jobs
  PROVE  jobs'[j].attempt \in Nat /\ jobs'[j].attempt >= jobs[j].attempt
<1>0. /\ jobs \in [Jobs -> Job] /\ jobs[j] \in Job /\ Fine(jobs[j])
      /\ jobs[j].attempt \in Nat
  BY DEF IInv, TypeParts, WorkerTypeOK, RunnerInv, LedgerInv, JobsInv, Job
<1>1. CASE UNCHANGED jobs
  BY <1>0, <1>1
<1>2. ASSUME NEW k \in Jobs, NEW e \in Event, Fits(k, e)
      PROVE  jobs'[j].attempt \in Nat /\ jobs'[j].attempt >= jobs[j].attempt
  <2>1. jobs' = [jobs EXCEPT ![k] = Reduce(jobs[k], e)]
    BY <1>2 DEF Fits, Post
  <2>2. CASE k # j
    BY <1>0, <2>1, <2>2
  <2>3. CASE k = j
    <3>1. jobs'[j] = Reduce(jobs[j], e)
      BY <1>0, <2>1, <2>3
    <3>2. CASE e.type \notin {"leased", "enqueued"}
      BY <1>0, <3>1, <3>2, ReduceAttempt
    <3>3. CASE e.type = "enqueued"
      <4>1. jobs[j].status = "none" /\ jobs[j].attempt = 0
        BY <1>0, <1>2, <2>3, <3>3 DEF Fits, Exists, Fine
      <4>2. Reduce(jobs[j], e) = [NoJob EXCEPT !.status = "queued"]
        BY <3>3 DEF Reduce, Applies, Effect
      <4> QED
        BY <3>1, <4>1, <4>2 DEF NoJob
    <3>4. CASE e.type = "leased"
      <4>1. jobs[j].status = "queued" /\ e.attempt = jobs[j].attempt + 1
        BY <1>2, <2>3, <3>4 DEF Fits
      <4>2. Reduce(jobs[j], e) = [jobs[j] EXCEPT !.status = "leased", !.attempt = e.attempt,
                                                 !.worker = e.worker, !.lease = "live"]
        BY <3>4, <4>1 DEF Reduce, Applies, Effect
      <4>3. Reduce(jobs[j], e).attempt = e.attempt
        BY <1>0, <4>2 DEF Job
      <4> QED
        BY <1>0, <3>1, <4>1, <4>3
    <3> QED
      BY <3>2, <3>3, <3>4
  <2> QED
    BY <2>2, <2>3
<1>3. ASSUME NEW k \in Jobs, jobs' = [jobs EXCEPT ![k] = Age(@)]
      PROVE  jobs'[j].attempt = jobs[j].attempt
  BY <1>0, <1>3 DEF Age, Job
<1> QED
  BY <1>0, <1>1, <1>2, <1>3, NextFits

(* A run starts with a lease of its job. *)
LEMMA RunsStart ==
  ASSUME IInv, [Next]_vars, NEW r \in Runs, Working(runs'[r]), ~Working(runs[r])
  PROVE  jobs'[JobOf(r)].attempt > jobs[JobOf(r)].attempt
<1>0. runs \in [Runs -> Run] /\ jobs \in [Jobs -> Job]
  BY DEF IInv, TypeParts, WorkerTypeOK
<1>1. CASE \E w \in Workers : Lease(w)
  <2> PICK w \in Workers, j \in Jobs :
        LET n == jobs[j].attempt + 1 IN
        /\ ShouldQueue(jobs[j])
        /\ Post(j, Leased(w, n))
        /\ runs' = [runs EXCEPT ![<<j, n>>] = [NoRun EXCEPT !.at = "preAbort", !.worker = w]]
    BY <1>1 DEF Lease
  <2>1. JobOf(r) = j
    BY <1>0 DEF JobOf
  <2>2. jobs'[j] = [jobs[j] EXCEPT !.status = "leased", !.attempt = jobs[j].attempt + 1,
                                   !.worker = w, !.lease = "live"]
    BY <1>0 DEF Post, Reduce, Applies, Effect, Leased, Plain, ShouldQueue
  <2>3. jobs[j].attempt \in Nat /\ jobs'[j].attempt = jobs[j].attempt + 1
    BY <1>0, <2>2 DEF Job
  <2> QED
    BY <2>1, <2>3
<1>2. ASSUME NEW s \in Runs, RunStep(s) PROVE FALSE
  <2>1. Working(runs[s]) \/ ~Working(runs'[s])
    BY <1>0, <1>2 DEF RunStep, PreAbort, Cancel, Beat, PostAbort, ReportOutcome, RunReturns,
         EndRun, Over, NoRun, At, Working
  <2>2. \A q \in Runs : q # s => runs'[q] = runs[q]
    BY <1>0, <1>2 DEF RunStep, PreAbort, Cancel, Beat, PostAbort, ReportOutcome, RunReturns,
         Goto, EndRun
  <2> QED
    BY <2>1, <2>2
<1>3. ASSUME NEW s \in Runs, Handler(s) PROVE FALSE
  BY <1>3, HandlerTurn DEF Alone, Working
<1>4. ASSUME NEW w \in Workers, Die(w) PROVE FALSE
  BY <1>0, <1>4 DEF Die, Crash, Over, NoRun, Working
<1>5. CASE UNCHANGED runs
  BY <1>5
<1> QED
  BY <1>1, <1>2, <1>3, <1>4, <1>5 DEF Next, vars, workerVars, WorkerOnly, TickLease,
     ReconcileStartupLease, StartProcess, Restart, JobStep, LeasePasses, Expire, Enqueue,
     SendAbort, CancelJob, Sweep, SweepJob, SweepApplies, SweepCompletes

(* Who was late stays late. *)
LEMMA LateStays == ASSUME IInv, [Next]_vars, late' = 0 PROVE late = 0
<1>0. late \in Nat
  BY WorkerAssumption DEF IInv, TypeParts, WorkerTypeOK
<1>1. ASSUME NEW s \in Runs, Handler(s) PROVE UNCHANGED late
  BY <1>1, HandlerTurn DEF Alone
<1>2. ASSUME NEW s \in Runs, RunStep(s) PROVE UNCHANGED late
  BY <1>2 DEF RunStep, PreAbort, Cancel, Beat, PostAbort, ReportOutcome, RunReturns
<1>3. ASSUME NEW w \in Workers, WorkerOnly(w) \/ StartProcess(w) \/ Die(w) PROVE UNCHANGED late
  BY <1>3 DEF WorkerOnly, Lease, TickLease, ReconcileStartupLease, StartProcess, Restart, Die, Crash
<1>4. ASSUME NEW j \in Jobs, JobStep(j) \/ Sweep(j) PROVE late' \in {late, late + 1}
  BY <1>4 DEF JobStep, LeasePasses, Expire, Enqueue, SendAbort, CancelJob, Sweep, SweepJob,
       SweepApplies, SweepCompletes, InTime
<1>5. late' \in {late, late + 1}
  BY <1>1, <1>2, <1>3, <1>4 DEF Next, vars, workerVars
<1> QED
  BY <1>0, <1>5

-----------------------------------------------------------------------------
(* At first nothing was run, *)
LEMMA OnceInit == ASSUME Init PROVE DiskInv /\ OnceInv
<1>1. ASSUME NEW r \in Runs PROVE JobOf(r) \in Jobs /\ calls[r] = Act!NoCallYet /\ stage[r] = "none"
  BY RunJob DEF Init, Act!ActivityInit
<1>2. ASSUME NEW j \in Jobs
      PROVE  /\ rows[j] = Act!NoRow /\ files[j] = None /\ tasks[j] = "running" /\ applied[j] = 0
             /\ sweep[j].at = "no"
  BY DEF Init, Act!ActivityInit, NoSweep
<1>3. DiskInv
  BY <1>1, <1>2 DEF DiskInv, DiskFacts, CallFacts, SweepFacts, Act!NoCallYet, Act!NoRow, Act!Cached
<1>4. OnceInv
  BY <1>1, <1>2 DEF OnceInv, OnceFacts, SweepInTime, Act!NoCallYet
<1> QED
  BY <1>3, <1>4

(* A job the sweep finds as it listed it has no run, unless somebody was late. *)
LEMMA StaleAlone ==
  ASSUME IInv, late = 0, NEW j \in Jobs, Stale(j) PROVE NoRunOf(j)
<1> SUFFICES ASSUME NEW r \in Runs, JobOf(r) = j, Working(runs[r]) PROVE FALSE
  BY DEF NoRunOf
<1>1. Owns(jobs[j], runs[r], r[2])
  BY DEF IInv, RunnerInv, LedgerInv, RunsInv
<1> QED
  BY <1>1 DEF Owns, Stale, LeasePast, Active, Terminal

(* A run that is not alive has nothing to apply. *)
LEMMA DeadRun ==
  ASSUME CallsInv, DiskInv, late = 0, NEW r \in Runs, ~Working(runs[r])
  PROVE  calls[r].at \in {"idle", "lost"} /\ stage[r] = "none"
<1>1. calls[r].at \notin {"idle", "lost"} => runs[r].at = "handling"
  BY DEF CallsInv, At
<1>2. CallFacts(calls[r], stage[r], rows[JobOf(r)], files[JobOf(r)], tasks[JobOf(r)])
  BY DEF DiskInv
<1> QED
  BY <1>1, <1>2 DEF Working, CallFacts

(* Steps that leave the handlers alone, and move the sweep as it may. *)
LEMMA OnceSame ==
  ASSUME IInv, DiskInv, OnceInv, [Next]_vars, UNCHANGED handlerVars,
         \A j \in Jobs : sweep'[j] # sweep[j] =>
           /\ SweepFacts(sweep'[j], jobs[j], files[j], tasks[j])
           /\ late' = 0 /\ sweep'[j].at = "apply" => tasks[j] = "running" /\ NoRunOf(j)
  PROVE  DiskInv' /\ OnceInv'
<1>0. sweep \in [Jobs -> [at : {"no", "listed", "apply", "complete"},
                          by : Workers \cup {None}, owner : Workers \cup {None}, attempt : Nat]]
      /\ jobs \in [Jobs -> Job]
  BY DEF IInv, TypeParts, SweepTypeOK, WorkerTypeOK
<1>t. SweepTypeOK'
  BY TypeNext DEF IInv, TypeParts, RunnerInv, LedgerInv
<1>1. ASSUME NEW j \in Jobs PROVE SweepFacts(sweep'[j], jobs'[j], files[j], tasks[j])
  <2>1. SweepFacts(sweep'[j], jobs[j], files[j], tasks[j])
    BY DEF DiskInv
  <2>2. jobs'[j].attempt \in Nat /\ jobs'[j].attempt >= jobs[j].attempt /\ jobs[j].attempt \in Nat
    BY <1>0, AttemptsGrow DEF Job
  <2>3. sweep'[j].attempt \in Nat
    BY <1>t DEF SweepTypeOK
  <2> QED
    BY <2>1, <2>2, <2>3 DEF SweepFacts
<1>2. UNCHANGED <<rows, attempts, calls, files, tasks, applied, stage>>
  BY DEF handlerVars
<1>3. DiskInv'
  BY <1>1, <1>2 DEF DiskInv
<1>4. ASSUME late' = 0, NEW j \in Jobs PROVE SweepInTime(j)'
  <2> SUFFICES ASSUME sweep'[j].at = "apply"
               PROVE  \/ sweep'[j].attempt < jobs'[j].attempt
                      \/ tasks[j] = "running" /\ NoRunOf(j)'
    BY <1>2 DEF SweepInTime
  <2>1. sweep'[j].attempt < jobs[j].attempt \/ (tasks[j] = "running" /\ NoRunOf(j))
    BY <1>4, LateStays DEF OnceInv, SweepInTime
  <2>2. /\ jobs'[j].attempt \in Nat /\ jobs'[j].attempt >= jobs[j].attempt
        /\ jobs[j].attempt \in Nat /\ sweep'[j].attempt \in Nat
    BY <1>0, <1>t, AttemptsGrow DEF Job, SweepTypeOK
  <2>3. sweep'[j].attempt <= jobs[j].attempt
    BY DEF DiskInv, SweepFacts
  <2>4. CASE NoRunOf(j) /\ ~NoRunOf(j)'
    <3>1. jobs'[j].attempt > jobs[j].attempt
      BY <2>4, RunsStart DEF NoRunOf
    <3> QED
      BY <2>2, <2>3, <3>1
  <2> QED
    BY <2>1, <2>2, <2>4
<1>5. OnceInv'
  BY <1>2, <1>4, LateStays DEF OnceInv
<1> QED
  BY <1>3, <1>5

(* A process dies: its runs forget, and so does its sweep. *)
LEMMA OnceDie ==
  ASSUME IInv, DiskInv, OnceInv, NEW w \in Workers, Die(w) PROVE DiskInv' /\ OnceInv'
<1>1. UNCHANGED <<jobs, rows, files, tasks, applied, late>>
  BY DEF Die, Crash
<1>2. ASSUME NEW r \in Runs
      PROVE  \/ calls'[r] = calls[r] /\ stage'[r] = stage[r]
             \/ calls'[r].at = "lost" /\ stage'[r] = "none"
  BY DEF Die, Forget, Act!Gone, Act!NoCallYet
<1>3. ASSUME NEW j \in Jobs PROVE sweep'[j] = sweep[j] \/ sweep'[j].at = "no"
  BY DEF Die, NoSweep
<1>4. ASSUME NEW r \in Runs PROVE Working(runs'[r]) => Working(runs[r])
  BY DEF Die, Crash, Over, NoRun, Working
<1>5. DiskInv'
  <2>1. ASSUME NEW r \in Runs
        PROVE  CallFacts(calls'[r], stage'[r], rows[JobOf(r)], files[JobOf(r)], tasks[JobOf(r)])
    BY <1>2 DEF DiskInv, CallFacts
  <2>2. ASSUME NEW j \in Jobs PROVE SweepFacts(sweep'[j], jobs[j], files[j], tasks[j])
    BY <1>3 DEF DiskInv, SweepFacts
  <2> QED
    BY <1>1, <2>1, <2>2 DEF DiskInv
<1>6. OnceInv'
  <2> SUFFICES ASSUME late = 0 PROVE OnceInv'
    BY <1>1 DEF OnceInv
  <2>1. ASSUME NEW r \in Runs
        PROVE  OnceFacts(calls'[r], stage'[r], rows[JobOf(r)], files[JobOf(r)], tasks[JobOf(r)])
    BY <1>2 DEF OnceInv, OnceFacts
  <2>2. ASSUME NEW j \in Jobs PROVE SweepInTime(j)'
    BY <1>1, <1>3, <1>4 DEF OnceInv, SweepInTime, NoRunOf
  <2> QED
    BY <1>1, <2>1, <2>2 DEF OnceInv
<1> QED
  BY <1>5, <1>6

(* The sweep applies a result. *)
LEMMA OnceApplies ==
  ASSUME IInv, CallsInv, DiskInv, OnceInv, NEW j \in Jobs, SweepApplies(j)
  PROVE  DiskInv' /\ OnceInv'
<1>0. /\ sweep \in [Jobs -> [at : {"no", "listed", "apply", "complete"},
                             by : Workers \cup {None}, owner : Workers \cup {None}, attempt : Nat]]
      /\ jobs \in [Jobs -> Job] /\ tasks \in [Jobs -> {"running", "done"}]
      /\ applied \in [Jobs -> Nat] /\ late \in Nat
  BY WorkerAssumption DEF IInv, TypeParts, SweepTypeOK, WorkerTypeOK, TaskTypeOK
<1>1. /\ UNCHANGED <<jobs, runs, rows, calls, files, stage>>
      /\ sweep[j].at = "apply" /\ tasks'[j] = "done" /\ applied'[j] = applied[j] + 1
      /\ sweep'[j].at = "complete" /\ sweep'[j].attempt = sweep[j].attempt
      /\ \A k \in Jobs : k # j => SameTasks(k) /\ sweep'[k] = sweep[k]
      /\ InTime(j)
  BY <1>0 DEF SweepApplies, Apply, SweepTo, SameTasks
<1>2. \A k \in Jobs : tasks[k] = "done" => tasks'[k] = "done"
  BY <1>1 DEF SameTasks
<1>3. DiskInv'
  <2>1. ASSUME NEW k \in Jobs
        PROVE  /\ DiskFacts(rows[k], files[k], tasks'[k])
               /\ SweepFacts(sweep'[k], jobs[k], files[k], tasks'[k])
    <3>1. DiskFacts(rows[k], files[k], tasks[k]) /\ SweepFacts(sweep[k], jobs[k], files[k], tasks[k])
      BY DEF DiskInv
    <3> QED
      BY <1>1, <3>1 DEF DiskFacts, SweepFacts, SameTasks
  <2>2. ASSUME NEW r \in Runs
        PROVE  CallFacts(calls[r], stage[r], rows[JobOf(r)], files[JobOf(r)], tasks'[JobOf(r)])
    BY <1>2, RunJob DEF DiskInv, CallFacts
  <2> QED
    BY <1>1, <2>1, <2>2 DEF DiskInv
<1>4. ASSUME late' = 0 PROVE OnceInv'
  <2>1. late = 0 /\ Stale(j) /\ jobs[j].attempt = sweep[j].attempt
    BY <1>0, <1>1, <1>4 DEF InTime, AsListed
  <2>2. NoRunOf(j)
    BY <2>1, StaleAlone
  <2>3. tasks[j] = "running"
    BY <1>0, <1>1, <2>1 DEF OnceInv, SweepInTime, Job
  <2>4. ASSUME NEW r \in Runs
        PROVE  OnceFacts(calls[r], stage[r], rows[JobOf(r)], files[JobOf(r)], tasks'[JobOf(r)])
    <3>1. CASE JobOf(r) = j
      <4>1. calls[r].at \in {"idle", "lost"} /\ stage[r] = "none"
        BY <2>1, <2>2, <3>1, DeadRun DEF NoRunOf
      <4> QED
        BY <4>1 DEF OnceFacts
    <3>2. CASE JobOf(r) # j
      <4>1. tasks'[JobOf(r)] = tasks[JobOf(r)]
        BY <1>1, <3>2, RunJob DEF SameTasks
      <4> QED
        BY <2>1, <4>1 DEF OnceInv
    <3> QED
      BY <3>1, <3>2
  <2>5. ASSUME NEW k \in Jobs
        PROVE  /\ applied'[k] = IF tasks'[k] = "done" THEN 1 ELSE 0
               /\ SweepInTime(k)'
    <3>1. CASE k = j
      <4>1. applied[j] = 0
        BY <2>1, <2>3 DEF OnceInv
      <4> QED
        BY <1>1, <3>1, <4>1 DEF SweepInTime
    <3>2. CASE k # j
      BY <1>1, <2>1, <3>2 DEF OnceInv, SweepInTime, NoRunOf, SameTasks
    <3> QED
      BY <3>1, <3>2
  <2> QED
    BY <1>1, <2>4, <2>5 DEF OnceInv
<1> QED
  BY <1>3, <1>4 DEF OnceInv

(* Every step keeps both. *)
LEMMA OnceNext ==
  ASSUME IInv, CallsInv, DiskInv, OnceInv, [Next]_vars PROVE DiskInv' /\ OnceInv'
<1>1. ASSUME UNCHANGED <<handlerVars, sweep>> PROVE DiskInv' /\ OnceInv'
  BY <1>1, OnceSame
<1>2. ASSUME NEW r \in Runs, Handler(r) PROVE DiskInv' /\ OnceInv'
  BY <1>2, HandlerTurn, DiskTurn, OnceTurn
<1>3. ASSUME NEW w \in Workers, StartProcess(w) PROVE DiskInv' /\ OnceInv'
  <2>1. ASSUME NEW j \in Jobs, sweep'[j] # sweep[j]
        PROVE  sweep'[j].at = "listed" /\ sweep'[j].attempt = jobs[j].attempt
    BY <1>3, <2>1 DEF StartProcess
  <2>2. ASSUME NEW j \in Jobs PROVE jobs[j].attempt \in Nat
    BY DEF IInv, TypeParts, WorkerTypeOK, Job
  <2>3. UNCHANGED handlerVars
    BY <1>3 DEF StartProcess
  <2>4. ASSUME NEW j \in Jobs, sweep'[j] # sweep[j]
        PROVE  /\ SweepFacts(sweep'[j], jobs[j], files[j], tasks[j])
               /\ sweep'[j].at # "apply"
    BY <2>1, <2>2, <2>4 DEF SweepFacts
  <2> QED
    BY <2>3, <2>4, OnceSame
<1>4. ASSUME NEW w \in Workers, Die(w) PROVE DiskInv' /\ OnceInv'
  BY <1>4, OnceDie
<1>5. ASSUME NEW j \in Jobs, SweepJob(j) PROVE DiskInv' /\ OnceInv'
  <2>0. /\ sweep[j] \in [at : {"no", "listed", "apply", "complete"}, by : Workers \cup {None},
                         owner : Workers \cup {None}, attempt : Nat]
        /\ jobs[j].attempt \in Nat /\ tasks[j] \in {"running", "done"} /\ late \in Nat
    BY WorkerAssumption DEF IInv, TypeParts, WorkerTypeOK, SweepTypeOK, TaskTypeOK, Job
  <2>1. /\ UNCHANGED handlerVars /\ sweep[j].at = "listed" /\ InTime(j)
        /\ \A k \in Jobs : k # j => sweep'[k] = sweep[k]
    <3>1. sweep \in [Jobs -> [at : {"no", "listed", "apply", "complete"}, by : Workers \cup {None},
                         owner : Workers \cup {None}, attempt : Nat]]
      BY DEF IInv, TypeParts, SweepTypeOK
    <3>2. \/ \E at : sweep' = [sweep EXCEPT ![j].at = at]
          \/ sweep' = [sweep EXCEPT ![j] = NoSweep]
      BY <1>5 DEF SweepJob, SweepTo
    <3>3. UNCHANGED handlerVars /\ sweep[j].at = "listed" /\ InTime(j)
      BY <1>5 DEF SweepJob
    <3> QED
      BY <3>1, <3>2, <3>3
  <2>2. SweepFacts(sweep[j], jobs[j], files[j], tasks[j]) /\ DiskFacts(rows[j], files[j], tasks[j])
    BY DEF DiskInv
  <2>3. CASE HasResult(j)
    <3> DEFINE at == IF tasks[j] = "running" THEN "apply" ELSE "complete"
    <3>1. sweep' = [sweep EXCEPT ![j].at = at]
      BY <1>5, <2>3 DEF SweepJob, SweepTo, NeedsResult
    <3>2. sweep \in [Jobs -> [at : {"no", "listed", "apply", "complete"}, by : Workers \cup {None},
                         owner : Workers \cup {None}, attempt : Nat]]
      BY DEF IInv, TypeParts, SweepTypeOK
    <3>3. sweep'[j].at = at /\ sweep'[j].attempt = sweep[j].attempt
      BY <2>0, <3>1, <3>2
    <3>4. files[j] # None
      BY <2>2, <2>3 DEF HasResult, DiskFacts
    <3>5. SweepFacts(sweep'[j], jobs[j], files[j], tasks[j])
      BY <2>0, <2>1, <2>2, <3>3, <3>4 DEF SweepFacts
    <3>6. late' = 0 => late = 0 /\ Stale(j)
      BY <2>0, <2>1 DEF InTime, AsListed
    <3>7. late' = 0 /\ sweep'[j].at = "apply" => tasks[j] = "running" /\ NoRunOf(j)
      BY <3>3, <3>6, StaleAlone
    <3> QED
      BY <2>1, <3>5, <3>7, OnceSame
  <2>4. CASE ~HasResult(j)
    <3>1. sweep' = [sweep EXCEPT ![j] = NoSweep]
      BY <1>5, <2>4 DEF SweepJob
    <3>2. sweep'[j].at = "no"
      BY <3>1 DEF NoSweep, IInv, TypeParts, SweepTypeOK
    <3>3. SweepFacts(sweep'[j], jobs[j], files[j], tasks[j])
      BY <3>2 DEF SweepFacts
    <3> QED
      BY <2>1, <3>2, <3>3, OnceSame
  <2> QED
    BY <2>3, <2>4
<1>6. ASSUME NEW j \in Jobs, SweepApplies(j) PROVE DiskInv' /\ OnceInv'
  BY <1>6, OnceApplies
<1>7. ASSUME NEW j \in Jobs, SweepCompletes(j) PROVE DiskInv' /\ OnceInv'
  <2>1. UNCHANGED handlerVars /\ sweep' = [sweep EXCEPT ![j] = NoSweep]
    BY <1>7 DEF SweepCompletes
  <2>2. ASSUME NEW k \in Jobs, sweep'[k] # sweep[k] PROVE sweep'[k].at = "no"
    BY <2>1, <2>2 DEF NoSweep, IInv, TypeParts, SweepTypeOK
  <2>3. ASSUME NEW k \in Jobs, sweep'[k] # sweep[k]
        PROVE  SweepFacts(sweep'[k], jobs[k], files[k], tasks[k]) /\ sweep'[k].at # "apply"
    BY <2>2, <2>3 DEF SweepFacts
  <2> QED
    BY <2>1, <2>3, OnceSame
<1>8. CASE UNCHANGED vars
  BY <1>1, <1>8 DEF vars
<1> QED
  BY <1>1, <1>2, <1>3, <1>4, <1>5, <1>6, <1>7, <1>8 DEF Next, Sweep

(* They hold of every behaviour. *)
LEMMA ResultsInvariance == Spec => [](IInv /\ CallsInv /\ DiskInv /\ OnceInv)
<1>1. Init => CallsInv /\ DiskInv /\ OnceInv
  BY CallsInit, OnceInit
<1>2. IInv /\ CallsInv /\ DiskInv /\ OnceInv /\ [Next]_vars => CallsInv' /\ DiskInv' /\ OnceInv'
  BY CallsNext, OnceNext
<1> QED
  BY <1>1, <1>2, Invariance, PTL DEF Spec

(* As long as nobody was late, the result of a task is applied to the       *)
(* objective at most once: by the run that produced it (runTask), by a run  *)
(* that recovers it, or by the sweep of a process that starts.             *)
THEOREM AppliesOnce == Spec => []AppliedOnce
<1>1. OnceInv => AppliedOnce
  BY DEF OnceInv, AppliedOnce
<1> QED
  BY <1>1, ResultsInvariance, PTL

-----------------------------------------------------------------------------
(* The row of the activity changes only when a call begins or decides it. *)
LEMMA RowMoves ==
  ASSUME IInv, [Next]_vars, ~UNCHANGED rows
  PROVE  late' = late /\ \E r \in Runs :
           /\ runs[r].at = "handling" /\ \A k \in Jobs : k # JobOf(r) => rows'[k] = rows[k]
           /\ Decides(r, JobOf(r)) \/ Begins(r, JobOf(r)) \/ Ends(r, JobOf(r))
<1>1. PICK r \in Runs : Handler(r)
  BY DEF Next, vars, handlerVars, StartProcess, Die, Sweep, SweepJob, SweepApplies, SweepCompletes
<1>2. Turn(r, JobOf(r)) /\ Alone(r, JobOf(r)) /\ JobOf(r) \in Jobs
  BY <1>1, HandlerTurn, RunJob
<1>3. rows \in [Jobs -> Act!Row] /\ rows' \in [Jobs -> Act!Row]
  <2>1. TypeParts'
    BY TypeNext DEF IInv, RunnerInv, LedgerInv
  <2> QED
    BY <2>1 DEF IInv, TypeParts, Act!ActivityTypeOK
<1>4. ~SameRow(JobOf(r))
  BY <1>2, <1>3 DEF Alone, SameRow
<1> QED
  BY <1>2, <1>4 DEF Turn, Alone, SameRow, Looks, Works, Applying, Leaves

(* Which is a step of the promise, or none. *)
LEMMA OnceStep ==
  ASSUME IInv, CallsInv, DiskInv, OnceInv, [Next]_vars, late' = 0
  PROVE  Once!Next \/ UNCHANGED Once!vars
<1>0. late = 0
  BY LateStays
<1>1. CASE UNCHANGED rows
  BY <1>1 DEF Once!vars
<1>2. CASE ~UNCHANGED rows
  <2> PICK r \in Runs :
        /\ \A k \in Jobs : k # JobOf(r) => rows'[k] = rows[k]
        /\ Decides(r, JobOf(r)) \/ Begins(r, JobOf(r)) \/ Ends(r, JobOf(r))
    BY <1>2, RowMoves
  <2> DEFINE j == JobOf(r)
             T == [k \in Jobs |-> rows[k].attempts]
             O == [k \in Jobs |-> IF Act!Cached(rows[k]) THEN rows[k].output ELSE None]
             T1 == [k \in Jobs |-> rows'[k].attempts]
             O1 == [k \in Jobs |-> IF Act!Cached(rows'[k]) THEN rows'[k].output ELSE None]
  <2>0. /\ j \in Jobs /\ calls[r].output \in Runs \cup {None} /\ rows[j].attempts \in Nat
        /\ CallFacts(calls[r], stage[r], rows[j], files[j], tasks[j])
        /\ OnceFacts(calls[r], stage[r], rows[j], files[j], tasks[j])
    BY <1>0, RunJob DEF IInv, TypeParts, Act!ActivityTypeOK, Act!Call, Act!Row, DiskInv, OnceInv
  <2>1. CASE Begins(r, j)
    <3>1. ~Act!Cached(rows[j]) /\ ~Act!Cached(rows'[j])
            /\ rows'[j].attempts = rows[j].attempts + 1
      BY <2>0, <2>1 DEF Begins, OnceFacts, Act!Cached
    <3>2. O1 = O
      BY <3>1
    <3>3. T1 = [T EXCEPT ![j] = @ + 1] /\ O[j] = None
      BY <2>0, <3>1
    <3>4. Once!Try(j)
      BY <3>2, <3>3 DEF Once!Try, Once!Open
    <3> QED
      BY <2>0, <3>4 DEF Once!Next
  <2>2. CASE Decides(r, j)
    <3> DEFINE output == calls[r].output
    <3>1. /\ ~Act!Cached(rows[j]) /\ output \in Runs /\ rows[j].attempts > 0
          /\ Act!Cached(rows'[j]) /\ rows'[j].output = output
          /\ rows'[j].attempts = rows[j].attempts
      BY <2>0, <2>2 DEF Decides, OnceFacts, CallFacts, Act!Cached
    <3>2. T1 = T /\ T[j] > 0 /\ O[j] = None
      BY <2>0, <3>1
    <3>3. O1 = [O EXCEPT ![j] = output]
      BY <2>0, <3>1
    <3>4. Once!Decide(j)
      BY <3>1, <3>2, <3>3 DEF Once!Decide, Once!Open
    <3> QED
      BY <2>0, <3>4 DEF Once!Next
  <2>3. CASE Ends(r, j)
    <3>1. CASE SameRow(j)
      BY <3>1 DEF Once!vars, SameRow
    <3>2. CASE ~SameRow(j)
      <4>1. ~Act!Cached(rows[j]) /\ ~Act!Cached(rows'[j]) /\ rows'[j].attempts = rows[j].attempts
        BY <2>0, <2>3, <3>2 DEF Ends, OnceFacts, Act!Cached
      <4>2. T1 = T /\ O1 = O
        BY <4>1
      <4> QED
        BY <4>2 DEF Once!vars
    <3> QED
      BY <3>1, <3>2
  <2> QED
    BY <2>1, <2>2, <2>3
<1> QED
  BY <1>1, <1>2

(* As long as nobody was late, the row of the activity (runDurableActivity, *)
(* packages/durable/src/local.ts) keeps the promise of ActivityOnce: each  *)
(* step starts an attempt while there is no outcome, or sets the outcome,   *)
(* once and for all, or leaves both alone.                                 *)
THEOREM KeepsPromise == Spec => ImplementsOnce
<1> DEFINE A == late' = 0 => Once!Next \/ UNCHANGED Once!vars
<1>1. Init => Once!Init
  BY DEF Init, Act!ActivityInit, Act!NoRow, Act!Cached, Once!Init
<1>2. IInv /\ CallsInv /\ DiskInv /\ OnceInv /\ [Next]_vars => [A]_vars
  BY OnceStep
<1> QED
  BY <1>1, <1>2, ResultsInvariance, PTL DEF Spec, ImplementsOnce

-----------------------------------------------------------------------------
(* With two attempts, however late a worker is: when the row has an outcome *)
(* that the task does not, both runs are past the look at the row, so that *)
(* no run takes the outcome for one that was applied.                      *)
PastLookup(j) == \A s \in Runs : JobOf(s) = j => calls[s].at # "idle"

TwoInv ==
  /\ \A j \in Jobs : files[j] # None =>
       /\ JobOf(files[j]) = j
       /\ calls[files[j]].at \notin {"idle", "recover", "record", "begin"}
  /\ \A j \in Jobs : Act!Cached(rows[j]) => tasks[j] = "done" \/ PastLookup(j)
  /\ \A r \in Runs : calls[r].at = "record" => PastLookup(JobOf(r))
  /\ \A r \in Runs : calls[r].at = "done" \/ runs[r].result = "ok" => tasks[JobOf(r)] = "done"
  /\ CompletedIsApplied

(* Two runs of a job, one of which wrote the file, are all there are. *)
LEMMA TwoRuns ==
  ASSUME MaxAttempts <= 2, NEW r \in Runs, NEW s \in Runs, NEW q \in Runs,
         JobOf(r) = JobOf(s), JobOf(q) = JobOf(s), r # s
  PROVE  q = r \/ q = s
<1>1. r[2] \in 1..2 /\ s[2] \in 1..2 /\ q[2] \in 1..2
  BY RunJob, WorkerAssumption
<1>2. r[2] # s[2]
  BY RunIs
<1>3. q[2] = r[2] \/ q[2] = s[2]
  BY <1>1, <1>2
<1> QED
  BY <1>3, RunIs

(* It holds at first. *)
LEMMA TwoInit == ASSUME Init PROVE TwoInv
<1>1. \A r \in Runs : JobOf(r) \in Jobs /\ calls[r].at = "idle" /\ runs[r].result = "none"
  BY RunJob DEF Init, Act!ActivityInit, Act!NoCallYet, WorkerInit, NoRun
<1>2. \A j \in Jobs : files[j] = None /\ ~Act!Cached(rows[j]) /\ jobs[j].status = "none"
  BY DEF Init, Act!ActivityInit, Act!NoRow, Act!Cached, WorkerInit, NoJob
<1> QED
  BY <1>1, <1>2 DEF TwoInv, CompletedIsApplied

(* A turn of the handler keeps it. *)
LEMMA TwoTurn ==
  ASSUME MaxAttempts <= 2, IInv, DiskInv, TwoInv, NEW r \in Runs, Turn(r, JobOf(r)),
         Alone(r, JobOf(r))
  PROVE  TwoInv'
<1> DEFINE j == JobOf(r)
<1>0. /\ j \in Jobs /\ tasks[j] \in {"running", "done"} /\ files[j] \in Runs \cup {None}
      /\ None \notin Runs /\ UNCHANGED jobs
      /\ \A k \in Jobs : files[k] \in Runs \cup {None}
  BY RunJob, RunAssumption DEF IInv, TypeParts, Act!ActivityTypeOK, TaskTypeOK, Alone
<1>1. /\ DiskFacts(rows[j], files[j], tasks[j])
      /\ CallFacts(calls[r], stage[r], rows[j], files[j], tasks[j])
  BY <1>0 DEF DiskInv
<1>2. \A k \in Jobs : tasks[k] = "done" => tasks'[k] = "done"
  BY <1>0 DEF Turn, Looks, Works, Decides, Begins, Ends, Applying, Leaves, Alone, SameTasks
<1>3. \A s \in Runs : calls[s].at # "idle" => calls'[s].at # "idle"
  <2>1. calls[r].at # "idle" => calls'[r].at # "idle"
    BY DEF Turn, Looks, Works, Decides, Begins, Ends, Applying, Leaves, Act!Gone, Act!NoCallYet
  <2> QED
    BY <2>1 DEF Alone
<1>4. \A k \in Jobs : PastLookup(k) => PastLookup(k)'
  BY <1>3 DEF PastLookup
<1>5. ASSUME NEW k \in Jobs, files'[k] # None
      PROVE  /\ JobOf(files'[k]) = k
             /\ calls'[files'[k]].at \notin {"idle", "recover", "record", "begin"}
  <2>1. CASE files'[k] = files[k]
    <3>1. /\ files[k] \in Runs /\ JobOf(files[k]) = k
          /\ calls[files[k]].at \notin {"idle", "recover", "record", "begin"}
      BY <1>0, <1>5, <2>1 DEF TwoInv
    <3>2. CASE files[k] # r
      BY <2>1, <3>1, <3>2 DEF Alone
    <3>3. CASE files[k] = r
      <4>1. calls'[r].at \notin {"idle", "recover", "record", "begin"}
        BY <3>1, <3>3 DEF Turn, Looks, Works, Decides, Begins, Ends, Applying, Leaves,
             Act!Gone, Act!NoCallYet
      <4> QED
        BY <2>1, <3>1, <3>3, <4>1
    <3> QED
      BY <3>2, <3>3
  <2>2. CASE files'[k] # files[k]
    <3>1. k = j
      BY <2>2 DEF Alone, SameFile
    <3>2. files'[j] = r /\ calls'[r].at = "work"
      BY <2>2, <3>1 DEF Turn, Looks, Works, Decides, Begins, Ends, Applying, Leaves, SameFile
    <3> QED
      BY <3>1, <3>2
  <2> QED
    BY <2>1, <2>2
<1>6. ASSUME NEW s \in Runs, calls'[s].at = "record" PROVE PastLookup(JobOf(s))'
  <2>1. CASE calls[s].at = "record"
    BY <1>4, <2>1, RunJob DEF TwoInv
  <2>2. CASE calls[s].at # "record"
    <3>1. s = r
      BY <1>6, <2>2 DEF Alone
    <3>2. calls[r].at = "recover" /\ files[j] # None
      BY <1>6, <2>2, <3>1 DEF Turn, Looks, Works, Decides, Begins, Ends, Applying, Leaves,
           Act!Gone, Act!NoCallYet
    <3> DEFINE f == files[j]
    <3>3. /\ f \in Runs /\ JobOf(f) = j /\ f # r
          /\ calls[f].at \notin {"idle", "recover", "record", "begin"}
      BY <1>0, <3>2 DEF TwoInv
    <3>4. PastLookup(j)
      BY <3>2, <3>3, TwoRuns DEF PastLookup
    <3> QED
      BY <1>0, <1>4, <3>1, <3>4
  <2> QED
    BY <2>1, <2>2
<1>7. ASSUME NEW k \in Jobs, Act!Cached(rows'[k]) PROVE tasks'[k] = "done" \/ PastLookup(k)'
  <2>1. CASE Act!Cached(rows[k])
    BY <1>2, <1>4, <2>1 DEF TwoInv
  <2>2. CASE ~Act!Cached(rows[k])
    <3>1. k = j
      BY <1>7, <2>2 DEF Alone, SameRow
    <3>2. Decides(r, j)
      BY <1>7, <2>2, <3>1 DEF Turn, Looks, Works, Begins, Ends, Applying, Leaves, SameRow, Act!Cached
    <3>3. tasks[j] = "done" \/ PastLookup(j)
      BY <1>1, <3>2 DEF Decides, CallFacts, TwoInv
    <3> QED
      BY <1>0, <1>2, <1>4, <3>1, <3>3
  <2> QED
    BY <2>1, <2>2
<1>8. ASSUME NEW s \in Runs, calls'[s].at = "done" \/ runs'[s].result = "ok"
      PROVE  tasks'[JobOf(s)] = "done"
  <2>1. CASE s # r
    <3>1. tasks[JobOf(s)] = "done"
      BY <1>8, <2>1 DEF Alone, TwoInv
    <3> QED
      BY <1>2, <3>1, RunJob
  <2>2. CASE s = r
    <3>1. tasks[j] = "done"
      <4>1. CASE calls[r].at = "done" \/ runs[r].result = "ok"
        BY <4>1 DEF TwoInv
      <4>2. CASE calls[r].at \notin {"done"} /\ runs[r].result # "ok"
        <5>1. CASE calls[r].at = "idle" /\ Act!Cached(rows[j])
          BY <1>0, <5>1 DEF TwoInv, PastLookup
        <5>2. CASE stage[r] = "applied" \/ calls[r].at = "stamp"
          BY <1>1, <5>2 DEF CallFacts
        <5> QED
          BY <1>8, <2>2, <4>2, <5>1, <5>2 DEF Turn, Stays, Looks, Works, Decides, Begins, Ends,
             Applying, Leaves, Act!Gone, Act!NoCallYet
      <4> QED
        BY <4>1, <4>2
    <3> QED
      BY <1>0, <1>2, <2>2, <3>1
  <2> QED
    BY <2>1, <2>2
<1>9. CompletedIsApplied'
  BY <1>0, <1>2 DEF TwoInv, CompletedIsApplied
<1> QED
  BY <1>5, <1>6, <1>7, <1>8, <1>9 DEF TwoInv

(* A run has no result but what its handler returned. *)
LEMMA ResultKept ==
  ASSUME IInv, [Next]_vars, \A r \in Runs : ~Handler(r), NEW s \in Runs, runs'[s].result = "ok"
  PROVE  runs[s].result = "ok"
<1>0. runs \in [Runs -> Run]
  BY DEF IInv, TypeParts, WorkerTypeOK
<1>1. ASSUME NEW r \in Runs, RunStep(r) PROVE runs[s].result = "ok"
  <2>1. CASE \E step \in Steps : Goto(r, step)
    BY <1>0, <2>1 DEF Goto, Run
  <2>2. CASE EndRun(r)
    BY <1>0, <2>2 DEF EndRun, Over, NoRun
  <2> QED
    BY <1>1, <2>1, <2>2 DEF RunStep, PreAbort, Cancel, Beat, PostAbort, ReportOutcome,
       RunReturns, Steps
<1>2. ASSUME NEW w \in Workers, Lease(w) PROVE runs[s].result = "ok"
  <2> PICK r : runs' = [runs EXCEPT ![r] = [NoRun EXCEPT !.at = "preAbort", !.worker = w]]
    BY <1>2 DEF Lease
  <2> QED
    BY <1>0 DEF NoRun
<1>3. ASSUME NEW w \in Workers, Die(w) PROVE runs[s].result = "ok"
  BY <1>0, <1>3 DEF Die, Crash, Over, NoRun
<1>4. CASE UNCHANGED runs
  BY <1>4
<1> QED
  BY <1>1, <1>2, <1>3, <1>4 DEF Next, vars, workerVars, WorkerOnly, TickLease,
     ReconcileStartupLease, StartProcess, Restart, JobStep, LeasePasses, Expire, Enqueue,
     SendAbort, CancelJob, Sweep, SweepJob, SweepApplies, SweepCompletes

(* A job is completed by a run that succeeded, or by the sweep. *)
LEMMA CompletedNext ==
  ASSUME IInv, DiskInv, TwoInv, [Next]_vars, NEW j \in Jobs, jobs'[j].status = "completed"
  PROVE  tasks[j] = "done"
<1>0. jobs \in [Jobs -> Job]
  BY DEF IInv, TypeParts, WorkerTypeOK
<1> SUFFICES ASSUME jobs[j].status # "completed" PROVE tasks[j] = "done"
  BY DEF TwoInv, CompletedIsApplied
<1>1. ASSUME NEW k \in Jobs, jobs' = [jobs EXCEPT ![k] = Age(@)] PROVE FALSE
  BY <1>0, <1>1 DEF Age, Job
<1>2. PICK k \in Jobs, e \in Event : Fits(k, e)
  BY <1>1, NextFits
<1>3. k = j /\ jobs'[j] = Reduce(jobs[j], e)
  BY <1>0, <1>2 DEF Fits, Post
<1>4. e.type # "enqueued"
  BY <1>3 DEF Reduce, Applies, Effect, NoJob
<1>5. e.type # "leased"
  BY <1>0, <1>3 DEF Reduce, Applies, Effect, Job
<1>6. e.type = "completed"
  BY <1>0, <1>3, <1>4, <1>5, ReduceAttempt
<1> QED
  BY <1>2, <1>3, <1>6 DEF Fits, TwoInv, DiskInv, SweepFacts

(* Every step keeps what two attempts give. *)
LEMMA TwoNext ==
  ASSUME MaxAttempts <= 2, IInv, DiskInv, TwoInv, [Next]_vars PROVE TwoInv'
<1>1. CASE \E r \in Runs : Handler(r)
  BY <1>1, HandlerTurn, TwoTurn
<1>2. CASE \A r \in Runs : ~Handler(r)
  <2>0. tasks \in [Jobs -> {"running", "done"}] /\ files \in [Jobs -> Runs \cup {None}]
    BY DEF IInv, TypeParts, TaskTypeOK, Act!ActivityTypeOK
  <2>1. UNCHANGED <<rows, files>>
    BY <1>2 DEF Next, vars, handlerVars, StartProcess, Die, Sweep, SweepJob, SweepApplies,
         SweepCompletes
  <2>2. \A s \in Runs : calls'[s] = calls[s] \/ calls'[s].at = "lost"
    <3>1. CASE UNCHANGED calls
      BY <3>1
    <3>2. ASSUME NEW w \in Workers, Die(w)
          PROVE  \A s \in Runs : calls'[s] = calls[s] \/ calls'[s].at = "lost"
      BY <3>2 DEF Die, Forget, Act!Gone, Act!NoCallYet
    <3> QED
      BY <1>2, <3>1, <3>2 DEF Next, vars, handlerVars, StartProcess, Sweep, SweepJob,
           SweepApplies, SweepCompletes
  <2>3. \A k \in Jobs : tasks[k] = "done" => tasks'[k] = "done"
    <3>1. UNCHANGED tasks \/ \E j \in Jobs : tasks' = [tasks EXCEPT ![j] = "done"]
      BY <1>2 DEF Next, vars, handlerVars, StartProcess, Die, Sweep, SweepJob, SweepApplies,
           SweepCompletes, Apply
    <3> QED
      BY <2>0, <3>1
  <2>4. \A k \in Jobs : PastLookup(k) => PastLookup(k)'
    BY <2>2 DEF PastLookup
  <2>5. ASSUME NEW k \in Jobs, files[k] # None
        PROVE  calls'[files[k]].at \notin {"idle", "recover", "record", "begin"}
    BY <2>0, <2>2, <2>5 DEF TwoInv
  <2>6. ASSUME NEW k \in Jobs, Act!Cached(rows[k]) PROVE tasks'[k] = "done" \/ PastLookup(k)'
    BY <2>3, <2>4, <2>6 DEF TwoInv
  <2>7. ASSUME NEW s \in Runs, calls'[s].at = "record" PROVE PastLookup(JobOf(s))'
    BY <2>2, <2>4, <2>7, RunJob DEF TwoInv
  <2>8. ASSUME NEW s \in Runs, calls'[s].at = "done" \/ runs'[s].result = "ok"
        PROVE  tasks'[JobOf(s)] = "done"
    <3>1. calls[s].at = "done" \/ runs[s].result = "ok"
      BY <1>2, <2>2, <2>8, ResultKept
    <3> QED
      BY <2>3, <3>1, RunJob DEF TwoInv
  <2>9. CompletedIsApplied'
    BY <2>3, CompletedNext DEF CompletedIsApplied
  <2> QED
    BY <2>1, <2>5, <2>6, <2>7, <2>8, <2>9 DEF TwoInv
<1> QED
  BY <1>1, <1>2

(* A task job has two attempts (service.ts, maxAttempts: 2).  However late  *)
(* a worker or a sweep is, the queue calls the job completed only when the  *)
(* result was applied to the objective (runTask, applyTaskWorkerResult).   *)
THEOREM CompletedApplied == ASSUME MaxAttempts <= 2 PROVE Spec => []CompletedIsApplied
<1>1. Init => TwoInv
  BY TwoInit
<1>2. IInv /\ DiskInv /\ TwoInv /\ [Next]_vars => TwoInv'
  BY TwoNext
<1>3. TwoInv => CompletedIsApplied
  BY DEF TwoInv
<1> QED
  BY <1>1, <1>2, <1>3, ResultsInvariance, PTL DEF Spec
=============================================================================
