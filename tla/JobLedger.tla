----------------------------- MODULE JobLedger ------------------------------
(***************************************************************************)
(* What a job queue promises: every operation takes effect in one step,    *)
(* under its guard, on the job as it is.  A job is leased only while it is *)
(* queued and not aborted, to an attempt that counts up; only the owner of *)
(* the lease may report on it; only a lease whose deadline passed expires; *)
(* a job goes back to the queue at most MaxAttempts - 1 times.             *)
(***************************************************************************)
EXTENDS JobRecord

CONSTANTS Jobs, MaxAttempts

VARIABLE jobs

Init == jobs = [j \in Jobs |-> NoJob]

Apply(j, e) == jobs' = [jobs EXCEPT ![j] = Reduce(@, e)]

Enqueue(j) == ~Exists(jobs[j]) /\ Apply(j, Plain("enqueued"))

Lease(w, j) == ShouldQueue(jobs[j]) /\ Apply(j, Leased(w, jobs[j].attempt + 1))

Owns(w, j) == Active(jobs[j]) /\ jobs[j].worker = w

Report(w, j) ==
  /\ Owns(w, j)
  /\ \E type \in {"heartbeat", "progress", "completed"} : Apply(j, By(type, w))

Fail(w, j, again) ==
  /\ Owns(w, j)
  /\ again => jobs[j].attempt < MaxAttempts
  /\ Apply(j, Failed(w, again))

Expire(j) ==
  /\ LeasePast(jobs[j])
  /\ Apply(j, Expired(jobs[j].attempt < MaxAttempts))

Cancel(j) == Exists(jobs[j]) /\ ~Terminal(jobs[j]) /\ Apply(j, Plain("canceled"))

Tell(j, c) == Exists(jobs[j]) /\ Apply(j, Command("command", c))

Consume(j, c) == c \in jobs[j].open /\ Apply(j, Command("consumed", c))

TimePasses == jobs' = [j \in Jobs |-> Age(jobs[j])]

Next ==
  \/ \E j \in Jobs : Enqueue(j) \/ Expire(j) \/ Cancel(j)
  \/ \E w \in Workers, j \in Jobs : Lease(w, j) \/ Report(w, j)
  \/ \E w \in Workers, j \in Jobs, again \in BOOLEAN : Fail(w, j, again)
  \/ \E j \in Jobs, c \in Cmds : Tell(j, c) \/ Consume(j, c)
  \/ TimePasses

Spec == Init /\ [][Next]_jobs
=============================================================================
