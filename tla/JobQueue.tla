------------------------------ MODULE JobQueue ------------------------------
(***************************************************************************)
(* src/adapters/sqlite-queue.ts with the projection of src/db/projectors.ts *)
(* A job has four copies: the fold of its stream (the authority), the row  *)
(* of job_projection that every process reads first, the in-memory index   *)
(* of each process's queue, and the job a caller was handed.               *)
(*                                                                         *)
(* withWriteLock runs the operations of one process one at a time, each    *)
(* step being the code between two awaits; the processes interleave.  An   *)
(* append and its reduction are one step, as ReceiptRuntime promises.      *)
(* Callers are any code that may call: a worker for a job it was handed or *)
(* that the index says it owns, a client for any job.                      *)
(***************************************************************************)
EXTENDS JobRecord, Sequences

CONSTANTS
  Procs,        \* processes with a queue of their own over the database
  Home,         \* the process of each worker
  Jobs,         \* job ids
  Targeted,     \* workers that take jobs by leaseJob; the others by leaseNext
  Followers,    \* processes opened with expireLeasesOnRefresh = false
  Enqueuers,    \* processes whose clients enqueue
  SessionMode,  \* singletonMode of each job; all jobs share one session
  MaxAttempts,  \* maxAttempts of every job
  MaxFaults     \* bound on the exceptions and crashes

ASSUME QueueAssumption ==
  /\ Home \in [Workers -> Procs]
  /\ Targeted \subseteq Workers
  /\ Followers \subseteq Procs
  /\ Enqueuers \subseteq Procs
  /\ SessionMode \in [Jobs -> {"allow", "cancel", "steer"}]
  /\ MaxAttempts \in Nat \ {0}
  /\ MaxFaults \in Nat
  /\ None \notin Jobs

VARIABLES
  fold,       \* per job: the state folded from jobs/<id>
  row,        \* per job: its row of job_projection
  idx,        \* per process and job: index.jobsById
  op,         \* per process: the operation holding the write lock
  sync,       \* per process: syncChangedJobProjections, outside the lock
  runs,       \* the leases handed out to workers that still run
  used,       \* command ids issued
  delivered,  \* per command: how often consumeCommands returned it
  faults      \* exceptions and crashes so far

vars == <<fold, row, idx, op, sync, runs, used, delivered, faults>>

-----------------------------------------------------------------------------
PCs == {"idle", "admit", "session", "expire", "pick", "drain", "emit", "read", "write"}

(* job: the job the events are emitted for; worker, new: the arguments of  *)
(* a lease and of an enqueue; left: what a loop has still to visit; todo:  *)
(* events still to emit; then: where to go on after them; got: the         *)
(* commands consumeCommands will return.                                   *)
Op == [pc : PCs, job : Jobs \cup {None}, worker : Workers \cup {None},
       new : Jobs \cup {None}, left : SUBSET (Jobs \cup Cmds), todo : Seq(Event),
       then : {"idle", "session", "expire", "drain", "grant"}, snap : Job,
       got : SUBSET Cmds]

Idle == [pc |-> "idle", job |-> None, worker |-> None, new |-> None, left |-> {},
         todo |-> << >>, then |-> "idle", snap |-> NoJob, got |-> {}]

Run == [worker : Workers, job : Jobs, attempt : Nat]

NoSync == [job |-> None, snap |-> NoJob]

TypeOK ==
  /\ fold \in [Jobs -> Job]
  /\ row \in [Jobs -> Job]
  /\ idx \in [Procs -> [Jobs -> Job]]
  /\ op \in [Procs -> Op]
  /\ sync \in [Procs -> [job : Jobs \cup {None}, snap : Job]]
  /\ runs \subseteq Run
  /\ used \subseteq Cmds
  /\ delivered \in [Cmds -> Nat]
  /\ faults \in Nat

Init ==
  /\ fold = [j \in Jobs |-> NoJob]
  /\ row = [j \in Jobs |-> NoJob]
  /\ idx = [p \in Procs |-> [j \in Jobs |-> NoJob]]
  /\ op = [p \in Procs |-> Idle]
  /\ sync = [p \in Procs |-> NoSync]
  /\ runs = {}
  /\ used = {}
  /\ delivered = [c \in Cmds |-> 0]
  /\ faults = 0

-----------------------------------------------------------------------------
Free(p) == op[p].pc = "idle"

(* loadAuthoritativeJob: the row if there is one, else the fold, else what *)
(* the index holds.                                                        *)
Loaded(p, j) ==
  IF Exists(row[j]) THEN row[j] ELSE IF Exists(fold[j]) THEN fold[j] ELSE idx[p][j]

Index(p, j, r) == idx' = [idx EXCEPT ![p][j] = r]

Emitting(j, events) == [Idle EXCEPT !.pc = "emit", !.job = j, !.todo = events]

(* Mutant: an operation that does not look whether there is the job. *)
PerformBlind(p, j, events) ==
  /\ Free(p)
  /\ Index(p, j, Loaded(p, j))
  /\ op' = [op EXCEPT ![p] = IF events = << >> THEN Idle ELSE Emitting(j, events)]

(* An operation that loads one job and emits the events its guard allows.  *)
Perform(p, j, events) ==
  /\ Free(p)
  /\ Exists(Loaded(p, j))
  /\ Index(p, j, Loaded(p, j))
  /\ op' = [op EXCEPT ![p] = IF events = << >> THEN Idle ELSE Emitting(j, events)]

-----------------------------------------------------------------------------
(* Operations of a worker.  w reports on a job it was handed, or that the  *)
(* index says it owns (the startup reconciliation and the recovery paths   *)
(* take the id from job.leaseOwner).                                       *)
Involved(p, w, j) ==
  \/ Home[w] = p /\ \E r \in runs : r.worker = w /\ r.job = j
  \/ Active(idx[p][j]) /\ idx[p][j].worker = w

(* Mutant: no comparison with the lease owner. *)
MayReportAnyone(cur, w) == ~Terminal(cur)

MayReport(cur, w) == ~Terminal(cur) /\ cur.worker \in {None, w}

Report(p, w, j, event) ==
  /\ Involved(p, w, j)
  /\ Perform(p, j, IF MayReport(Loaded(p, j), w) THEN <<event>> ELSE << >>)
  /\ UNCHANGED <<fold, row, sync, runs, used, delivered, faults>>

Heartbeat(p, w, j) == Report(p, w, j, By("heartbeat", w))
Progress(p, w, j) == Report(p, w, j, By("progress", w))
Complete(p, w, j) == Report(p, w, j, By("completed", w))

Retryable(cur) == cur.attempt < MaxAttempts

Fail(p, w, j, noRetry) ==
  Report(p, w, j, Failed(w, Retryable(Loaded(p, j)) /\ ~noRetry))

(* A worker's call of leaseNext, and a poll's refresh: both first expire    *)
(* what the index says is leased.                                          *)
LeaseNext(p, w) ==
  /\ Free(p)
  /\ Home[w] = p
  /\ w \notin Targeted
  /\ op' = [op EXCEPT ![p] = [Idle EXCEPT !.pc = "expire", !.worker = w,
                                !.left = {j \in Jobs : Active(idx[p][j])}]]
  /\ UNCHANGED <<fold, row, idx, sync, runs, used, delivered, faults>>

(* refreshAllJobs: terminal jobs are not read again. *)
Refresh(p) ==
  /\ Free(p)
  /\ p \notin Followers
  /\ \E all \in {[j \in Jobs |-> IF Terminal(idx[p][j]) THEN idx[p][j]
                                 ELSE IF Exists(row[j]) THEN row[j] ELSE fold[j]]} :
       /\ idx' = [idx EXCEPT ![p] = all]
       /\ op' = [op EXCEPT ![p] = [Idle EXCEPT !.pc = "expire",
                                     !.left = {j \in Jobs : Active(all[j])}]]
  /\ UNCHANGED <<fold, row, sync, runs, used, delivered, faults>>

(* handleExpiredLeases, one job of the loop: the index decides whether to  *)
(* look, the job read again whether to expire.                             *)
ExpireScan(p, j) ==
  LET cur == Loaded(p, j) IN
  /\ op[p].pc = "expire"
  /\ j \in op[p].left
  /\ IF LeasePast(idx[p][j]) THEN Index(p, j, cur) ELSE UNCHANGED idx
  /\ op' = [op EXCEPT ![p] =
       IF LeasePast(idx[p][j]) /\ LeasePast(cur)
       THEN [@ EXCEPT !.pc = "emit", !.job = j, !.left = op[p].left \ {j}, !.then = "expire",
                      !.todo = <<Expired(Retryable(cur))>>]
       ELSE [@ EXCEPT !.left = op[p].left \ {j}]]
  /\ UNCHANGED <<fold, row, sync, runs, used, delivered, faults>>

(* The loop is over: a refresh returns, leaseNext looks for queued jobs.   *)
ExpireDone(p) ==
  /\ op[p].pc = "expire"
  /\ op[p].left = {}
  /\ op' = [op EXCEPT ![p] =
       IF op[p].worker = None THEN Idle
       ELSE [@ EXCEPT !.pc = "pick", !.left = {j \in Jobs : ShouldQueue(idx[p][j])}]]
  /\ UNCHANGED <<fold, row, idx, sync, runs, used, delivered, faults>>

(* The first queued job that still is when it is read again; lanes, agents *)
(* and creation order are abstracted to any order.                         *)
Pick(p, j) ==
  LET cur == Loaded(p, j) IN
  /\ op[p].pc = "pick"
  /\ j \in op[p].left
  /\ Index(p, j, cur)
  /\ op' = [op EXCEPT ![p] =
       IF ShouldQueue(cur)
       THEN [@ EXCEPT !.pc = "emit", !.job = j, !.left = {}, !.then = "grant",
                      !.todo = <<Leased(op[p].worker, cur.attempt + 1)>>]
       ELSE [@ EXCEPT !.left = op[p].left \ {j}]]
  /\ UNCHANGED <<fold, row, sync, runs, used, delivered, faults>>

PickNone(p) ==
  /\ op[p].pc = "pick"
  /\ op[p].left = {}
  /\ op' = [op EXCEPT ![p] = Idle]
  /\ UNCHANGED <<fold, row, idx, sync, runs, used, delivered, faults>>

(* leaseJob: a queued job is leased, a job the worker owns is returned. *)
LeaseJob(p, w, j) ==
  LET cur == Loaded(p, j) IN
  /\ w \in Targeted
  /\ Home[w] = p
  /\ Free(p)
  /\ Exists(cur)
  /\ Index(p, j, cur)
  /\ IF cur.status = "queued"
     THEN /\ op' = [op EXCEPT ![p] =
                      [Emitting(j, <<Leased(w, cur.attempt + 1)>>) EXCEPT
                         !.worker = w, !.then = "grant"]]
          /\ UNCHANGED runs
     ELSE /\ UNCHANGED op
          /\ runs' = runs \cup (IF OwnedBy(cur, w, cur.attempt)
                                THEN {[worker |-> w, job |-> j, attempt |-> cur.attempt]}
                                ELSE {})
  /\ UNCHANGED <<fold, row, sync, used, delivered, faults>>

(* consumeCommands, called by a run of the job. *)
Consume(p, j, wanted) ==
  LET cur == Loaded(p, j) IN
  /\ Free(p)
  /\ \E r \in runs : r.job = j /\ Home[r.worker] = p
  /\ Index(p, j, cur)
  /\ op' = [op EXCEPT ![p] = IF cur.open \cap wanted = {} THEN Idle
       ELSE [Idle EXCEPT !.pc = "drain", !.job = j, !.left = cur.open \cap wanted,
                         !.got = cur.open \cap wanted]]
  /\ UNCHANGED <<fold, row, sync, runs, used, delivered, faults>>

Drain(p, c) ==
  /\ op[p].pc = "drain"
  /\ c \in op[p].left
  /\ op' = [op EXCEPT ![p] = [@ EXCEPT !.pc = "emit", !.left = op[p].left \ {c}, !.then = "drain",
                                       !.todo = <<Command("consumed", c)>>]]
  /\ UNCHANGED <<fold, row, idx, sync, runs, used, delivered, faults>>

DrainDone(p) ==
  /\ op[p].pc = "drain"
  /\ op[p].left = {}
  /\ delivered' = [c \in Cmds |-> IF c \in op[p].got THEN delivered[c] + 1 ELSE delivered[c]]
  /\ op' = [op EXCEPT ![p] = Idle]
  /\ UNCHANGED <<fold, row, idx, sync, runs, used, faults>>

-----------------------------------------------------------------------------
(* Operations of a client. *)
GetJob(p, j) ==
  /\ Perform(p, j, << >>)
  /\ UNCHANGED <<fold, row, sync, runs, used, delivered, faults>>

Cancel(p, j) ==
  /\ Perform(p, j, IF Terminal(Loaded(p, j)) THEN << >> ELSE <<Plain("canceled")>>)
  /\ UNCHANGED <<fold, row, sync, runs, used, delivered, faults>>

(* queueCommand: an abort also cancels a job it finds queued. *)
QueueCommand(p, j, c) ==
  /\ c \notin used
  /\ Perform(p, j, IF c \in AbortCmds /\ Loaded(p, j).status = "queued"
                   THEN <<Command("command", c), Plain("canceled")>>
                   ELSE <<Command("command", c)>>)
  /\ used' = used \cup {c}
  /\ UNCHANGED <<fold, row, sync, runs, delivered, faults>>

(* enqueue of an id the caller chose.  A singleton mode first loads the    *)
(* jobs the index does not know (syncDiscoveredJobs).                      *)
Enqueue(p, j) ==
  /\ p \in Enqueuers
  /\ Free(p)
  /\ ~Exists(Loaded(p, j))
  /\ IF SessionMode[j] = "allow" THEN UNCHANGED idx
     ELSE idx' = [idx EXCEPT ![p] = [k \in Jobs |-> IF Exists(idx[p][k]) THEN idx[p][k]
                                                    ELSE Loaded(p, k)]]
  /\ op' = [op EXCEPT ![p] = [Idle EXCEPT !.pc = "admit", !.new = j]]
  /\ UNCHANGED <<fold, row, sync, runs, used, delivered, faults>>

(* Mutant: running jobs of the session are overlooked. *)
SessionQueued(p, j) ==
  IF SessionMode[j] = "allow" THEN {} ELSE {k \in Jobs \ {j} : idx[p][k].status = "queued"}

(* activeBySession reads the index only. *)
SessionActive(p, j) ==
  IF SessionMode[j] = "allow" THEN {}
  ELSE {k \in Jobs \ {j} : Exists(idx[p][k]) /\ ~Terminal(idx[p][k])}

Admit(p) ==
  LET j == op[p].new
      cur == Loaded(p, j) IN
  /\ op[p].pc = "admit"
  /\ IF Exists(cur)
     THEN op' = [op EXCEPT ![p] = Idle] /\ Index(p, j, cur)
     ELSE /\ op' = [op EXCEPT ![p] = [@ EXCEPT !.pc = "session", !.left = SessionActive(p, j)]]
          /\ UNCHANGED idx
  /\ UNCHANGED <<fold, row, sync, runs, used, delivered, faults>>

(* requestAbort of an active job of the session, as the index has it:      *)
(* a queued one is canceled, any other gets an abort command.              *)
CancelPrior(p, k) ==
  /\ op[p].pc = "session"
  /\ SessionMode[op[p].new] = "cancel"
  /\ k \in op[p].left
  /\ idx[p][k].status = "queued"
  /\ op' = [op EXCEPT ![p] = [@ EXCEPT !.pc = "emit", !.job = k, !.left = op[p].left \ {k},
                                       !.then = "session", !.todo = <<Plain("canceled")>>]]
  /\ UNCHANGED <<fold, row, idx, sync, runs, used, delivered, faults>>

AbortPrior(p, k, c) ==
  /\ op[p].pc = "session"
  /\ SessionMode[op[p].new] = "cancel"
  /\ k \in op[p].left
  /\ idx[p][k].status # "queued"
  /\ c \in AbortCmds \ used
  /\ used' = used \cup {c}
  /\ op' = [op EXCEPT ![p] = [@ EXCEPT !.pc = "emit", !.job = k, !.left = op[p].left \ {k},
                                       !.then = "session", !.todo = <<Command("command", c)>>]]
  /\ UNCHANGED <<fold, row, idx, sync, runs, delivered, faults>>

(* requestSteer of one of them instead of a new job. *)
SteerPrior(p, k, c) ==
  /\ op[p].pc = "session"
  /\ SessionMode[op[p].new] = "steer"
  /\ k \in op[p].left
  /\ c \in Cmds \ (used \cup AbortCmds)
  /\ used' = used \cup {c}
  /\ op' = [op EXCEPT ![p] = Emitting(k, <<Command("command", c)>>)]
  /\ UNCHANGED <<fold, row, idx, sync, runs, delivered, faults>>

EnqueueNew(p) ==
  /\ op[p].pc = "session"
  /\ op[p].left = {}
  /\ op' = [op EXCEPT ![p] = Emitting(op[p].new, <<Plain("enqueued")>>)]
  /\ UNCHANGED <<fold, row, idx, sync, runs, used, delivered, faults>>

-----------------------------------------------------------------------------
(* emitEvent: the append, the read of the state it led to, the write of    *)
(* the row.                                                                *)
Emit(p) ==
  /\ op[p].pc = "emit"
  /\ fold' = [fold EXCEPT ![op[p].job] = Reduce(@, Head(op[p].todo))]
  /\ op' = [op EXCEPT ![p].pc = "read"]
  /\ UNCHANGED <<row, idx, sync, runs, used, delivered, faults>>

ReadState(p) ==
  /\ op[p].pc = "read"
  /\ op' = [op EXCEPT ![p] = [@ EXCEPT !.pc = "write", !.snap = fold[op[p].job]]]
  /\ UNCHANGED <<fold, row, idx, sync, runs, used, delivered, faults>>

(* Mutant: a heartbeat leaves the row alone. *)
HeartbeatSkipsRow(r, snap, type) == IF type = "heartbeat" THEN r ELSE snap

(* A heartbeat writes the deadline only, if there is one and a row.        *)
ProjectedRow(r, snap, type) ==
  IF type # "heartbeat" THEN snap
  ELSE IF Exists(r) /\ snap.lease # "none" THEN [r EXCEPT !.lease = snap.lease]
  ELSE r

(* Mutant: the lease is handed out although another worker got it. *)
GrantAlways(r, w, n) == TRUE

GrantedTo(r, w, n) == OwnedBy(r, w, n)

(* Where the operation goes on: the next event, its loop, or its return.   *)
WriteRow(p) ==
  LET o == op[p]
      e == Head(o.todo) IN
  /\ o.pc = "write"
  /\ row' = [row EXCEPT ![o.job] = ProjectedRow(@, o.snap, e.type)]
  /\ Index(p, o.job, o.snap)
  /\ op' = [op EXCEPT ![p] =
       IF Len(o.todo) > 1 THEN [@ EXCEPT !.pc = "emit", !.todo = Tail(o.todo), !.snap = NoJob]
       ELSE IF o.then \in {"idle", "grant"} THEN Idle
       ELSE [@ EXCEPT !.pc = o.then, !.todo = << >>, !.then = "idle", !.snap = NoJob]]
  /\ runs' = runs \cup (IF o.then = "grant" /\ GrantedTo(o.snap, o.worker, e.attempt)
                        THEN {[worker |-> o.worker, job |-> o.job, attempt |-> e.attempt]}
                        ELSE {})
  /\ UNCHANGED <<fold, sync, used, delivered, faults>>

(* syncChangedJobProjections of a follower's refresh: one changed stream,  *)
(* projected outside the write lock.                                       *)
SyncRead(p, j) ==
  /\ p \in Followers
  /\ sync[p].job = None
  /\ Exists(fold[j])
  /\ sync' = [sync EXCEPT ![p] = [job |-> j, snap |-> fold[j]]]
  /\ UNCHANGED <<fold, row, idx, op, runs, used, delivered, faults>>

SyncWrite(p) ==
  /\ sync[p].job # None
  /\ row' = [row EXCEPT ![sync[p].job] = sync[p].snap]
  /\ sync' = [sync EXCEPT ![p] = NoSync]
  /\ UNCHANGED <<fold, idx, op, runs, used, delivered, faults>>

-----------------------------------------------------------------------------
(* A run of a worker is over. *)
EndRun(r) ==
  /\ runs' = runs \ {r}
  /\ UNCHANGED <<fold, row, idx, op, sync, used, delivered, faults>>

(* Every lease deadline passes.  Deadlines are compared with the clock at  *)
(* the comparison; the code reads it when it takes the lock, a difference  *)
(* of an operation that began a little later.                              *)
TimePasses ==
  /\ \E j \in Jobs : fold[j].lease = "live"
  /\ fold' = [j \in Jobs |-> Age(fold[j])]
  /\ row' = [j \in Jobs |-> Age(row[j])]
  /\ idx' = [p \in Procs |-> [j \in Jobs |-> Age(idx[p][j])]]
  /\ op' = [p \in Procs |-> [op[p] EXCEPT !.snap = Age(@)]]
  /\ sync' = [p \in Procs |-> [sync[p] EXCEPT !.snap = Age(@)]]
  /\ UNCHANGED <<runs, used, delivered, faults>>

(* An exception out of the store (SQLITE_BUSY, a lost append race): the    *)
(* operation is abandoned, the lock released.                              *)
Throw(p) ==
  /\ op[p].pc \in {"emit", "read", "write"}
  /\ faults < MaxFaults
  /\ faults' = faults + 1
  /\ op' = [op EXCEPT ![p] = Idle]
  /\ UNCHANGED <<fold, row, idx, sync, runs, used, delivered>>

Crash(p) ==
  /\ faults < MaxFaults
  /\ faults' = faults + 1
  /\ idx' = [idx EXCEPT ![p] = [j \in Jobs |-> NoJob]]
  /\ op' = [op EXCEPT ![p] = Idle]
  /\ sync' = [sync EXCEPT ![p] = NoSync]
  /\ runs' = {r \in runs : Home[r.worker] # p}
  /\ UNCHANGED <<fold, row, used, delivered>>

WorkerCall(p, w, j) ==
  \/ Heartbeat(p, w, j) \/ Progress(p, w, j) \/ Complete(p, w, j)
  \/ \E noRetry \in BOOLEAN : Fail(p, w, j, noRetry)
  \/ LeaseNext(p, w) \/ LeaseJob(p, w, j)

ClientCall(p, j) ==
  \/ GetJob(p, j) \/ Cancel(p, j) \/ Enqueue(p, j) \/ Refresh(p)
  \/ \E c \in Cmds : QueueCommand(p, j, c)
  \/ \E wanted \in {Cmds, AbortCmds} : Consume(p, j, wanted)

(* A step of the operation that holds the lock. *)
OpStep(p) ==
  \/ \E j \in Jobs : ExpireScan(p, j) \/ Pick(p, j) \/ CancelPrior(p, j)
  \/ \E j \in Jobs, c \in Cmds : AbortPrior(p, j, c) \/ SteerPrior(p, j, c)
  \/ \E c \in Cmds : Drain(p, c)
  \/ ExpireDone(p) \/ PickNone(p) \/ DrainDone(p) \/ Admit(p) \/ EnqueueNew(p)
  \/ Emit(p) \/ ReadState(p) \/ WriteRow(p)

Next ==
  \/ \E p \in Procs, w \in Workers, j \in Jobs : WorkerCall(p, w, j)
  \/ \E p \in Procs, j \in Jobs : ClientCall(p, j)
  \/ \E p \in Procs : OpStep(p)
  \/ \E p \in Procs, j \in Jobs : SyncRead(p, j)
  \/ \E p \in Procs : SyncWrite(p) \/ Throw(p) \/ Crash(p)
  \/ \E r \in runs : EndRun(r)
  \/ TimePasses

Spec == Init /\ [][Next]_vars

-----------------------------------------------------------------------------
(* Properties.                                                             *)

(* What the lifecycle is about: phase, open abort and attempt. *)
LifecycleOf(r) ==
  [phase |-> IF Active(r) THEN "active" ELSE r.status, abort |-> r.abort]

(* A finished job stays finished with the outcome it has, whatever stale   *)
(* workers, retries, expiries or commands append afterwards.               *)
TerminalIsFinal ==
  [][\A j \in Jobs : Terminal(fold[j]) => fold'[j].status = fold[j].status]_fold

(* No process reports an outcome the stream does not have: a finished job  *)
(* in a row or an index is finished, that way, in its stream, however late *)
(* the row was written.                                                    *)
OutcomesAreReal ==
  \A j \in Jobs :
    /\ Terminal(row[j]) => fold[j].status = row[j].status
    /\ \A p \in Procs : Terminal(idx[p][j]) => fold[j].status = idx[p][j].status

(* job.enqueued is appended just to streams without the job, which it would *)
(* reset, and every other event just to streams with it, where the reducer *)
(* would throw its "Invariant: no job": provided one process enqueues, the *)
(* copy a guard was taken on may be stale, but about this it is right.     *)
EventsFit ==
  \A p \in Procs : op[p].pc = "emit" =>
    (Head(op[p].todo).type = "enqueued" <=> ~Exists(fold[op[p].job]))

(* Two runs never hold the same attempt of a job, no run holds an attempt  *)
(* that was not leased yet, and the run of the current attempt is the one  *)
(* the job names as its owner for as long as it is leased.                 *)
LeaseIsExclusive ==
  /\ \A r, s \in runs : r.job = s.job /\ r.attempt = s.attempt => r = s
  /\ \A r \in runs :
       LET f == fold[r.job] IN
       /\ r.attempt <= f.attempt
       /\ r.attempt = f.attempt /\ Active(f) => f.worker = r.worker

(* The row differs from the fold at most in leased against running. *)
Follows(r, f) ==
  \/ r = f
  \/ Active(r) /\ Active(f) /\ [r EXCEPT !.status = f.status] = f

(* Until the store first throws, the row and every job of the index of a   *)
(* single process are, between operations, those of the stream: what a     *)
(* guard reads next is the truth.                                          *)
ProjectionFollows ==
  \A p \in Procs, j \in Jobs :
    Free(p) /\ faults = 0 => /\ Follows(row[j], fold[j])
                             /\ Exists(idx[p][j]) => Follows(idx[p][j], fold[j])

(* A command is handed to at most one consumer. *)
CommandDeliveredOnce == \A c \in Cmds : delivered[c] <= 1

(* With singletonMode "cancel" or "steer" for all, a session never has two *)
(* unfinished jobs of which none was told to abort, even if an enqueue     *)
(* fails half way.                                                         *)
SessionIsSingleton ==
  \A j, k \in Jobs :
    (/\ SessionMode[j] # "allow" /\ SessionMode[k] # "allow"
     /\ Exists(fold[j]) /\ ~Terminal(fold[j]) /\ ~fold[j].abort
     /\ Exists(fold[k]) /\ ~Terminal(fold[k]) /\ ~fold[k].abort) => j = k

(* Until the store first throws, the queue of a single process is the      *)
(* ledger of JobLedger: each operation takes effect in one step, on the    *)
(* truth.                                                                  *)
Ledger == INSTANCE JobLedger WITH jobs <- fold
ImplementsLedger == Ledger!Init /\ [][faults' = 0 => [Ledger!Next]_fold]_vars

(* With any number of processes, faults and stale copies, a job still only *)
(* moves along its lifecycle, provided its id is enqueued by one process.  *)
Lifecycle == INSTANCE JobLifecycle WITH jobs <- [j \in Jobs |-> LifecycleOf(fold[j])]
ImplementsLifecycle == Lifecycle!Spec

(* docs/api/streams.md calls jobs/<jobId> the authoritative stream and a   *)
(* test says that getJob reads it: what getJob answers between operations  *)
(* is finished when the stream says the job is.                            *)
GetJobIsAuthoritative ==
  (\A p \in Procs : Free(p)) =>
    \A p \in Procs, j \in Jobs : Terminal(fold[j]) => Terminal(Loaded(p, j))

(* docs/api/http.md, abort: queued jobs are canceled at once; so between   *)
(* operations none is queued with an abort requested.                      *)
AbortedIsNotQueued ==
  (\A p \in Procs : Free(p)) =>
    \A j \in Jobs : ~(fold[j].status = "queued" /\ fold[j].abort)
=============================================================================
