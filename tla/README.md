# Receipt: a formal verification of its runtime, job queue and Factory

Receipt is a TypeScript (Bun) program in which everything that happens is an
event, stored as a hash-linked *receipt* on a named stream of a SQLite database,
and every state is a fold of such a stream. On top of the streams it runs a
durable job queue, workers, durable activities, and "Factory": objectives that
are decomposed into tasks, dispatched to coding agents, integrated and published,
and shown in a browser workbench that follows the streams live. This directory
holds TLA+ models of the parts where concurrency, crashes and stale copies decide
whether that works, TLC configurations that check them, and TLAPS proofs.

Paths below are relative to the repository. Note the application code under
`src/` (for example `src/adapters/sqlite-queue.ts`) next to the packages under
`packages/`.

## 1. Inventory

| part | code | state it keeps | operations | what is hard | what makes it correct |
|---|---|---|---|---|---|
| receipt runtime | `packages/core/src/runtime.ts` | per process: `snapshots` (chain, state, version per stream), `streamLocks` (a promise chain per stream) | `execute` (decide a command, append its events), `state`, `chain`, `fork` | reads take no lock; several processes share the database; a batch is appended one transaction at a time; retries with an event id | the stream stays a linked log; an event id applies once; a success stored the whole batch behind the head it named |
| receipt chain | `packages/core/src/chain.ts` | none | `receipt`, `verify`, `fold` | - | every receipt links to its predecessor |
| receipt store | `src/adapters/sqlite.ts`, `src/db/client.ts` | tables `receipts`, `streams`, `branches`, `change_log` | `append` (compare the head, insert), `read`, `version`, branch `save` | SQLITE_BUSY; physical and materialized head of a branch differ | compare-and-append is atomic |
| branches | `runtime.ts` fork, `materializeChain` | rows of `branches` | `fork`, reading and writing a branch | a fork racing an append; parents growing past the fork point | a branch keeps the history it was forked with, and verifies |
| job record | `src/modules/job.ts` | the fold of `jobs/<id>` | `reduce` | late events of workers that lost the lease | the reducer alone keeps a finished job finished |
| job queue | `src/adapters/sqlite-queue.ts` | per process: the index (`jobsById`, `queuedJobIds`, `leasedJobs`, `sessionJobs`), the write lock, waiters | `enqueue`, `leaseNext`, `leaseJob`, `heartbeat`, `progress`, `complete`, `fail`, `cancel`, `queueCommand`, `consumeCommands`, `getJob`, `listJobs`, `refresh`, `waitForWork`, `waitForJob` | four copies of a job, written in separate steps; lease expiry against late reports; several processes | leases are exclusive, attempts bounded, outcomes final, commands delivered once, one active job per session |
| projections | `src/db/projectors.ts` | tables `job_projection`, objective, chat and memory projections; the projector offset | `syncJobProjectionStream`, `syncChangedJobProjections`, heartbeat fast path | a row is written from a state read earlier | the row never shows an outcome the stream does not have |
| job worker | `src/engine/runtime/job-worker.ts` | `active`, `activeLeases` (Maps keyed by job id) | tick: lease and run; pull of aborts, heartbeat loop, report, `afterComplete`; startup reconciliation | heartbeats against loss of the lease; a job leased again while its old run goes on; a crash between any two steps | one handler of a job at a time; slots are returned; every job ends |
| durable backend | `packages/durable/src/local.ts`, `src/lib/durable-execution.ts` | tables `durable_workflow`, `durable_signal`, `durable_activity`, `durable_activity_attempt` | start or resume, signal, consume, run an activity (look up, recover, begin, complete or fail) | two runs of one activity; recovery after a crash | an activity whose outcome is known is not run again |
| resonate backend | `src/adapters/resonate-*.ts` | none of its own | dispatches jobs over an external service and leases them by `leaseJob` | processes that only follow the projection | as the queue |
| task execution | `src/services/factory-runtime.ts`, `runTask`, `applyTaskWorkerResult`, `resumeObjectives` of `src/services/factory/runtime/service.ts` | result files of a task, the task in the objective | run the codex child, persist its result, apply it to the task; the sweep of a start | the result applied by the run, by a run that recovers it, or by the sweep | a result is applied once, and before the job is completed |
| factory control | `service.ts` (slots, control jobs, wakes), `runtime/objective-control.ts`, `runtime/objective-lifecycle.ts` | the slot state and wake of an objective, its queued control job, its control workflow, `objectiveControlEnqueueLocks` | create, rebalance, enqueue control, a control pass, archive, cancel, resume at start | decisions taken before an `await`; a wake that meets a pass about to end | slots are not overbooked, one control job per objective, nobody who waits is forgotten |
| factory delivery | `service.ts` (react, dispatch, integration), `planner.ts`, `rebracket-policy.ts`, `objective/reactor.ts`, `promotion-gate.ts`, `factory-job-gates.ts`, reducer in `src/modules/factory/` | the fold of an objective stream: tasks, candidates, integration, status, notes | plan one effect and apply it; results, reviews, merges, validation, publishing; notes, cancels, splits | several fibres react to one objective with plans made on a state read earlier | parallelism is bounded, runs and tasks stay in step, what is promoted was checked, the reactor rests with nothing left to do |
| live updates | `packages/live/src/{hub,protocol,browser,bun}.ts` | the connected subscribers | publish, subscribe, reconnect | the hub keeps no frames; a socket comes and goes | a change leads to a refresh |
| factory routes | `src/agents/factory/route/*` | a cache of versions and models with a time to live | render an island with its envelope | the cache answers with what it answered before | an answer is never older than the one before |
| browser workbench | `src/client/factory-client/{workbench,reactive,workbench-state}.ts` | the route asked for, the envelope an island shows, timers, queues and abort controllers of refreshes | navigate, refresh on an event, on focus; apply or drop a response | responses are late, lost and out of order | an island never goes backwards, and settles on what was asked for |
| agents, memory, hub git, codex, execution graph, server, CLI, views | `src/agents`, `src/adapters/{memory-tools,hub-git,codex-executor}.ts`, `packages/core/src/{graph,execution}.ts`, `src/server`, `src/views`, `src/cli.ts` | mostly none | I/O and rendering | - | - |

Interactions: the queue, the worker, the durable backend and Factory all write
receipts through the runtime; the projections are written by the queue (after its
own appends) and by processes that follow the change log; the worker calls the
queue; the durable wrapper decorates the queue, so that an abort becomes a signal;
Factory enqueues jobs and is run by jobs: control jobs make the passes over an
objective, task jobs run codex, validation and publishing jobs finish the work.
Every commit is published to the live hub of its own process, and the workbench
refetches what it shows. Several operating-system processes (the server, workers,
the `receipt` command line) share one database and nothing else.

## 2. Modules

```
ReceiptLog  <-- implements --  ReceiptRuntime        <-- ReceiptRuntime_proofs
                               ReceiptBranch         <-- ReceiptBranch_proofs
JobLedger, JobLifecycle  <-- implements --  JobQueue <-- JobQueue_proofs
JobQueue, JobWorker  -- extend -->  JobRecord        <-- JobRecord_proofs (shared lemmas)
ActivityOnce  <-- implements --  TaskExecution       <-- TaskExecution_proofs
      TaskExecution  -- extends -->  JobWorker, and instantiates DurableActivity
ObjectiveControl                                     <-- ObjectiveControl_proofs
ObjectiveDelivery                                    <-- ObjectiveDelivery_proofs
Workbench                                            <-- Workbench_proofs
MCReceiptRuntime, MCReceiptBranch, MCJobQueue, MCTaskExecution,
MCObjectiveControl, MCObjectiveDelivery, MCWorkbench: instances for TLC
```

**ReceiptRuntime** (`runtime.ts` over `sqlite.ts`, one stream). A *fiber* is one
asynchronous call in one process; one action is the code between two `await`s.
`store` is the stream in the database, `snap` the cache entry of each process,
`lockQ` the promise chain of each process, `call` what each fiber is doing.
`LoadCached`, `LoadMiss`, `ReadStore`, `ReadVersion`, `InstallSnapshot` are
`loadSnapshot`; `DecideCommand` is the idempotency check, the `expectedPrev`
check and the decision; `AppendEvent` is the reducer and one append transaction;
`AppendConflict`, `ReducerRejects` are its two ways to throw; `Finish` is the
`finally` of `enqueueStream`. A crash drops the calls and caches of a process.
Hashes are stream positions: only hashes that were stored are compared, and two
of one stream are equal exactly if they are at the same position. The stored
stream's branch is the subject of the next module.

**ReceiptLog** is what callers rely on: a log that only grows, in which event *i*
of a command with an event id is recorded directly after event *i-1* and never
twice.

**ReceiptBranch** (`fork`, `materializeChain`, `relinkLocalChain`, and `append`
on a branch). Here hashes are the history they commit to, since relinking
computes new ones; `View` is what a reader sees of each stream. An actor is a process
running one call. An execute is a load and an append. A fork is its checks (`CheckFork`),
the save of the new row (`SaveBranch`), the look for the row of the parent
(`LookForParent`) and, if there was none, the save of one without a parent (`SaveParent`),
which replaces whatever row it finds.

**JobRecord** is the reducer of `src/modules/job.ts`: `Applies` says which events
it heeds, `Effect` what they do. Deadlines are abstract: a lease is `live`, and
`past` once its time has come; `Age` moves every copy of a deadline at once,
since they hold the same number.

**JobQueue** is the queue and the projection. A job has four copies: `fold` (the
stream), `row` (`job_projection`), `idx` (the index of each process) and what a
caller was handed (`runs`). Every operation is split where the code awaits:
load and guard; append with its reduction (`Emit`); read of the state
(`ReadState`); write of the row and the index (`WriteRow`). The write lock of a
process is `Free`; processes interleave at every step. `Throw` is an exception
out of the store, `Crash` the death of a process, `SyncRead`/`SyncWrite` the
projection sync that a follower runs outside the lock.

The append is one step with its reduction: each event of the queue is an `execute`
of its own with a fresh event id, which ReceiptRuntime shows to append one receipt
at the head or to throw; a throw (two processes at one head, SQLITE_BUSY) is the
action `Throw`.

**JobLedger** is the queue as its users think of it: one copy, every operation
one step. **JobLifecycle** is what remains true in every case: a job is enqueued,
moves between queued and active, finishes once.

**JobWorker** is the worker over the ledger that `JobQueue` implements: each call
of the queue is one step on the job as it is. A *run* is one execution of
`runLeased`, named by its job and attempt, and moves through the places between
the awaits: pull of an abort before the handler, `canceled` report, the beat, the
handler, the pull after it, the report, the return. Report and return are two steps: in
between the wrapper notes the status of the workflow and `afterComplete` reacts, and a job
that was queued again may be leased. The worker knows its runs
only by job id (`active`, `leases`), as the code's Maps do. `Crash` forgets the
runs of a worker, `StartProcess` and `ReconcileStartup` are what the next one does
about them; `late` counts leases that lapse although their run is alive, `overlap` records
that a worker leased a job of which an earlier run of its own was not over, and every property
that fails after one says so.

**DurableActivity** is `runDurableActivity`, one action per SQLite transaction.
**ActivityOnce** is its promise: attempts until one has an outcome, which stands.

**TaskExecution** composes the two for jobs of kind `factory.task.run`: the handler
of a run is a call of the activity, whose work leaves a result on disk, applies it
to the task and returns; the sweep of a starting process applies or completes what
a dead one left. Steps of both modules in one action are one synchronous stretch of
code.

**ObjectiveControl** is the control plane of Factory. Everything runs in one
process as fibres that interleave at each `await`; a fibre is the list of steps it
has still to do, and a step reads once or emits once. So a step that calls another
function puts the steps of that function in front of its rest, as the call stack
does. Callers serve requests and task results, workers run control jobs, `Boot`
resumes the objectives after a start. A pass of the planner is one step that may
change the phase of an objective, which is all the control plane looks at.

**ObjectiveDelivery** is the inside of such a pass: `Planned` is `planner.ts` as one
function of the folded objective; a fibre syncs failed jobs, passes the gates, plans
an effect, takes the head of the stream where the code does, and emits. `fresh` says
that no event was emitted since the fibre took its head, which is what the
compare-and-append compares. `stale` records what came too late: an *effect* that was
applied although the planner would no longer choose it, or a *result* of a run whose
task had gone on without it. `cut` records that a crash, an error or the limit of passes
ended a react. A property that does not hold after one of them says so.
Who wants a control job (`Asks`) leaves a wake in the stream, `asked`, and queues a job,
`wake`, only if none is queued or at work. A control job (`Control`) consumes the wake
(`Pass`), reacts, and looks for another (`Check`), for which it makes a second pass and no
third. A failed job signals its objective (`Signals`), but not while there is a control job or
after it was halted (`Heeded`). A merge is its two events (`Merge`, `EmitIntegrated`) and the
enqueue of the validation, and whatever is thrown on the way counts as a conflict of it
(`MergeFails`).

**Workbench** is one island of the browser workbench, `background` or `chat`, chosen
in `Init`. Islands share the route, the websocket and the server's cache and
nothing else, so one is followed, and what the other and other browsers ask for is
`OthersRead`. `Change` commits and publishes; `ServerReads` is a route answering
from its cache (`Answer`: per document the answer it gave last, or the newest);
`Deliver`, `Fire`, `Over` are the runner of live refreshes with its timer, its fetch
and its queue of one; `Apply` and `Drop` are the two ends of a response, told apart
by `ShouldApplyEnvelope`; `ApplyInlineLocation` is a navigation, which opens the
socket anew, and `RefreshVisibleWorkbench` the focus of the window. A version of a
document stands for its content, and the versions in one response are read in one
step. `gap` records why the island may show less than there is.

## 3. What is checked

Twelve runs, which all pass.

- `RuntimeTwoProcs`: two processes with a writer each, and a reader beside the
  first; a keyed batch of two events and a guarded single event; retries; one
  crash. `ChainVerifies`, `CachesArePrefixes`, `OkMeansWholeBatch` and the
  refinement `ImplementsLog` (which implies that an event id applies once).
- `RuntimeOneProc`: two writers in one process, under fairness. No call of a
  single process ever conflicts (`NoConflict`) and every call returns
  (`CallsReturn`), also after a reducer threw or the process was restarted.
- `BranchRaces`: the command line forks while the server appends, three stream
  names, so branches of branches occur. Every chain verifies, fork points stay
  inside the parent, and what was read once is never rewritten.
- `QueueFaults`: one process, two workers, an abort and a steer command, two
  attempts, and one exception or crash between any two steps. Until the fault
  the queue implements `JobLedger` and the copies agree between operations
  (`ProjectionFollows`); after it too leases are exclusive and commands delivered
  once.
- `QueueSession`: two jobs of one session, the first in mode `cancel`, the
  second in mode `steer`, with a fault in the middle of an enqueue: the session
  never has two unfinished jobs of which none was told to abort.
- `QueueTwoProcs`: two processes, one taking jobs by `leaseNext`, the other by
  `leaseJob`, each with an index and a view of the row that may be stale. What
  is left of the guarantees is `ImplementsLifecycle` (a finished job stays
  finished, among others) and `EventsFit`: no `job.enqueued` resets a job, and no
  other event meets a stream without its job, where the reducer would throw. One
  process enqueues.
- `QueueFollower`: the projection sync outside the lock, with a fault. No row and
  no index shows an outcome that the stream does not have (`OutcomesAreReal`).
- `TaskCrashes`: two workers, a task job with two attempts, a crash, a late
  worker, aborts, cancels and the sweep of a start, with one slot per worker. One handler
  at a time (`HandlersExclusive`), the slots are those of the live runs (`SlotsHeld`), a
  result is applied once (`AppliedOnce`), a completed job has been applied
  (`CompletedIsApplied`), a task whose result is on disk is not run again
  (`RecoveredNotRerun`), the activity keeps its promise (`ImplementsOnce`), and
  every job ends (`JobsEnd`).
- `ObjectiveControl`: two objectives compete for one slot while passes, wakes,
  cancels, archives, notes, conflicts and a crash interleave. `SlotsBounded`,
  `ControlJobIsSingle`, `SlotsServed`.
- `ObjectiveDelivery`: one fibre drives an objective of up to four tasks through
  results, notes, splits, failures, conflicts, crashes and cancels. The reactor
  always comes to rest (`Rests`), and rests with nothing left to plan and no task
  at work that nobody works on (`NothingForgotten`).
- `ObjectiveRaces`: two fibres react to one objective at once. `ParallelBounded`,
  `RunsMatchTasks`, `PromotedIsChecked`, and `NothingUnplanned`: a live objective rests with
  nothing to plan, or with a follow-up or a split whose wake was left to a control job that no
  longer looked (`Dropped`, section 5). That no failed job is overlooked, `FailuresHeard`,
  does not hold with two fibres (section 5).
- `WorkbenchLive`: an island under changes, navigation, focus, failed and reordered
  responses, old answers of the cache and a socket that comes and goes. It never
  goes backwards (`NeverBackwards`), and settles on the page asked for and its
  newest version unless for a reason the property names (`Settles`).

Each module has one type invariant, checked by its first run; those of `Workbench` and
`ReceiptBranch` are proved instead.

### Conditional properties

Some promises of this code hold except after one named event. The model then keeps a
*history variable* that only properties read, and the property is a disjunction, so
that every other way to break it would still be found: `late` (a worker lost its lease
while its run went on), `doubled` (a slot was given away twice, between the read of the
free slots and the emit), `lost` (a wake was left to a control job that does not look
again), `overlap`, `stale`, `cut` (above), `gap` (the workbench). `Dropped` is no history: it
describes the state at rest, a wake in the stream and a follow-up or a split to plan. What
happens after the event is listed in section 5. A hazard that such an exception takes out is
not covered, and PROJECT.json says so.

### Bounds, and why they are enough

`MaxLen` bounds the stream length at which calls still start, so batches and
retries go beyond it: with 2 a keyed batch, its retry, a guarded event and a
conflict in the middle of a batch all occur. `MaxCrashes = 1`: a second crash
meets the same empty caches; of a task job, it could only use up the two attempts
the code grants. `MaxAppends = 3`: a trunk of two receipts, a fork
at every index of it, and an append on either side afterwards. `MaxAttempts` is
1 or 2: the first and the last attempt are the only two cases of the guard, and
task jobs are enqueued with 2. `MaxFaults = 1`: faults abandon
one operation; the state a second one starts from is reached by the first.
One job suffices wherever no operation reads two, which is all but the session
modes. `MaxLate = 1` gives one lease that lapses under a live run.
`MaxObjectives = 2` over `Concurrency = 1` makes one hold and one wait;
`MaxCalls` counts the requests, results, conflicts and crashes from outside, which
meet every interleaving of the fibres inside. The objective runs have 1.2 and 2.9 million
states, `TaskCrashes` 0.6 million, `BranchRaces` 34 thousand. `MaxTasks = 4` is the planned task, a
follow-up of a conflict or a note, and the halves of a split; with two fibres three
tasks and one place (`MaxParallel = 1`) make both compete for it. `MaxTaskRuns` and
`MaxPasses` are small enough to be exhausted, so the budgets block the objective.
`PlannerPasses` is the code's 64 with one fibre; with two it is 3, enough for a react
that dispatches and a second effect before it stops. `MaxChanges = 2`, `MaxCalls = 2`
let a change arrive during the refresh of another, and a navigation or focus during
both.

Worker and process sets are not declared symmetric, since `Home` tells
them apart; the two fibres of `ObjectiveRaces` are, and no liveness is checked there. The two
workers of `TaskCrashes` are alike until one of them leases the job, and liveness is checked, so
instead of a symmetry its configuration has the constraint `FirstIsW1`: who leases first is
called `w1`. It cuts off no behaviour but by name: a fair behaviour in which the job is never leased does not
exist, since `w1` is started again if it is down.
Runs that switch off the check for deadlock are those whose inputs can run out, where
the system really stops: an enqueue has no command id left (`QueueSession`; the program
draws them at random), all jobs have ended (`TaskCrashes`), and the
bounded calls from outside are used up (`ObjectiveControl`, `ObjectiveDelivery`,
`ObjectiveRaces`, `WorkbenchLive`).

### Fairness

- `RuntimeOneProc`: weak fairness of `Step(f)`, the continuation of a call. The event
  loop resumes every settled promise, and the database calls behind the awaits are
  synchronous (`bun:sqlite`), so no await stays unsettled.
- `TaskCrashes`: weak fairness per run (the event loop again), of the codex child, which
  the executor kills after its timeout or when it stalls, of the restart of a process (the
  supervisor's part), of leasing, of the passing of deadlines nobody renews and of the refresh that
  expires them. Not of success: a run may fail in every attempt.
- `ObjectiveControl`, `ObjectiveDelivery`, `WorkbenchLive`: weak fairness of `Inside`,
  that is, *something* goes on as long as anything can. It suffices since all that comes from
  outside (requests, results of people, failures, changes, crashes) is bounded and never
  forced. In the browser it says that a request is answered or fails, that timers fire, and
  that the socket reconnects, which `reactive.ts` tries without end.

## 4. What is proved

`ReceiptRuntime_proofs` proves, for any sets of processes, fibers and commands,
any batch sizes and any number of crashes, from `RuntimeAssumption` alone (of
which the one substantial part is that a command has at least one event: the
code returns early from an empty decision):

- `TypeCorrect`, `StreamVerifies`, `CachesLag`, `SuccessIsAtomic`: the invariants of
  `RuntimeTwoProcs`, and `EventIdsAreIdempotent`;
- `Refinement`: `Spec => ImplementsLog`.

None of the invariants is inductive alone. The inductive invariant `IInv` adds:
`HashIsPosition`; `LockInv` (the promise chain of a process contains exactly its
running executes, once each, and only the first has passed the lock); `CallInv`
and `BatchInv` per call (what it has appended is determined by where it is, and
forms the end of its chain, directly after the expected head). The argument in
one sentence: the append compares one hash, and since hashes are positions and
every chain in memory is a prefix of the store, that comparison makes the
writer's chain *equal* to the store, so everything it decided on its possibly
stale chain is true at the instant of the append. The locks are not needed for
it. They are needed for

- `LockPreventsConflict` (`NoConflict`), under `OneHome`: all calls run in one process and
  none of them is an unlocked read, the situation of `RuntimeOneProc`. `ExactInv` says
  that whoever has passed the lock works on a chain *equal* to the store, because no one
  else appends meanwhile and a cache of the store's version is the store. A second process makes conflicts possible, and so does a reader that caches an
  old chain, which is why the theorem says so.

`ReceiptBranch_proofs` proves, for any actors, stream names and numbers of appends and forks, from
`BranchAssumption` (there are finitely many stream names):

- `EveryChainVerifies` (`ChainsVerify`), under `OneForker` (below): the receipts of a root name
  each other (`LinkInv`: an append to a root is offered the head of its own receipts), relinking
  links those of a branch to the prefix of its parent, and no branch becomes a root again
  (`RowInv`: whoever is about to save a row without a parent finds none there);
- `BranchTypes` (`TypeOK`), whoever forks. Its substantial part is that no fork point is beyond all
  that was appended: what can be read of a branch are different receipts (`ViewOwned`), since a
  stream that can be read is none of its own ancestors;
- `ForkPointsExist` (`ForkPointExists`) and `HistoryIsKept` (`HistoryIsAppendOnly`), under `OneForker`:
  one process forks at a time, any number append. `ForkInv` says that what a fork has checked
  still holds when its row is saved; then a parent only grows behind every fork point (`ViewGrows`),
  and a saved row changes no branch but the new one. With two forkers all three are
  false, as TLC shows: they may give one new name two parents, or each other's names, or take
  from a branch its parent (section 5).

The chain of a branch is a recursion over its parents, which `ReceiptBranch` states over a bounded
depth (`View`: no more parents than there are streams, which is what the code's set of seen streams
comes to). The induction theorems of the library cannot be used here, so `ViewExists` builds the
recursive function by hand, and inductions on the depth are searches for a least counterexample
(`Least`).

`JobQueue_proofs` proves, for any sets of processes, followers, workers, jobs and
commands, any `maxAttempts` and any number of faults, from `RecordAssumption`,
`QueueAssumption` and `SingleEnqueuer` (one process enqueues; the others lease,
report, cancel, command and follow):

- `TypeCorrect`, `RealOutcomes` (`OutcomesAreReal`), `EventsAlwaysFit`
  (`EventsFit`), `FinalOutcomes` (`TerminalIsFinal`);
- `LifecycleRefined`: `Spec => ImplementsLifecycle`;
- `SessionStaysSingle` (`SessionIsSingleton`): the session loop of an enqueue has told to
  abort, or found finished, every job of the session it has left behind.

The inductive invariant relates every copy of a job to its stream by `Real`: the
copy knows no job and no outcome that the stream does not have. It covers rows,
indexes, the state an unfinished `WriteRow` or `SyncWrite` is about to write
(`CopiesInv`, and `Grounded` per operation), and what the session loop of an
enqueue has found; `Shape` says which fields an operation has set by where it is.
`Real` survives every append, because a stream never loses its job or its outcome
(`ReduceGrows`), and it survives every late write, because what is written was
`Real` when it was read. So no lock and no order of writes is needed for these
four properties. The single enqueuer is needed: `job.enqueued` is the one event
the reducer applies to any state, so a second process that enqueues the same id at
the same time resets the job, running or finished. Within a process the write
lock excludes it, which is the part of the invariant about `admit`, `session` and
the creating `emit`. The reducer is the other half of the argument: `EventMoves`
goes through its events and shows that each moves a job along its lifecycle,
whatever state it meets; `StreamSteps` shows that nothing but an append and the
time touches a stream.

The second half of `JobQueue_proofs` is about one queue over a database, for any number of
workers, jobs, commands, attempts, exceptions and crashes, under `OneQueue` (one process, no
follower). The assumption is the scope of the claim: with a second queue, or with a
follower's sync, a row is written outside the lock it was read under, and TLC finds
counterexamples.

- `LeasesAreExclusive`, `CommandsDeliveredOnce`, `ProjectionsFollow`;
- `IsLedger`: `Spec => ImplementsLedger`, if `Targeted = {}` (all leases by `leaseNext`):
  `leaseJob` leases a queued job that was told to abort, which the ledger does not.

Under the write lock every guard is taken on one copy of the job, the row or (if there is
none) the stream, and nothing changes that copy until the event that was offered on it is
appended (`Promised`). After a throw between append and projection the copy may be behind
the stream for good. `LeaseInv` says how far: never of a later attempt than the stream, and
in agreement with it about the owner of an attempt both know. `CmdInv` says that a command
is open in one job at most, in the stream or in the row, and in none after it was handed
out. `FollowInv` says that until the first throw the copies *are* the stream, except for the
job being projected and for *leased* against *running*.

`TaskExecution_proofs` proves, for any numbers of workers, jobs, attempts, slots, crashes
and late leases, from `WorkerAssumption` and `RecordAssumption`: `TypeCorrect`, `Exclusion`
(`HandlersExclusive`), `Slots` (`SlotsHeld`), `OneSlotCounts` (with one slot `overlap` never
comes about, late or not: the slot is the run that is not over), `Recovered`
(`RecoveredNotRerun`). The inductive invariant is the types together with `LedgerInv` (a queued job has an attempt left;
a run that has yet to report *owns* its job: its attempt is the last one granted, and the job
is finished or leased to the run's worker with a deadline that has not passed), `SlotsInv`
(until `overlap` the Map `active` counts the live runs of a worker, of which no two have one
job) and, for `Recovered`,
`CallsInv` (a call of the activity belongs to a run in its handler, and when it is about to
begin the work there is no result on disk, since the handler is alone).
Ownership holds while `late = 0`; a crash does not count as late, because the run dies with
the lease it held. On top of these, and needing `RunAssumption` (no run is called
undefined):

- `AppliesOnce` (`AppliedOnce`) and `KeepsPromise` (`Spec => ImplementsOnce`), for any number
  of attempts. `DiskInv` relates the result on disk, the row of the activity and the task, and
  `OnceInv` says that whoever is about to apply a result is the only one and finds the
  task at work: the run, a run that recovers it, or the sweep of a start, which begins
  before any run of its process.
- `CompletedApplied` (`CompletedIsApplied`), if `MaxAttempts <= 2`, which is what the code gives a
  task job. With three attempts and two crashes a job can be completed whose result
  nobody applied, so the hypothesis is needed. `TwoInv`: while
  the row has an outcome that the task has not, both runs are past their look at the row,
  so none of them takes that outcome for one that was applied.

`ObjectiveControl_proofs` proves, for any number of objectives, slots, callers, workers, calls
and crashes, from `ControlAssumption`: `ControlTypes`, `ControlJobsAreSingle`
(`ControlJobIsSingle`) and `SlotsAreBounded` (`SlotsBounded`). First it shows once what a step of
a fibre puts in front of the rest of its list (`Follows`) and what it does to the data
(`Effects`). Then `FibreInv`: in a list only the head creates, hires or posts, and only calm
steps come before a promise of a slot. `JInv`: whoever is about to hire holds the promise
of `objectiveControlEnqueueLocks` for the objective, and between the look for a job and the
post there is none. `NotOverbooked`: the objectives that hold a slot, together with those a fibre
is about to give one, are no more than the slots, and at most one fibre is about to give any,
until `doubled`.

`ObjectiveDelivery_proofs` proves, for any number of fibres, tasks, runs, passes and calls, from
`DeliveryAssumption`:

- `ParallelismIsBounded`. The planner's look at the active tasks is old when its dispatch is
  applied, so the plan does not carry the bound. What does is the second look `dispatchTask`
  takes: a fibre about to append a dispatch against a head that has not moved read that head
  with a place free (`Room`), and any event in between takes its head away.
- `DeliveryTypes` (`DeliveryTypeOK`), with `InPlace`: where a fibre is tells of what kind its
  effect, its job and the job it is about to enqueue are.
- `PromotionsAreChecked` (`PromotedIsChecked`), by `InHand`: until an effect comes too late, the
  integration is in one pair of hands, those of a fibre or of one queued job, in the phase
  they work on, and what is merged is being checked or was.
- `RunsStayInStep` (`RunsMatchTasks`), by three invariants. `LabelInv`: a run belongs to one task and is
  in one pair of hands. `SeenInv`: a fibre that drops the job of a task has reported its result.
  `AwaitedInv`: until something comes too late, a job that was not canceled has its task waiting
  for it. `RunsInvariant` states the three together for the theorems below.
- `NothingIsLeftUnplanned` (`NothingUnplanned`). The invariant, `AttendedInv`, says who will act:
  while there is something to plan for a live objective, a control job is queued, or a fibre
  *reacts* (`Reacts`), or the plan is a follow-up or a split and its wake is in the stream
  (`Dropped`). A fibre that is busy need not: the handler of a canceled job stops without a word, a
  control job that is past its react may look no more, and a dispatch that finds its place taken
  throws, and what it planned is lost with it, so none of these is counted. What turns a fibre into
  such a one, a cancellation or the dispatch that takes the place, is the step of a fibre that goes
  on reacting itself. A signal that is suppressed for the sake of a control job is harmless here,
  since a failed job changes nothing that is planned before somebody looks at it. A fibre whose split
  turns out obsolete goes on with the rest of its plan, so the invariant speaks of what is planned
  with and without the advice (`Covers`).
- `NothingIsForgottenAlone` (`NothingForgotten`), from the further assumption `Fibres = {f}`: one
  fibre at a time, as in the run; with more it is false (`FailuresHeard`, section 5). `AloneInv` adds where a
  failed job is noticed (`Heard`: the fibre has yet to look, or a control job is queued, or the split
  that canceled the job is about to be emitted) and that what is planned spares the active tasks
  (`Spares`), which are all running. `Numbered`, which holds for any number of fibres, says that a
  run belongs to one task and that only runs that were dispatched have failed; without it the
  failure of one run could block the task of another, and a new run could be born failed. At rest
  `SeenInv` gives every active task a failed job, `Heard` none.

`Workbench_proofs` proves `TypeCorrect` and `NoWayBack` (`NeverBackwards`) for any pages
and bounds: what the server answers only grows (`ServerInv`), a request carries what the
island showed when it started, so its answer is no older (`FetchInv`), and it is applied
only if the island shows the same still. Comparing the envelopes for equality is what the
argument needs; the route comparison alone would not do. The board's envelope carries no
session version, so the two islands are treated separately (`Blind`).

`JobRecord_proofs` holds the lemmas about the reducer that the others share.

Only model-checked is every liveness property (`CallsReturn`, `JobsEnd`, `SlotsServed`, `Rests`, `Settles`):
TLAPS does not handle liveness under fairness. Every invariant and every action property of a run
that passes is a theorem.

## 5. Where the code and its documentation differ

The models reproduce each of these. The modules state the claims, and no run checks them; to see
one fail, add the named definition to the configuration in parentheses.

- `FailuresHeard` (`ObjectiveRaces`): `src/server/bootstrap.ts:212` calls it "Structurally sound
  auto-recovery for crashed/expired factory jobs" that a failed job enqueues a control job, so that
  the orchestrator "naturally picks it up". While a control job of the objective is active none is
  enqueued (`factory-job-gates.ts:74`), and the active one looks at the failed jobs only when its react
  starts (`reactor.ts:64`). A task job that fails after that look leaves its task running and active,
  with nothing queued; it waits for the next request, note or restart.
- A request left to a control job that no longer looks (`ObjectiveRaces`, with the invariant
  `Resting => Planned = Nothing`): while a control job is at work `enqueueObjectiveControl` only
  emits `wake.requested` (`service.ts:2996-3024`), and that job looks for it after each of at most two
  passes (`3075`, `3227-3246`). A split recommended after its last look (`1767`), or a follow-up or a
  split that it is refused itself in its second pass (`4116-4118`), starts nothing: a live objective
  rests with it until the next request, note or restart. `NothingUnplanned` excepts
  exactly this (`Dropped`). One fibre at a time never gets there (`NothingForgotten`).
- `ReadIsCurrent` (`RuntimeTwoProcs`): `docs/api/streams.md:61` describes reads as the state
  of the stream. The version is read after the receipts (`runtime.ts` 189 and 215) and a
  read takes no lock, so an old chain can be cached under the new version and is returned
  until the next append. It never harms a write.
- `DuplicateMeansApplied` (`RuntimeTwoProcs`): by `docs/api/streams.md:76` a duplicate event
  id is a command already applied. The check accepts any hint `eventId#n`, so the retry of a
  batch cut short after its first event is answered as applied.
- `BranchIsWritable` (`BranchRaces`): the first append on a branch forked above index 0
  compares the parent's head with a missing head (`sqlite.ts:72`) and throws, always.
- `ChainsVerify` and `ForkPointExists` with two processes that fork (`BranchRaces`, with
  `Forkers = {cli, server}`): `fork` looks for the row of its parent and then saves one without a
  parent (`runtime.ts:326-329`), and a fork that made that very stream a branch in between is undone:
  the receipts its branch has got since are linked to a chain it no longer has, and
  `receipt verify` refuses it. A fork may likewise replace the row of another (`runtime.ts:324`).
- `AbortedIsNotQueued` (`QueueFaults`): a job whose abort was requested goes back to queued
  when its lease expires or its run fails; `shouldQueueJob` hides it from every lease and
  nothing cancels it. `docs/api/http.md:128` calls the abort a cancel.
- `GetJobIsAuthoritative` (`QueueTwoProcs`): the row of a process that read earlier can
  overwrite that of one that wrote later (`projectors.ts:151`), and `getJob` trusts it; for
  `tests/smoke/sqlite-queue.test.ts:330` it is authoritative.
- `AbortHeeded` (`TaskCrashes`): the handler consumes the abort itself; if it then fails with
  a retry, the pull after it finds nothing and the job is run again.
- A worker with several slots may lease a job of which an earlier run of its own is not over: it
  was late, or the run has failed the job and is still returning (`job-worker.ts:361-367`, `430`). Its Map
  `active` is keyed by the job, so the end of the earlier run frees the slot of the later one, and
  the worker runs one job more than its concurrency. `SlotsHeld` excepts it (`overlap`). With one
  slot it cannot happen (`OneSlotCounts`); `TaskCrashes` has one, and has passed with two as well.
- `SlotHeldOnce` (`ObjectiveControl`): two objectives can hold one slot
  (`docs/factory-on-receipt.md:82` says at most `repoSlotConcurrency`): the free slots are
  read before an `await`, and an objective that was blocked reopens with the slot it had.
- The result of a canceled run, when it comes late, takes the task that a newer run is working
  on out of `active` (`service.ts:4920` looks at the task, not at the run). `stale` records it
  as a late *result*, and `RunsMatchTasks` excepts it.
- `NoStaleDispatch` (`ObjectiveRaces`, with `MaxTasks = 3`, `MaxParallel = 2`,
  `MaxTaskRuns = 3`): the head is taken after the plan (`service.ts:3949`, `5508`), so a task at
  work can be dispatched again; `docs/factory-agent-orchestration.md:372` says the expected
  head prevents stale decisions.
- The planner can rest on an objective it cannot finish (a chained split whose first half is
  blocked, a conflicted integration without passes left, a merge that failed for a moment),
  where `docs/factory-agent-orchestration.md:366` lets it go on until a terminal state.
- The exceptions in `Settles`: `README.md` (79, 233) says the islands refresh on live
  invalidation. They may stay behind until the next event or focus because versions are cached
  for 900 ms, the hub keeps no frames and the `init` frame of a reconnect is ignored
  (`reactive.ts:170`), a request failed, or two fetches overlapped on one envelope and the older
  answer came first. Selecting another tab while the board of a new objective is fetched drops
  the response (`workbench.ts:905`) and leaves the previous board.

## 6. What is not modelled, and why

- The hash function, JSON and the fold of application state: a state is a
  function of a chain. Event-specific reducers of agents and chats.
- The queue: lanes, agent filters and the order in which jobs are leased; `listJobs`,
  `waitForJob`, `waitForWork` (readers and waiters of the index); a change of `maxAttempts`
  per job; singleton modes mixed with `allow`; the projector offset.
- Two processes that fork at the same time, or enqueue the same job id at the same time.
  `ReceiptBranch` describes the first but its run lets only one actor fork, since the
  guarantees of branches do not survive it (section 5; chains of parents may even become
  cycles, which every reader refuses). A fork that is cut off between its two saves: the
  stream of the parent then has no row, as before the fork.
- Across processes the exclusiveness of leases, the bound on attempts and the
  singleton modes do not hold in the model: a row written late makes an attempt
  number be used twice. The repository promises them nowhere for several
  processes over one projection, so no run says so.
- The worker: exceptions of the queue's calls inside a run (`JobQueue` has them
  as `Throw`, for the queue; what the run does after one is left out), the wait for the queue to
  advance (it ends after `idleResyncMs` at the latest),
  `stop()` (a process about to exit is a crash), sessions of leases by agent.
- The durable backend: signals other than aborts, checkpoints and heartbeats of activities, the
  RPC driver of resonate.
- The release of slots in `RebalanceSlots` is one step; the code lists the objectives, emits a
  release for each that no longer needs its slot, and reads them again. In between an objective may
  reopen and lose its slot all the same. Split into its steps the instance is beyond TLC here
  (close to four million states and no end in sight). What the split adds is a reopened objective that is
  `released`; the model has such objectives, since one may reopen after its release too.
- Delivery: investigation mode, manual promotion, the aborts, steers and syntheses a monitor
  recommends, the redrive of a job, the gate on remaining completion, the limit on elapsed
  minutes, isolated execution. The events a split emits are one step here; the code emits its
  decision, its tasks and the consumed advice in separate batches.
- Factory's evidence, prompts, profiles, worktrees and artifact handling: text and git.
- The workbench: htmx swaps, session replay, the composer, the ephemeral turn with its token
  stream, scrolling, routes without an objective, the inspector's pages. Changes made by other
  processes, which publish under fewer topics.
- Agents (driven by the answers of models), memory tools (search and summaries over
  append-only scopes), hub git, codex (child processes), the web server, views, styles and the
  command line. They are a large part of the
  repository's lines, mostly rendering, parsing and I/O around the state modelled here,
  and the reason why the mapped lines are a small share of the whole.

## 7. Plan

1. The projector offset with its change log, and the waiters of the queue.
2. More of the factory service: investigation mode and manual promotion.
