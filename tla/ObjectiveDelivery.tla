------------------------- MODULE ObjectiveDelivery -------------------------
(***************************************************************************)
(* How one delivery objective of src/services/factory gets its work done:  *)
(* the reactor plans from the folded objective, tasks are dispatched,      *)
(* their results are reviewed, approved candidates are merged, validated   *)
(* and published.                                                          *)
(*                                                                         *)
(* Several fibres react to the same objective at once: a control job, the  *)
(* handler of each job that has brought a result, and a request.  Each of  *)
(* them reads the objective, plans one effect, awaits, and applies it.     *)
(* Some effects are appended against the head of the stream; "fresh" says  *)
(* that no event was emitted since the fibre took that head.  Who asks for *)
(* a control job while one is at work only leaves a wake in the stream,    *)
(* and that job looks for it after a pass, twice at most.                  *)
(*                                                                         *)
(* The objective is in delivery mode with autoPromote, has its slot        *)
(* (ObjectiveControl), and task completions report no remaining work.      *)
(***************************************************************************)
EXTENDS Naturals, FiniteSets, FiniteSetsExt

CONSTANTS
  Fibres,
  MaxTasks,      \* bound: tasks ever added
  MaxParallel,   \* effectiveMaxParallelChildren
  MaxTaskRuns,   \* policy.budgets.maxTaskRuns
  MaxPasses,     \* policy.budgets.maxCandidatePassesPerTask
  PlannerPasses, \* the reactor's limit of 64 passes
  MaxCalls       \* bound: notes, splits, failures, cancels and crashes

ASSUME DeliveryAssumption ==
  /\ MaxTasks \in Nat \ {0} /\ MaxParallel \in Nat \ {0}
  /\ MaxTaskRuns \in Nat /\ MaxPasses \in Nat /\ MaxCalls \in Nat
  /\ PlannerPasses \in Nat \ {0}

VARIABLES
  status,   \* of the objective; "live" is planning, executing, integrating, promoting,
            \* "policy" blocked for a reason that starts with "Policy blocked:"
  tasks,    \* per task its status, latest candidate, passes and latest run
  chained,  \* the second half of a split depends on the first
  active,   \* workflow.activeTaskIds
  integ,    \* integration.status and the task and pass of activeCandidateId
  note,     \* the latest operator note: none, not yet in a task's prompt, taken up
  advice,   \* the task and pass that a monitor recommends to split
  runs,     \* taskRunsUsed
  queue,    \* queued jobs
  posted,   \* integration jobs ever enqueued: their ids are not used again
  failed,   \* runs whose job ended failed or canceled
  asked,    \* controlWakeRequestedAt > controlWakeConsumedAt
  wake,     \* a control job is queued
  fibre,    \* per fibre, what it does
  merged,   \* tasks merged into the integration workspace
  checked,  \* tasks that were merged when checks last passed there
  calls,    \* how many of the bounded calls have happened
  stale,    \* history: what was applied too late, an effect that the planner would no
            \* longer choose, or the result of a run that had failed or been canceled
  cut       \* history: a crash, an error or the pass limit cut off a react

objective == <<status, tasks, chained, active, integ, note, advice, runs>>
ledger == <<queue, posted, failed, asked, wake>>
workspace == <<merged, checked>>
vars == <<objective, ledger, fibre, workspace, calls, stale, cut>>

Tasks == 1..MaxTasks
Added == {t \in Tasks : tasks[t].st # "absent"}
Terminal == status \in {"completed", "canceled"}
Halted == status \in {"blocked", "policy"}

-----------------------------------------------------------------------------
(* Jobs and effects. *)
(* The pass of a control job is the one of its two that it is at. *)
Job == [kind : {"none", "control", "task", "validate", "publish"},
        task : 0..MaxTasks, pass : Nat, run : Nat]
J(kind, t, pass, run) == [kind |-> kind, task |-> t, pass |-> pass, run |-> run]
NoJob == J("none", 0, 0, 0)

Kinds == {"none", "add", "follow", "split", "prepare", "dispatch", "integrate",
          "ready", "promote", "complete", "block", "next", "budget", "policy"}
Effect == [do : Kinds, on : 0..MaxTasks, pass : Nat, up : SUBSET Tasks, down : SUBSET Tasks]
E(do, on) == [do |-> do, on |-> on, pass |-> 0, up |-> {}, down |-> {}]
Nothing == E("none", 0)

RunsOf(jobs) == {j.run : j \in jobs} \ {0}
Held == {fibre[g].job : g \in Fibres}

(* The effects that are appended against the head of the stream. *)
Conditional == {"follow", "split", "dispatch", "integrate", "promote", "next"}

Places == {"idle", "pass", "sync", "gate", "plan", "head", "emit", "post", "merge", "merged",
           "check", "end", "run", "validating", "publishing", "cancel"}
(* rest is what the plan holds beside the split it begins with. *)
Fibre == [at : Places, job : Job, eff : Effect, rest : Effect, due : Job, fresh : BOOLEAN,
          left : 0..PlannerPasses]
Idle == [at |-> "idle", job |-> NoJob, eff |-> Nothing, rest |-> Nothing, due |-> NoJob,
         fresh |-> FALSE, left |-> 0]

To(f, at) == [fibre[f] EXCEPT !.at = at]
Reacting(job) == [Idle EXCEPT !.at = "sync", !.job = job]

(* A fibre moves on without, and with, an event in the objective's stream. *)
Moves(f, next) == fibre' = [fibre EXCEPT ![f] = next]
Emits(f, next) ==
  fibre' = [g \in Fibres |-> IF g = f THEN next ELSE [fibre[g] EXCEPT !.fresh = FALSE]]

(* The react is over.  A job that brought a result completes, and its      *)
(* afterComplete reacts once more; a control job looks for another wake.   *)
Over(f) == IF fibre[f].job.kind \in {"task", "validate"} THEN Reacting(NoJob)
           ELSE IF fibre[f].job.kind = "control"
             THEN [Idle EXCEPT !.at = "check", !.job = fibre[f].job]
           ELSE Idle

(* Mutant: one effect ends the react. *)
AgainNot(f) == Over(f)

(* An effect was applied: the reactor plans once more. *)
Again(f) == [fibre[f] EXCEPT !.at = "plan", !.eff = Nothing, !.rest = Nothing,
                             !.due = NoJob, !.fresh = FALSE]
Blocking(f) == [fibre[f] EXCEPT !.at = "emit", !.eff = E("block", 0), !.fresh = FALSE]
Onto(eff) == IF eff.do \in Conditional THEN "head" ELSE "emit"

-----------------------------------------------------------------------------
(* Control jobs. *)
AtWork == \E g \in Fibres : fibre[g].job.kind = "control"

(* enqueueObjectiveControl: the wake is left in the stream, and a job is   *)
(* queued if none is queued or at work.                                    *)
Asks == asked' = TRUE /\ wake' = (wake \/ ~AtWork)

(* A job that failed or was canceled wakes the objective (onJobChange and  *)
(* shouldQueueObjectiveControlReconcile), but not while that is halted or  *)
(* over, nor while there is a control job, whatever that has yet to see.   *)
(* The event of the wake may come before or after what the fibre does next.*)
Heeded == status = "live" /\ ~wake /\ ~AtWork
Signals(f, next) ==
  IF Heeded THEN /\ asked' = TRUE /\ wake' = TRUE
                 /\ Moves(f, next) \/ Emits(f, [next EXCEPT !.fresh = FALSE])
  ELSE Moves(f, next) /\ UNCHANGED <<asked, wake>>

-----------------------------------------------------------------------------
(* The objective. *)
Done == {"approved", "integrated", "superseded"}
DepsSatisfied(t) == chained /\ t = 3 => tasks[2].st \in Done
Ready == {t \in Tasks \ active : tasks[t].st = "ready" /\ DepsSatisfied(t)}
Activatable == {t \in Tasks \ active : tasks[t].st = "pending" /\ DepsSatisfied(t)}
Capped(t) == tasks[t].cand \in {"changes", "conflicted"} /\ tasks[t].passes >= MaxPasses

(* What buildFactoryProjection counts as live. *)
LiveActive == IF status = "live" THEN active ELSE {}
LiveReady == IF status = "live" THEN {t \in Tasks : tasks[t].st = "ready"} ELSE {}

Noop(t) == tasks[t].st = "approved" /\ tasks[t].cand = "noop"
DeliveryTerminal(t) == tasks[t].st \in {"integrated", "superseded"} \/ Noop(t)
AllTerminal == Added # {} /\ \A t \in Added : DeliveryTerminal(t)
Integrated == {t \in Tasks : tasks[t].st = "integrated"}
Candidate(t) == [task |-> t, pass |-> tasks[t].passes]
NoAdvice == [task |-> 0, pass |-> 0]
Approved == {t \in Tasks : tasks[t].st = "approved" /\ tasks[t].cand = "approved"
                            /\ Candidate(t) # integ.on}
NoRunnable ==
  /\ LiveReady = {} /\ LiveActive = {}
  /\ integ.st \in {"idle", "promoted"}
  /\ \A t \in Added : DeliveryTerminal(t) \/ tasks[t].st \in {"blocked", "capped"}
  /\ ~AllTerminal /\ ~Halted

Latest == Max(Added \cup {0})

(* maybeAutonomousNextStep: a block by policy is left alone, the others    *)
(* are retried once if the reason looks transient.                         *)
Stuck == {t \in Tasks : tasks[t].st = "blocked"}
Retryable == {t \in Stuck : tasks[t].passes <= 1 /\ ~Capped(t)}

DeliveryInit ==
  /\ status = "live"
  /\ tasks = [t \in Tasks |-> [st |-> "absent", cand |-> "none", passes |-> 0, run |-> 0]]
  /\ chained = FALSE
  /\ active = {}
  /\ integ = [st |-> "idle", on |-> [task |-> 0, pass |-> 0]]
  /\ note = "none" /\ advice = NoAdvice /\ runs = 0
  /\ queue = {} /\ posted = {} /\ failed = {} /\ asked = TRUE /\ wake = TRUE
  /\ fibre = [f \in Fibres |-> Idle]
  /\ merged = {} /\ checked = {} /\ calls = 0
  /\ stale = {} /\ cut = FALSE

-----------------------------------------------------------------------------
(* planObjectiveReact and selectFactoryRebracketEffect: the one effect     *)
(* that is applied next.  A batch of preparations comes first, then a      *)
(* dispatch, then the effects in the order they are planned.               *)
Prepares == [do |-> "prepare", on |-> 0, pass |-> 0,
             up |-> Activatable \cup
                    (IF Halted THEN {t \in Tasks : tasks[t].st \in {"blocked", "capped"}}
                     ELSE {}),
             down |-> {t \in Ready : Capped(t)}]

FollowUp == [E("follow", Latest) EXCEPT
              !.down = IF tasks[Latest].st \in {"integrated", "superseded"} THEN {} ELSE {Latest}]

(* The promotion gate.  Mutant: it does not wait for the validation. *)
CheckedOnceMerged == integ.st \in {"merging", "validating", "validated"}
Checked == integ.st = "validated"

Final ==
  IF active = {} /\ Ready # {} /\ runs >= MaxTaskRuns THEN E("budget", 0)
  ELSE IF Ready # {} /\ Cardinality(active) < MaxParallel THEN E("dispatch", Min(Ready))
  ELSE IF LiveActive = {} /\ integ.st \in {"idle", "conflicted"} /\ Approved # {}
    THEN E("integrate", Min(Approved))
  ELSE IF AllTerminal /\ Integrated # {} /\ Checked THEN E("ready", 0)
  ELSE IF AllTerminal /\ Integrated # {} /\ integ.st = "ready_to_promote"
    THEN E("promote", integ.on.task)
  ELSE IF AllTerminal /\ note # "new"
          /\ integ.st = (IF Integrated = {} THEN "idle" ELSE "promoted") THEN E("complete", 0)
  ELSE IF NoRunnable
    THEN (IF Stuck = {} THEN E("block", 0) ELSE [E("next", 0) EXCEPT !.up = Retryable])
  ELSE Nothing

FollowsUp == active = {} /\ note = "new"

(* What is planned but for the advice, which comes after a follow-up. *)
Unadvised ==
  IF Terminal THEN Nothing
  ELSE IF Added = {} THEN (IF Halted THEN Nothing ELSE E("add", 0))
  ELSE IF FollowsUp THEN FollowUp
  ELSE IF status = "blocked" /\ note = "none" THEN Nothing
  ELSE IF Prepares.up \cup Prepares.down # {} THEN Prepares
  ELSE Final

Planned ==
  IF advice # NoAdvice /\ ~Terminal /\ Added # {} /\ ~FollowsUp
    THEN [E("split", advice.task) EXCEPT !.pass = advice.pass]
  ELSE Unadvised

-----------------------------------------------------------------------------
(* reactFactoryObjective. *)

(* syncFailedActiveTasks: an active task whose job failed is blocked. *)
Lapsed == {t \in active : tasks[t].st = "running" /\ tasks[t].run \in failed}
Block(t, st) == [tasks[t] EXCEPT !.st = st,
                                 !.cand = IF @ = "running" THEN "changes" ELSE @]

Sync(f) ==
  /\ fibre[f].at = "sync"
  /\ IF Terminal
       THEN Moves(f, Over(f)) /\ UNCHANGED <<tasks, active>>
       ELSE /\ tasks' = [t \in Tasks |-> IF t \in Lapsed THEN Block(t, "blocked") ELSE tasks[t]]
            /\ active' = active \ Lapsed
            /\ IF Lapsed = {} THEN Moves(f, To(f, "gate")) ELSE Emits(f, To(f, "gate"))
  /\ UNCHANGED <<status, chained, integ, note, advice, runs, ledger, workspace, calls, stale, cut>>

(* derivePolicyBlockedReason, looked at once before the passes. *)
Gate(f) ==
  /\ fibre[f].at = "gate"
  /\ Moves(f, IF Terminal THEN Over(f)
              ELSE IF runs >= MaxTaskRuns \/ status = "policy"
                THEN [fibre[f] EXCEPT !.at = "emit", !.eff = E("policy", 0)]
              ELSE [fibre[f] EXCEPT !.at = "plan", !.left = PlannerPasses])
  /\ UNCHANGED <<objective, ledger, workspace, calls, stale, cut>>

(* Mutants: the passes are not counted; the limit is not looked at.        *)
PlanUncounted(f) ==
  /\ fibre[f].at = "plan"
  /\ LET eff == Planned IN
     Moves(f, IF eff = Nothing THEN Over(f)
              ELSE [fibre[f] EXCEPT !.at = Onto(eff), !.eff = eff])
  /\ UNCHANGED <<objective, ledger, workspace, calls, stale, cut>>

PlanUnlimited(f) ==
  /\ fibre[f].at = "plan"
  /\ LET eff == Planned IN
     Moves(f, IF eff = Nothing THEN Over(f)
              ELSE [fibre[f] EXCEPT !.at = Onto(eff), !.eff = eff, !.left = @ - 1])
  /\ UNCHANGED <<objective, ledger, workspace, calls, stale, cut>>

Plan(f) ==
  /\ fibre[f].at = "plan"
  /\ LET eff == Planned IN
     /\ Moves(f, IF eff = Nothing \/ fibre[f].left = 0 THEN Over(f)
                 ELSE [fibre[f] EXCEPT !.at = Onto(eff), !.eff = eff, !.left = @ - 1,
                                       !.rest = IF eff.do = "split" THEN Unadvised ELSE Nothing])
     /\ cut' = (cut \/ (eff # Nothing /\ fibre[f].left = 0))
  /\ UNCHANGED <<objective, ledger, workspace, calls, stale>>

(* Before a conditional effect the head of the stream is taken: after the  *)
(* plan, so the plan may be older than the head.                           *)
Head(f) ==
  /\ fibre[f].at = "head"
  /\ fibre[f].eff.do \notin {"dispatch", "split"}
  /\ Moves(f, [To(f, "emit") EXCEPT !.fresh = TRUE])
  /\ UNCHANGED <<objective, ledger, workspace, calls, stale, cut>>

(* Mutant: the capacity is trusted to the planner. *)
HeadDispatchUnchecked(f) ==
  /\ fibre[f].at = "head"
  /\ fibre[f].eff.do = "dispatch"
  /\ Moves(f, [To(f, "emit") EXCEPT !.fresh = TRUE])
  /\ UNCHANGED <<objective, ledger, workspace, calls, stale, cut>>

(* dispatchTask reads the objective at the head it took.  When the react   *)
(* throws, its job fails; a control job is tried a second time.            *)
HeadDispatch(f) ==
  LET job == fibre[f].job IN
  /\ fibre[f].at = "head"
  /\ fibre[f].eff.do = "dispatch"
  /\ IF Cardinality(active) < MaxParallel
       THEN Moves(f, [To(f, "emit") EXCEPT !.fresh = TRUE]) /\ UNCHANGED <<failed, asked, wake>>
     ELSE IF job.kind \in {"task", "validate"}
       THEN /\ failed' = failed \cup RunsOf({job})
            /\ Signals(f, Idle)
     ELSE /\ Moves(f, Idle)
          /\ wake' \in IF job.kind = "control" THEN {wake, TRUE} ELSE {wake}
          /\ UNCHANGED <<failed, asked>>
  /\ UNCHANGED <<objective, queue, posted, workspace, calls, stale, cut>>

(* Mutant: the job of the task that is split is left running. *)
HeadSplitKept(f) ==
  /\ fibre[f].at = "head"
  /\ fibre[f].eff.do = "split"
  /\ Moves(f, [To(f, "emit") EXCEPT !.fresh = TRUE])
  /\ UNCHANGED <<objective, ledger, workspace, calls, stale, cut>>

(* applyMonitorRecommendation: the task is looked at once more, and its    *)
(* job canceled before the split is emitted.  Advice that is obsolete is   *)
(* put away, and the rest of the same plan applied.                        *)
HeadSplit(f) ==
  LET eff == fibre[f].eff
      rest == fibre[f].rest
      t == eff.on
      on == [task |-> t, pass |-> eff.pass]
  IN
  /\ fibre[f].at = "head" /\ eff.do = "split"
  /\ IF tasks[t].st # "running" \/ Candidate(t) # on
       THEN /\ advice' = IF advice = on THEN NoAdvice ELSE advice
            /\ Emits(f, IF rest = Nothing THEN Over(f)
                        ELSE [fibre[f] EXCEPT !.at = Onto(rest), !.eff = rest, !.rest = Nothing])
            /\ UNCHANGED <<queue, failed, asked, wake>>
       ELSE /\ failed' = failed \cup {tasks[t].run}
            /\ queue' = {j \in queue : j.run # tasks[t].run}
            /\ Signals(f, [To(f, "emit") EXCEPT !.fresh = TRUE, !.rest = Nothing])
            /\ UNCHANGED advice
  /\ UNCHANGED <<status, tasks, chained, active, integ, note, runs, posted,
                 workspace, calls, stale, cut>>

-----------------------------------------------------------------------------
(* Applying an effect. *)

(* emitObjectiveBatch, with expectedPrev where there is one. *)
Appends(f, do) ==
  /\ fibre[f].at = "emit" /\ fibre[f].eff.do = do
  /\ do \in Conditional => fibre[f].fresh

(* History: would the planner still choose this? *)
Current(eff) == \/ eff = Planned
                \/ eff.do = "policy" /\ ~Terminal
                \/ eff.do = "block" /\ Planned.do = "next"
Judged(f) == stale' = stale \cup IF Current(fibre[f].eff) THEN {} ELSE {"effect"}

Reopened == IF Halted THEN "live" ELSE status
Becomes(set, st) == [t \in Tasks |-> IF t \in set THEN [tasks[t] EXCEPT !.st = st] ELSE tasks[t]]

EmitAdd(f) ==
  /\ Appends(f, "add")
  /\ tasks' = Becomes({1}, "pending")
  /\ status' = IF Added = {} THEN "live" ELSE Reopened
  /\ Emits(f, Again(f)) /\ Judged(f)
  /\ UNCHANGED <<chained, active, integ, note, advice, runs, ledger, workspace, calls, cut>>

(* emitFollowUpTaskFromLatestNote *)
EmitFollow(f) ==
  LET eff == fibre[f].eff IN
  /\ Appends(f, "follow")
  /\ tasks' = [t \in Tasks |-> IF t = eff.on + 1 THEN [tasks[t] EXCEPT !.st = "pending"]
                               ELSE Becomes(eff.down, "superseded")[t]]
  /\ active' = active \ eff.down
  /\ note' = "taken" /\ status' = Reopened
  /\ Emits(f, Again(f)) /\ Judged(f)
  /\ UNCHANGED <<chained, integ, advice, runs, ledger, workspace, calls, cut>>

(* splitTask *)
EmitSplit(f) ==
  LET on == fibre[f].eff.on
      split == [task |-> on, pass |-> fibre[f].eff.pass]
  IN
  /\ Appends(f, "split")
  /\ tasks' = [t \in Tasks |->
       IF t \in {Latest + 1, Latest + 2} THEN [tasks[t] EXCEPT !.st = "pending"]
       ELSE IF t = on /\ tasks[t].st # "integrated" THEN [tasks[t] EXCEPT !.st = "superseded"]
       ELSE tasks[t]]
  /\ active' = active \ {on} /\ chained' \in BOOLEAN
  /\ advice' = (IF advice = split THEN NoAdvice ELSE advice) /\ status' = Reopened
  /\ Emits(f, Again(f)) /\ Judged(f)
  /\ UNCHANGED <<integ, note, runs, ledger, workspace, calls, cut>>

EmitPrepare(f) ==
  LET eff == fibre[f].eff IN
  /\ Appends(f, "prepare")
  /\ tasks' = [t \in Tasks |-> IF t \in eff.down THEN Block(t, "capped")
                               ELSE Becomes(eff.up, "ready")[t]]
  /\ active' = active \ eff.down
  /\ status' = IF eff.up # {} THEN Reopened ELSE status
  /\ Emits(f, Again(f)) /\ Judged(f)
  /\ UNCHANGED <<chained, integ, note, advice, runs, ledger, workspace, calls, cut>>

(* dispatchTask: a candidate that is still running is used again. *)
EmitDispatch(f) ==
  LET t == fibre[f].eff.on
      pass == tasks[t].passes + IF tasks[t].cand = "running" THEN 0 ELSE 1
  IN
  /\ Appends(f, "dispatch")
  /\ runs' = runs + 1
  /\ tasks' = [tasks EXCEPT ![t] = [st |-> "running", cand |-> "running",
                                    passes |-> pass, run |-> runs + 1]]
  /\ active' = active \cup {t}
  /\ status' = "live"
  /\ Emits(f, [To(f, "post") EXCEPT !.due = J("task", t, pass, runs + 1)]) /\ Judged(f)
  /\ UNCHANGED <<chained, integ, note, advice, ledger, workspace, calls, cut>>

(* queueIntegration up to integration.merging, promoteIntegration up to    *)
(* integration.promoting.                                                  *)
EmitIntegration(f, do, st, at, kind) ==
  LET t == fibre[f].eff.on IN
  /\ Appends(f, do)
  /\ integ' = [st |-> st, on |-> Candidate(t)]
  /\ status' = "live"
  /\ Emits(f, [To(f, at) EXCEPT !.due = J(kind, t, tasks[t].passes, 0)]) /\ Judged(f)
  /\ UNCHANGED <<tasks, chained, active, note, advice, runs, ledger, workspace, calls, cut>>

EmitIntegrate(f) == EmitIntegration(f, "integrate", "merging", "merge", "validate")
EmitPromote(f) == EmitIntegration(f, "promote", "promoting", "post", "publish")

EmitReady(f) ==
  /\ Appends(f, "ready")
  /\ integ' = [integ EXCEPT !.st = "ready_to_promote"]
  /\ status' = "live"
  /\ Emits(f, Again(f)) /\ Judged(f)
  /\ UNCHANGED <<tasks, chained, active, note, advice, runs, ledger, workspace, calls, cut>>

EmitComplete(f) ==
  /\ Appends(f, "complete")
  /\ status' = "completed" /\ Asks
  /\ Emits(f, Again(f)) /\ Judged(f)
  /\ UNCHANGED <<tasks, chained, active, integ, note, advice, runs, queue, posted, failed,
                 workspace, calls, cut>>

EmitBlock(f) ==
  /\ \E do \in {"block", "budget", "policy"} : Appends(f, do)
  /\ status' = IF fibre[f].eff.do = "block" THEN "blocked" ELSE "policy"
  /\ Emits(f, IF fibre[f].eff.do = "policy" THEN Over(f) ELSE Again(f)) /\ Judged(f)
  /\ UNCHANGED <<tasks, chained, active, integ, note, advice, runs, ledger, workspace,
                 calls, cut>>

(* A retry reacts anew, a question to the operator ends the react. *)
EmitNext(f) ==
  /\ Appends(f, "next")
  /\ \/ \E t \in fibre[f].eff.up :
          /\ tasks' = Becomes({t}, "ready")
          /\ status' = Reopened
          /\ Emits(f, Reacting(fibre[f].job))
     \/ /\ status' = "blocked"
        /\ Emits(f, Over(f))
        /\ UNCHANGED tasks
  /\ Judged(f)
  /\ UNCHANGED <<chained, active, integ, note, advice, runs, ledger, workspace, calls, cut>>

(* The head has moved: the effect is dropped.  After a follow-up or a      *)
(* split reactObjective asks for a control job, though it may be run by    *)
(* the one there is.                                                       *)
Refused(f) ==
  LET do == fibre[f].eff.do IN
  /\ fibre[f].at = "emit" /\ do \in Conditional /\ ~fibre[f].fresh
  /\ \/ /\ do \in {"dispatch", "integrate", "promote"}
        /\ Moves(f, Again(f)) /\ UNCHANGED <<asked, wake>>
     \/ /\ do = "next"
        /\ Moves(f, Blocking(f)) /\ UNCHANGED <<asked, wake>>
     \/ /\ do \in {"follow", "split"}
        /\ Emits(f, Over(f)) \/ (asked /\ Moves(f, Over(f)))
        /\ Asks
  /\ UNCHANGED <<objective, queue, posted, failed, workspace, calls, stale, cut>>

(* The job of an effect is enqueued.  The id of a validation or publish    *)
(* job is made of the candidate, and taken once.                           *)
Post(f) ==
  LET job == fibre[f].due IN
  /\ fibre[f].at = "post"
  /\ queue' = IF job \in posted THEN queue ELSE queue \cup {job}
  /\ posted' = IF job.kind = "task" THEN posted ELSE posted \cup {job}
  /\ Moves(f, Again(f))
  /\ UNCHANGED <<objective, failed, asked, wake, workspace, calls, stale, cut>>

-----------------------------------------------------------------------------
(* The merge: merge.applied, then task.integrated, then the validation.    *)
Merge(f) ==
  LET t == fibre[f].due.task IN
  /\ fibre[f].at = "merge"
  /\ tasks' = [tasks EXCEPT ![t].cand = "integrated"]
  /\ merged' = merged \cup {t}
  /\ Emits(f, To(f, "merged"))
  /\ UNCHANGED <<status, chained, active, integ, note, advice, runs, ledger, checked, calls,
                 stale, cut>>

EmitIntegrated(f) ==
  LET t == fibre[f].due.task IN
  /\ fibre[f].at = "merged"
  /\ tasks' = [tasks EXCEPT ![t].st = "integrated"]
  /\ active' = active \ {t} /\ status' = "live"
  /\ Emits(f, To(f, "post"))
  /\ UNCHANGED <<chained, integ, note, advice, runs, ledger, workspace, calls, stale, cut>>

(* Whatever is thrown before the validation is enqueued counts as a        *)
(* conflict of the merge; the react inside the react is followed by        *)
(* another pass.  A transient error leaves the integration as it is.       *)
MergeFails(f) ==
  LET t == fibre[f].due.task IN
  /\ fibre[f].at \in {"merge", "merged"} \/ (fibre[f].at = "post" /\ fibre[f].due.kind = "validate")
  /\ \/ /\ \/ fibre[f].at = "merge" /\ UNCHANGED calls
           \/ fibre[f].at # "merge" /\ calls < MaxCalls /\ calls' = calls + 1
        /\ tasks' = [tasks EXCEPT ![t].cand = "conflicted"]
        /\ integ' = [st |-> "conflicted", on |-> Candidate(t)]
        /\ status' = "blocked"
        /\ Emits(f, Reacting(fibre[f].job))
        /\ UNCHANGED <<asked, wake, cut>>
     \/ /\ calls < MaxCalls /\ calls' = calls + 1
        /\ Asks /\ cut' = TRUE
        /\ Emits(f, Again(f))
        /\ UNCHANGED <<tasks, integ, status>>
  /\ UNCHANGED <<chained, active, note, advice, runs, queue, posted, failed, workspace, stale>>

-----------------------------------------------------------------------------
(* runObjectiveControl: a worker leases the control job. *)
Control(f) ==
  /\ fibre[f].at = "idle" /\ wake
  /\ wake' = FALSE
  /\ Moves(f, [Idle EXCEPT !.at = "pass", !.job = J("control", 0, 1, 0)])
  /\ UNCHANGED <<objective, queue, posted, failed, asked, workspace, calls, stale, cut>>

(* The live jobs of a terminal objective are retired, and the job ends. *)
Retires(f) ==
  /\ queue' = {} /\ failed' = failed \cup RunsOf(queue \cup Held)
  /\ Moves(f, To(f, "end"))
  /\ UNCHANGED asked

(* A pass consumes the wake that is pending, and reacts. *)
Pass(f) ==
  /\ fibre[f].at = "pass"
  /\ IF Terminal THEN Retires(f)
     ELSE /\ asked' = FALSE
          /\ IF asked THEN Emits(f, Reacting(fibre[f].job)) ELSE Moves(f, Reacting(fibre[f].job))
          /\ UNCHANGED <<queue, failed>>
  /\ UNCHANGED <<objective, posted, wake, workspace, calls, stale, cut>>

(* After it the objective is read again: a wake that is pending then gets  *)
(* a second pass, and no third.                                            *)
Check(f) ==
  LET job == fibre[f].job IN
  /\ fibre[f].at = "check"
  /\ IF Terminal THEN Retires(f)
     ELSE /\ Moves(f, IF asked /\ job.pass = 1
                      THEN [To(f, "pass") EXCEPT !.job = J("control", 0, 2, 0)]
                      ELSE To(f, "end"))
          /\ UNCHANGED <<queue, failed, asked>>
  /\ UNCHANGED <<objective, posted, wake, workspace, calls, stale, cut>>

EndControl(f) ==
  /\ fibre[f].at = "end"
  /\ Moves(f, Idle)
  /\ UNCHANGED <<objective, ledger, workspace, calls, stale, cut>>

-----------------------------------------------------------------------------
(* The other jobs. *)

(* A worker leases a job.  integration.validating is emitted whatever the  *)
(* objective has become.                                                   *)
Take(f) ==
  /\ fibre[f].at = "idle"
  /\ \E j \in queue :
       /\ queue' = queue \ {j}
       /\ \/ /\ j.kind = "task"
             /\ Moves(f, [Idle EXCEPT !.at = "run", !.job = j])
             /\ UNCHANGED <<integ, status>>
          \/ /\ j.kind = "validate"
             /\ integ' = [st |-> "validating", on |-> [task |-> j.task, pass |-> j.pass]]
             /\ status' = "live"
             /\ Emits(f, [Idle EXCEPT !.at = "validating", !.job = j,
                                      !.eff = [Nothing EXCEPT !.up = merged]])
          \/ /\ j.kind = "publish"
             /\ Moves(f, IF Terminal THEN Idle ELSE [Idle EXCEPT !.at = "publishing", !.job = j])
             /\ UNCHANGED <<integ, status>>
  /\ UNCHANGED <<tasks, chained, active, note, advice, runs, posted, failed, asked, wake,
                 workspace, calls, stale, cut>>

(* applyTaskWorkerResult and planTaskResult.  Neither looks at what has    *)
(* become of the task or of the objective.                                 *)
Reviewed(t, pass, st, cand) ==
  tasks' = [tasks EXCEPT ![t].st = st,
                         ![t].cand = IF tasks[t].passes = pass THEN cand ELSE @]

(* A task that is blocked takes its latest running candidate with it. *)
ReviewedBlocked(t, pass, st) ==
  tasks' = [tasks EXCEPT ![t] = [Block(t, st) EXCEPT !.cand = IF tasks[t].passes = pass
                                                             THEN "changes" ELSE @]]

Approve(t, pass) == Reviewed(t, pass, "approved", "approved") /\ UNCHANGED note
ApproveNoop(t, pass) == Reviewed(t, pass, "approved", "noop") /\ UNCHANGED note
Rework(t, pass) == IF tasks[t].passes >= MaxPasses THEN ReviewedBlocked(t, pass, "capped")
                   ELSE Reviewed(t, pass, "ready", "changes")
RequestChanges(t, pass) == Rework(t, pass) /\ UNCHANGED note
(* The task reports that it is blocked, ... *)
Blocked(t) == tasks' = [tasks EXCEPT ![t] = Block(t, "blocked")] /\ UNCHANGED note
(* ... or misses the contract and came of another task. *)
Misaligned(t, pass) == ReviewedBlocked(t, pass, "blocked") /\ UNCHANGED note
(* The first time a task misses the contract, the controller adds a note.  *)
Misses(t, pass) == t = 1 /\ Latest < MaxTasks /\ Rework(t, pass) /\ note' = "new"

Result(f) ==
  LET job == fibre[f].job IN
  /\ fibre[f].at = "run"
  /\ \/ Approve(job.task, job.pass) \/ ApproveNoop(job.task, job.pass)
     \/ RequestChanges(job.task, job.pass) \/ Blocked(job.task)
     \/ Misaligned(job.task, job.pass) \/ Misses(job.task, job.pass)
  /\ active' = active \ {job.task}
  /\ Emits(f, Reacting(job))
  /\ stale' = stale \cup IF job.run \in failed THEN {"result"} ELSE {}
  /\ UNCHANGED <<status, chained, integ, advice, runs, ledger, workspace, calls, cut>>

(* The handler sees that its job was canceled. *)
Abort(f) ==
  /\ fibre[f].at = "run" /\ fibre[f].job.run \in failed
  /\ Moves(f, Idle)
  /\ UNCHANGED <<objective, ledger, workspace, calls, stale, cut>>

(* Mutant: nobody is told of a failed job. *)
FailsUnseen(f) ==
  /\ fibre[f].at = "run" /\ calls < MaxCalls
  /\ calls' = calls + 1
  /\ Moves(f, Idle)
  /\ failed' = failed \cup {fibre[f].job.run}
  /\ UNCHANGED <<objective, queue, posted, asked, wake, workspace, stale, cut>>

(* A failed job is tried again, or signals the objective. *)
Fails(f) ==
  /\ fibre[f].at = "run" /\ calls < MaxCalls
  /\ calls' = calls + 1
  /\ \/ /\ queue' = queue \cup {fibre[f].job}
        /\ Moves(f, Idle)
        /\ UNCHANGED <<failed, asked, wake>>
     \/ /\ failed' = failed \cup {fibre[f].job.run}
        /\ Signals(f, Idle)
        /\ UNCHANGED queue
  /\ UNCHANGED <<objective, posted, workspace, stale, cut>>

(* runIntegrationValidation *)
Validated(f) ==
  LET job == fibre[f].job
      on == [task |-> job.task, pass |-> job.pass] IN
  /\ fibre[f].at = "validating"
  /\ \/ /\ integ' = [st |-> "validated", on |-> on] /\ status' = "live"
        /\ checked' = checked \cup fibre[f].eff.up
        /\ Emits(f, Reacting(job))
     \/ /\ integ' = [st |-> "conflicted", on |-> on] /\ status' = "blocked"
        /\ Emits(f, Reacting(NoJob))
        /\ UNCHANGED checked
  /\ UNCHANGED <<tasks, chained, active, note, advice, runs, ledger, merged, calls, stale, cut>>

(* runIntegrationPublish *)
Published(f) ==
  LET on == [task |-> fibre[f].job.task, pass |-> fibre[f].job.pass] IN
  /\ fibre[f].at = "publishing"
  /\ \/ /\ integ' = [integ EXCEPT !.st = "promoted"] /\ status' = "completed" /\ Asks
     \/ /\ integ' = [st |-> "conflicted", on |-> on] /\ status' = "blocked"
        /\ UNCHANGED <<asked, wake>>
  /\ Emits(f, Reacting(NoJob))
  /\ UNCHANGED <<tasks, chained, active, note, advice, runs, queue, posted, failed, workspace,
                 calls, stale, cut>>

-----------------------------------------------------------------------------
(* Requests, advice and crashes. *)

(* reactObjectiveWithNote; after the end it opens another objective. *)
Note(f) ==
  /\ fibre[f].at = "idle" /\ ~Terminal
  /\ calls < MaxCalls /\ calls' = calls + 1
  /\ note # "new" /\ advice = NoAdvice /\ 0 < Latest /\ Latest < MaxTasks
  /\ note' = "new"
  /\ Emits(f, Reacting(NoJob))
  /\ UNCHANGED <<status, tasks, chained, active, integ, advice, runs, ledger, workspace,
                 stale, cut>>

(* runMonitorJob recommends to split a running task. *)
Advise(t) ==
  /\ tasks[t].st = "running" /\ t \in active
  /\ calls < MaxCalls /\ calls' = calls + 1
  /\ advice = NoAdvice /\ note = "none" /\ Latest + 2 <= MaxTasks
  /\ advice' = Candidate(t) /\ Asks
  /\ fibre' = [g \in Fibres |-> [fibre[g] EXCEPT !.fresh = FALSE]]
  /\ UNCHANGED <<status, tasks, chained, active, integ, note, runs, queue, posted, failed,
                 workspace, stale, cut>>

(* cancelObjective: the jobs first, a control job too, then the objective. *)
(* Until then the canceled jobs may signal.  A control job that is at work *)
(* goes on, but no longer counts.                                          *)
CancelJobs(f) ==
  /\ fibre[f].at = "idle"
  /\ calls < MaxCalls /\ calls' = calls + 1
  /\ failed' = failed \cup RunsOf(queue \cup Held)
  /\ queue' = {}
  /\ \/ wake' = FALSE /\ Moves(f, To(f, "cancel")) /\ UNCHANGED asked
     \/ /\ status = "live" /\ wake' = TRUE /\ asked' = TRUE
        /\ Emits(f, To(f, "cancel"))
  /\ UNCHANGED <<objective, posted, workspace, stale, cut>>

Cancel(f) ==
  /\ fibre[f].at = "cancel"
  /\ status' = "canceled"
  /\ asked' = TRUE /\ wake' \in {wake \/ ~AtWork, TRUE}
  /\ Emits(f, Idle)
  /\ UNCHANGED <<tasks, chained, active, integ, note, advice, runs, queue, posted, failed,
                 workspace, calls, stale, cut>>

(* The process dies.  Leased task jobs are tried once more, a control job  *)
(* if this was its first attempt, the others have one; a result that was   *)
(* applied is not applied again (TaskExecution).  resumeObjectives reacts  *)
(* to what is not over.                                                    *)
Crash ==
  /\ calls < MaxCalls /\ calls' = calls + 1
  /\ \E f \in Fibres : fibre[f].at \in {"post", "merge", "merged", "run", "validating", "publishing"}
  /\ queue' = queue \cup {fibre[f].job : f \in {g \in Fibres : fibre[g].at = "run"}}
  /\ cut' = (cut \/ \E f \in Fibres :
                fibre[f].at \in {"post", "merge", "merged", "validating", "publishing"})
  /\ \E boot \in Fibres :
       fibre' = [f \in Fibres |-> IF f = boot /\ ~Terminal THEN Reacting(NoJob) ELSE Idle]
  /\ wake' \in IF AtWork THEN {wake, TRUE} ELSE {wake}
  /\ UNCHANGED <<objective, posted, failed, asked, workspace, stale>>

-----------------------------------------------------------------------------
Emit(f) ==
  \/ EmitAdd(f) \/ EmitFollow(f) \/ EmitSplit(f) \/ EmitPrepare(f) \/ EmitDispatch(f)
  \/ EmitIntegrate(f) \/ EmitReady(f) \/ EmitPromote(f) \/ EmitComplete(f)
  \/ EmitBlock(f) \/ EmitNext(f)
React(f) == Sync(f) \/ Gate(f) \/ Plan(f) \/ Head(f) \/ HeadDispatch(f) \/ HeadSplit(f)
            \/ Emit(f) \/ Refused(f) \/ Post(f)
            \/ Merge(f) \/ EmitIntegrated(f) \/ MergeFails(f)
Work(f) == Control(f) \/ Pass(f) \/ Check(f) \/ EndControl(f) \/ Take(f) \/ Result(f) \/ Abort(f) \/ Validated(f) \/ Published(f)
           \/ Cancel(f)
Inside == \E f \in Fibres : React(f) \/ Work(f)
Outside == \/ \E f \in Fibres : Note(f) \/ CancelJobs(f) \/ Fails(f)
           \/ \E t \in Tasks : Advise(t)
           \/ Crash
DeliveryNext == Inside \/ Outside
DeliverySpec == DeliveryInit /\ [][DeliveryNext]_vars
FairDeliverySpec == DeliverySpec /\ WF_vars(Inside)

-----------------------------------------------------------------------------
(* The variables keep their shape. *)
DeliveryTypeOK ==
  /\ status \in {"live", "blocked", "policy", "completed", "canceled"}
  /\ tasks \in [Tasks -> [st : {"absent", "pending", "ready", "running", "approved",
                                "integrated", "blocked", "capped", "superseded"},
                          cand : {"none", "running", "changes", "approved", "noop",
                                  "integrated", "conflicted"},
                          passes : Nat, run : Nat]]
  /\ chained \in BOOLEAN /\ active \subseteq Tasks
  /\ advice \in [task : 0..MaxTasks, pass : Nat]
  /\ integ \in [st : {"idle", "merging", "validating", "validated", "ready_to_promote",
                      "promoting", "promoted", "conflicted"},
                on : [task : 0..MaxTasks, pass : Nat]]
  /\ note \in {"none", "new", "taken"}
  /\ runs \in Nat /\ failed \subseteq Nat /\ calls \in Nat
  /\ queue \subseteq Job /\ posted \subseteq Job
  /\ fibre \in [Fibres -> Fibre]
  /\ asked \in BOOLEAN /\ wake \in BOOLEAN /\ stale \subseteq {"effect", "result"} /\ cut \in BOOLEAN
  /\ merged \subseteq Tasks /\ checked \subseteq Tasks

(* The objective never has more task runs than its profile allows, however *)
(* many fibres react: dispatchTask looks at the head it appends against.   *)
ParallelBounded == Cardinality(active) <= MaxParallel

(* Tasks and jobs stay in step.  An active task has a run that is under    *)
(* way or has failed, unless a crash fell between the task's event and its *)
(* job.  A run that was not canceled works for a task that is active and   *)
(* waits for this very run, unless an effect or a result came too late:    *)
(* that of a canceled run takes the run after it out of the active tasks.  *)
Underway == RunsOf(queue \cup Held \cup {fibre[f].due : f \in Fibres})
RunsMatchTasks ==
  /\ cut \/ \A t \in active : tasks[t].run \in Underway \cup failed
  /\ stale # {} \/ \A f \in Fibres :
       LET job == fibre[f].job IN
       fibre[f].at = "run" /\ job.run \notin failed
         => job.task \in active /\ tasks[job.task].run = job.run

(* What is promoted was checked: everything merged into the integration    *)
(* workspace was there when its checks passed.                             *)
PromotedIsChecked ==
  integ.st \in {"ready_to_promote", "promoting", "promoted"}
    => "effect" \in stale \/ merged \subseteq checked

(* No result and no request is lost: when nothing runs, is queued or has   *)
(* been woken, nothing is left to plan for a live objective, however many  *)
(* fibres have reacted and whatever came too late, unless a react was cut  *)
(* off.  But a follow-up or a split may wait with its wake in the stream,  *)
(* left there to a control job that did not look for it any more.          *)
Quiet == (\A f \in Fibres : fibre[f].at = "idle") /\ queue = {} /\ ~wake
Resting == Quiet /\ status = "live" /\ ~cut
Dropped == asked /\ Planned.do \in {"follow", "split"}
NothingUnplanned == Resting => Planned = Nothing \/ Dropped

(* No failure is lost either: no task is active when nothing works on it.  *)
(* With one fibre only: see FailuresHeard.                                 *)
NothingForgotten == Resting => Planned = Nothing /\ active = {}

(* src/server/bootstrap.ts:212 calls it "Structurally sound auto-recovery  *)
(* for crashed/expired factory jobs" that a failed job enqueues a control  *)
(* job, so that the orchestrator "naturally picks it up": at rest no       *)
(* active task has a job that failed.  It fails where no control job is    *)
(* enqueued since one is at work, past its look at the failed jobs.        *)
FailuresHeard == Resting => Lapsed = {}

(* The reactor always comes to rest, also when an old operator note makes  *)
(* it unblock, for ever, a task that is blocked again for its passes.      *)
Rests == []<>Quiet

(* docs/factory-agent-orchestration.md:372 says that the append against    *)
(* the expected head "prevents stale orchestrator decisions from mutating  *)
(* objective state after the stream has already advanced": a task that is  *)
(* at work is not dispatched a second time.                                *)
NoStaleDispatch ==
  [][\A t \in active : tasks[t].run \in Underway \ failed => tasks'[t].run = tasks[t].run]_vars
=============================================================================
