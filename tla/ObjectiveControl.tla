-------------------------- MODULE ObjectiveControl --------------------------
(***************************************************************************)
(* The control plane of src/services/factory/runtime/service.ts: which     *)
(* objective holds an execution slot of the repository, and the control    *)
(* jobs and wakes that make a pass over an objective happen.               *)
(*                                                                         *)
(* Everything runs in one process as fibres that interleave at every       *)
(* await.  A fibre is the list of the steps it has still to do; a step     *)
(* reads once or emits once, and puts the steps it calls in front of the   *)
(* rest.  Callers serve requests and results of task jobs, Workers run     *)
(* control jobs, Boot resumes the objectives after a start.                *)
(*                                                                         *)
(* Of an objective only what the control plane looks at is kept.  A pass   *)
(* of the planner (ObjectiveDelivery) is one step that may change the      *)
(* phase.  Objectives are numbered by createdAt; all of them consume a     *)
(* slot.  The job ledger is the one JobQueue implements.                   *)
(***************************************************************************)
EXTENDS Naturals, FiniteSets, Sequences

CONSTANTS
  Callers, Workers, Boot, None,
  MaxObjectives,  \* bound: objectives ever created
  Concurrency,    \* repoSlotConcurrency
  MaxCalls        \* bound: notes, task results, cancels, archives, conflicts
                  \* and deaths of the process

ASSUME ControlAssumption ==
  /\ MaxObjectives \in Nat \ {0} /\ Concurrency \in Nat \ {0}
  /\ MaxCalls \in Nat
  /\ Callers \cap Workers = {} /\ Boot \notin Callers \cup Workers
  /\ None \notin Callers \cup Workers \cup {Boot}

VARIABLES
  objs,     \* the folded objectives
  begun,    \* objectives whose creation has started
  todo,     \* per fibre, the steps still to do
  lock,     \* per objective, the holder of its promise in objectiveControlEnqueueLocks
  queued,   \* per objective, its queued control jobs
  serving,  \* per worker, the objective whose control job it has in the ledger
  orphans,  \* objectives with a control job leased by a dead worker
  unfinished, \* objectives whose control workflow is pending or running
  calls,    \* how many of the bounded calls have happened
  owed,     \* history: admitted objectives that no pass has looked at since
  doubled,  \* history: a slot was given away twice, between read and emit or
            \* to an objective that opened again after it had released it
  lost      \* history: a wake was left to a control job that does not look again

ledger == <<queued, serving, orphans>>
history == <<owed, doubled, lost>>
vars == <<objs, begun, todo, lock, ledger, unfinished, calls, history>>

Objectives == 1..MaxObjectives
Fibres == Callers \cup Workers \cup {Boot}

-----------------------------------------------------------------------------
(* An objective.  "leaving" is promoting or ready to promote, "done" one   *)
(* of completed, failed and canceled; waiting_for_slot is "open" with a    *)
(* queued slot.                                                            *)
Phases == {"none", "open", "blocked", "leaving", "done"}
Objective == [phase : Phases, slot : {"none", "queued", "active"},
              released : BOOLEAN, archived : BOOLEAN, wake : BOOLEAN]
NoObjective == [phase |-> "none", slot |-> "none",
                released |-> FALSE, archived |-> FALSE, wake |-> FALSE]

Made(o) == objs[o].phase # "none"
Releases(o) == objs[o].phase \in {"blocked", "leaving", "done"}
Retired(o) == objs[o].archived \/ objs[o].phase = "done"
Holds(o) == Made(o) /\ ~objs[o].archived /\ ~Releases(o) /\ objs[o].slot = "active"
Waits(o) == Made(o) /\ ~objs[o].archived /\ ~Releases(o) /\ objs[o].slot # "active"
Holders == {o \in Objectives : Holds(o)}

(* The list of some objectives, oldest first (the set of that one list). *)
Listed(some) == {list \in [1..Cardinality(some) -> some] :
                   \A i, j \in DOMAIN list : i < j => list[i] < list[j]}

-----------------------------------------------------------------------------
(* Fibres. *)
Overall == {"rebalance", "sweep", "pending", "resume"}
Does == {"create", "queue", "place", "grant", "ask", "hire", "post", "pass1", "pass2",
         "look", "reread", "work", "check1", "check2", "end", "drop", "cancel",
         "archive", "recover"}
Step == [do : Overall, obj : {0}] \cup [do : Does, obj : Objectives]
S(do, o) == [do |-> do, obj |-> o]

At(t, do, o) == todo[t] # <<>> /\ todo[t][1].do = do /\ todo[t][1].obj = o
Then(t, steps) == todo' = [todo EXCEPT ![t] = steps \o Tail(@)]
Start(t, steps) == todo[t] = <<>> /\ todo' = [todo EXCEPT ![t] = steps]
ForAll(list, do) == [i \in DOMAIN list |-> S(do, list[i])]

Rebalance == <<S("rebalance", 0)>>
Enqueue(o) == <<S("ask", o)>>
Continue(o) == Rebalance \o <<S("look", o)>>
React(o) == Rebalance \o <<S("reread", o)>>

(* The stream lock: no emit comes between the events of a batch. *)
BatchOpen(o) == \E u \in Callers : At(u, "queue", o) \/ At(u, "place", o)

Emit(o, field, value) == objs' = [objs EXCEPT ![o][field] = value]

ControlInit ==
  /\ objs = [o \in Objectives |-> NoObjective]
  /\ begun = {}
  /\ todo = [t \in Fibres |-> <<>>]
  /\ lock = [o \in Objectives |-> None]
  /\ queued = [o \in Objectives |-> 0]
  /\ serving = [t \in Workers |-> 0]
  /\ orphans = {}
  /\ unfinished = {}
  /\ calls = 0
  /\ owed = {} /\ doubled = FALSE /\ lost = FALSE

-----------------------------------------------------------------------------
(* Slots. *)

(* Mutant: off by one. *)
FullLate(ahead) == Cardinality(Holders) + Cardinality(ahead) > Concurrency

(* hasActiveObjectiveSlot, and the count of rebalanceObjectiveSlots. *)
Full(ahead) == Cardinality(Holders) + Cardinality(ahead) >= Concurrency

(* Another fibre has read that there is a slot and not taken it yet. *)
Promised(t) == \E u \in Fibres \ {t} : \E i \in DOMAIN todo[u] :
  todo[u][i].do \in {"place", "grant"}

(* createObjective: whether a slot is free is read before anything is      *)
(* emitted.  An objective that starts immediately gets its pass inline.    *)
Create(t, o, immediately) ==
  /\ t \in Callers /\ o \notin begun /\ \A p \in 1..(o - 1) : p \in begun
  /\ begun' = begun \cup {o}
  /\ Start(t, <<S("create", o)>>
        \o (IF Full({}) THEN <<S("queue", o)>> ELSE <<S("place", o)>>)
        \o (IF immediately /\ ~Full({}) THEN Continue(o) ELSE Enqueue(o)))
  /\ doubled' = (doubled \/ (~Full({}) /\ Promised(t)))
  /\ UNCHANGED <<objs, lock, ledger, unfinished, calls, owed, lost>>

(* objective.created and, the next event of the batch, objective.slot.queued *)
(* or objective.slot.admitted. *)
EmitCreated(t, o) ==
  /\ At(t, "create", o) /\ Then(t, <<>>)
  /\ Emit(o, "phase", "open")
  /\ UNCHANGED <<begun, lock, ledger, unfinished, calls, history>>

EmitQueued(t, o) ==
  /\ At(t, "queue", o) /\ Then(t, <<>>)
  /\ Emit(o, "slot", "queued")
  /\ UNCHANGED <<begun, lock, ledger, unfinished, calls, history>>

(* Mutant: an admitted slot gets a state of its own. *)
AdmitAnew(o) == objs' = [objs EXCEPT ![o].slot = "admitted", ![o].released = FALSE]
Admit(o) == objs' = [objs EXCEPT ![o].slot = "active", ![o].released = FALSE]

EmitPlaced(t, o) ==
  /\ At(t, "place", o) /\ Then(t, <<>>)
  /\ Admit(o)
  /\ owed' = owed \cup {o}
  /\ UNCHANGED <<begun, lock, ledger, unfinished, calls, doubled, lost>>

(* rebalanceObjectiveSlots: every objective that has left and still shows  *)
(* an active slot is released (which does not change the slot), the list   *)
(* is read again, and the oldest that wait are to be admitted.  The code   *)
(* lists, releases and lists with awaits in between; here that is one step *)
(* (README, 6).  An objective that opens again meanwhile is released all   *)
(* the same, as one is here that opens again after its release.            *)
Leavers == {o \in Objectives : /\ Made(o) /\ objs[o].slot = "active"
                               /\ Releases(o) \/ objs[o].archived}
ToAdmit == {o \in Objectives : Waits(o) /\ ~Full({p \in 1..(o - 1) : Waits(p)})}

RebalanceSlots(t) ==
  /\ At(t, "rebalance", 0)
  /\ objs' = [o \in Objectives |-> [objs[o] EXCEPT !.released = @ \/ o \in Leavers]]
  /\ \E next \in Listed(ToAdmit) : Then(t, ForAll(next, "grant"))
  /\ doubled' = (doubled \/ (ToAdmit # {} /\ Promised(t)))
  /\ UNCHANGED <<begun, lock, ledger, unfinished, calls, owed, lost>>

EmitAdmitted(t, o) ==
  /\ At(t, "grant", o) /\ ~BatchOpen(o) /\ Then(t, Enqueue(o))
  /\ Admit(o)
  /\ owed' = owed \cup {o}
  /\ UNCHANGED <<begun, lock, ledger, unfinished, calls, doubled, lost>>

-----------------------------------------------------------------------------
(* enqueueObjectiveControl, under the promise of the objective.            *)
Active(o) == queued[o] > 0 \/ o \in orphans \/ \E t \in Workers : serving[t] = o

(* Mutant: enqueues of one objective overlap. *)
LockFreeAlways(o) == TRUE
LockFree(o) == lock[o] = None

(* The workflow is started or resumed and the wake requested: *)
(* requestObjectiveControlWake leaves one that is pending.                 *)
Ask(t, o) ==
  /\ At(t, "ask", o) /\ LockFree(o) /\ ~BatchOpen(o) /\ Then(t, <<S("hire", o)>>)
  /\ lock' = [lock EXCEPT ![o] = t]
  /\ unfinished' = unfinished \cup {o}
  /\ IF Made(o) THEN Emit(o, "wake", TRUE) ELSE UNCHANGED objs
  /\ UNCHANGED <<begun, ledger, calls, history>>

Unlock(o) == lock' = [lock EXCEPT ![o] = None]

(* A control job that is queued, leased or running is left to serve the    *)
(* wake, though it may have looked for a wake for the last time; otherwise *)
(* one is queued.                                                          *)
LooksNoMore(t, o) ==
  \E i \in DOMAIN todo[t] : todo[t][i] \in {S("check2", o), S("end", o)}

Hire(t, o) ==
  /\ At(t, "hire", o)
  /\ IF Active(o) THEN Then(t, <<>>) /\ Unlock(o)
     ELSE Then(t, <<S("post", o)>>) /\ UNCHANGED lock
  /\ lost' = (lost \/ (/\ Active(o) /\ objs[o].wake /\ ~Retired(o)
                      /\ \E w \in Workers : LooksNoMore(w, o)))
  /\ UNCHANGED <<objs, begun, ledger, unfinished, calls, owed, doubled>>

Post(t, o) ==
  /\ At(t, "post", o) /\ Then(t, <<>>) /\ Unlock(o)
  /\ queued' = [queued EXCEPT ![o] = @ + 1]
  /\ UNCHANGED <<objs, begun, serving, orphans, unfinished, calls, history>>

-----------------------------------------------------------------------------
(* runObjectiveControl, by a worker that leased the job: at most two       *)
(* passes.                                                                 *)
Lease(t, o) ==
  /\ t \in Workers /\ queued[o] > 0
  /\ Start(t, <<S("pass1", o)>>)
  /\ queued' = [queued EXCEPT ![o] = @ - 1]
  /\ serving' = [serving EXCEPT ![t] = o]
  /\ unfinished' = unfinished \cup {o}
  /\ UNCHANGED <<objs, begun, lock, orphans, calls, history>>

Ending(o) == <<S("end", o)>>

(* A pass reads the objective and consumes a pending wake before the work. *)
Pass(t, o, n) ==
  /\ At(t, IF n = 1 THEN "pass1" ELSE "pass2", o)
  /\ IF Retired(o)
     THEN Then(t, Rebalance \o Ending(o)) /\ UNCHANGED objs
     ELSE /\ Then(t, Continue(o) \o <<S(IF n = 1 THEN "check1" ELSE "check2", o)>>)
          /\ Emit(o, "wake", FALSE)
  /\ UNCHANGED <<begun, lock, ledger, unfinished, calls, history>>

(* continueActiveObjective, after its rebalance. *)
Look(t, o) ==
  /\ At(t, "look", o)
  /\ Then(t, IF objs[o].phase \in {"done", "blocked"} THEN Rebalance
             ELSE IF objs[o].slot = "active" THEN React(o) ELSE <<>>)
  /\ UNCHANGED <<objs, begun, lock, ledger, unfinished, calls, history>>

(* Mutant: the second read does not look for a wake. *)
CheckOnce(t, o, n) ==
  /\ At(t, IF n = 1 THEN "check1" ELSE "check2", o)
  /\ Then(t, IF Retired(o) THEN Rebalance \o Ending(o) ELSE Ending(o))
  /\ UNCHANGED <<objs, begun, lock, ledger, unfinished, calls, history>>

(* The objective is read again, and a wake asked for meanwhile is served   *)
(* by a second pass; after that one the job ends in any case.              *)
Check(t, o, n) ==
  /\ At(t, IF n = 1 THEN "check1" ELSE "check2", o)
  /\ Then(t, IF Retired(o) THEN Rebalance \o Ending(o)
             ELSE IF objs[o].wake /\ n = 1 THEN <<S("pass2", o)>> ELSE Ending(o))
  /\ UNCHANGED <<objs, begun, lock, ledger, unfinished, calls, history>>

(* The workflow is completed, the handler returns and the job completes.   *)
EndJob(t, o) ==
  /\ At(t, "end", o) /\ Then(t, <<>>)
  /\ unfinished' = unfinished \ {o}
  /\ serving' = [serving EXCEPT ![t] = 0]
  /\ UNCHANGED <<objs, begun, lock, queued, orphans, calls, history>>

-----------------------------------------------------------------------------
(* reactFactoryObjective. *)
Reread(t, o) ==
  /\ At(t, "reread", o)
  /\ Then(t, IF objs[o].phase = "done" THEN Rebalance
             ELSE IF objs[o].slot = "queued" THEN <<>> ELSE <<S("work", o)>>)
  /\ UNCHANGED <<objs, begun, lock, ledger, unfinished, calls, history>>

(* What a pass may make of a phase; nothing revives a finished objective.  *)
Outcomes(phase) == IF phase = "done" THEN {} ELSE Phases \ {"none", phase}

(* emitObjectiveBatch follows a terminal event with a rebalance and a      *)
(* control job; the pass itself ends with a rebalance.                     *)
AfterWork(o, phase) ==
  (IF phase = "done" THEN Rebalance \o Enqueue(o) ELSE <<>>) \o Rebalance

Work(t, o) ==
  /\ At(t, "work", o) /\ ~BatchOpen(o)
  /\ \/ Then(t, Rebalance) /\ UNCHANGED <<objs, doubled>>
     \/ \E phase \in Outcomes(objs[o].phase) :
          /\ objs[o].slot # "queued"
          /\ Emit(o, "phase", phase)
          /\ doubled' = (doubled \/ (Releases(o) /\ phase = "open"))
          /\ Then(t, AfterWork(o, phase))
  /\ owed' = owed \ {o}
  /\ UNCHANGED <<begun, lock, ledger, unfinished, calls, lost>>

Call == calls < MaxCalls /\ calls' = calls + 1

(* A conflict of the pass with another writer: reactObjective asks for     *)
(* another pass.                                                           *)
WorkConflicts(t, o) ==
  /\ At(t, "work", o) /\ Then(t, Enqueue(o)) /\ Call
  /\ UNCHANGED <<objs, begun, lock, ledger, unfinished, history>>

(* A note of the operator, or the result of a task job. *)
CallReact(t, o) ==
  /\ t \in Callers /\ Made(o) /\ Call
  /\ Start(t, React(o))
  /\ UNCHANGED <<objs, begun, lock, ledger, unfinished, history>>

-----------------------------------------------------------------------------
(* cancelObjective and archiveObjective: the active jobs are canceled, the *)
(* control job too, then the event is emitted.  A canceled job that runs   *)
(* goes on to its end.                                                     *)
CallCancel(t, o) ==
  /\ t \in Callers /\ Made(o) /\ Call
  /\ Start(t, <<S("drop", o), S("cancel", o)>> \o Rebalance)
  /\ UNCHANGED <<objs, begun, lock, ledger, unfinished, history>>

CallArchive(t, o) ==
  /\ t \in Callers /\ Made(o) /\ Call
  /\ Start(t, <<S("drop", o)>>
        \o (IF objs[o].archived THEN <<>> ELSE <<S("archive", o)>>) \o Rebalance)
  /\ UNCHANGED <<objs, begun, lock, ledger, unfinished, history>>

Drop(targets) ==
  /\ queued' = [o \in Objectives |-> IF o \in targets THEN 0 ELSE queued[o]]
  /\ serving' = [t \in Workers |-> IF serving[t] \in targets THEN 0 ELSE serving[t]]
  /\ orphans' = orphans \ targets

DropJobs(t, o) ==
  /\ At(t, "drop", o) /\ Then(t, <<>>) /\ Drop({o})
  /\ UNCHANGED <<objs, begun, lock, unfinished, calls, history>>

EmitCanceled(t, o) ==
  /\ At(t, "cancel", o) /\ ~BatchOpen(o) /\ Then(t, Rebalance \o Enqueue(o))
  /\ Emit(o, "phase", "done")
  /\ UNCHANGED <<begun, lock, ledger, unfinished, calls, history>>

EmitArchived(t, o) ==
  /\ At(t, "archive", o) /\ ~BatchOpen(o) /\ Then(t, Rebalance \o Enqueue(o))
  /\ Emit(o, "archived", TRUE)
  /\ UNCHANGED <<begun, lock, ledger, unfinished, calls, history>>

-----------------------------------------------------------------------------
(* The process dies, in the middle of something, and starts again:         *)
(* resumeObjectives follows.  Its leases expire, and the jobs are queued   *)
(* again.                                                                  *)
Crash ==
  /\ Call /\ \E t \in Fibres : todo[t] # <<>>
  /\ todo' = [t \in Fibres |->
                IF t = Boot
                THEN <<S("sweep", 0)>> \o Rebalance \o <<S("resume", 0)>>
                ELSE <<>>]
  /\ lock' = [o \in Objectives |-> None]
  /\ serving' = [t \in Workers |-> 0]
  /\ orphans' = orphans \cup {o \in Objectives : \E t \in Workers : serving[t] = o}
  /\ UNCHANGED <<objs, begun, queued, unfinished, history>>

ExpireLease(o) ==
  /\ o \in orphans /\ orphans' = orphans \ {o}
  /\ queued' = [queued EXCEPT ![o] = @ + 1]
  /\ UNCHANGED <<objs, begun, todo, lock, serving, unfinished, calls, history>>

(* reconcileQueuedObjectiveControlJobs: the control jobs of objectives that *)
(* are over or blocked are canceled; *)
Settled(o) == Retired(o) \/ objs[o].phase = "blocked"

Sweep(t) ==
  /\ At(t, "sweep", 0) /\ Then(t, <<S("pending", 0)>>)
  /\ Drop({o \in Objectives : Made(o) /\ Settled(o)})
  /\ UNCHANGED <<objs, begun, lock, unfinished, calls, history>>

(* then every unfinished workflow without a job, in turn, *)
ListPending(t) ==
  /\ At(t, "pending", 0)
  /\ \E list \in Listed(unfinished) : Then(t, ForAll(list, "recover"))
  /\ UNCHANGED <<objs, begun, lock, ledger, unfinished, calls, history>>

(* is canceled or gets a job. *)
Recover(t, o) ==
  /\ At(t, "recover", o)
  /\ IF Active(o)
     THEN Then(t, <<>>) /\ UNCHANGED unfinished
     ELSE IF ~Made(o) \/ Settled(o)
     THEN Then(t, <<>>) /\ unfinished' = unfinished \ {o}
     ELSE Then(t, Enqueue(o)) /\ UNCHANGED unfinished
  /\ UNCHANGED <<objs, begun, lock, ledger, calls, history>>

(* A pass for every objective whose card shows an active slot. *)
Resumable(o) == Made(o) /\ ~Retired(o) /\ ~Releases(o)
             /\ objs[o].slot # "queued" /\ ~objs[o].released

Resume(t) ==
  /\ At(t, "resume", 0)
  /\ \E list \in Listed({o \in Objectives : Resumable(o)}) :
       Then(t, [i \in 1..(2 * Len(list)) |-> React(list[(i + 1) \div 2])[2 - (i % 2)]])
  /\ UNCHANGED <<objs, begun, lock, ledger, unfinished, calls, history>>

-----------------------------------------------------------------------------
StepOf(t, o) ==
  \/ EmitCreated(t, o) \/ EmitQueued(t, o) \/ EmitPlaced(t, o) \/ EmitAdmitted(t, o)
  \/ Ask(t, o) \/ Hire(t, o) \/ Post(t, o)
  \/ \E n \in 1..2 : Pass(t, o, n) \/ Check(t, o, n)
  \/ Look(t, o) \/ Reread(t, o) \/ Work(t, o) \/ WorkConflicts(t, o) \/ EndJob(t, o)
  \/ DropJobs(t, o) \/ EmitCanceled(t, o) \/ EmitArchived(t, o)
  \/ Recover(t, o)

DoesStep(t) ==
  /\ todo[t] # <<>>
  /\ RebalanceSlots(t) \/ Sweep(t) \/ ListPending(t) \/ Resume(t) \/ StepOf(t, Head(todo[t]).obj)

Calls(t) == \E o \in Objectives :
  \/ Create(t, o, TRUE) \/ Create(t, o, FALSE)
  \/ CallReact(t, o) \/ CallCancel(t, o) \/ CallArchive(t, o)

Inside ==
  \/ \E t \in Fibres : DoesStep(t)
  \/ \E t \in Workers, o \in Objectives : Lease(t, o)
  \/ \E o \in Objectives : ExpireLease(o)

ControlNext == Inside \/ Crash \/ \E t \in Fibres : Calls(t)

ControlSpec == ControlInit /\ [][ControlNext]_vars

(* Some fibre goes on, a free worker leases, the leases of the dead expire. *)
(* Nobody has to call, to conflict or to crash, and all that is bounded,   *)
(* so that the process comes to rest.                                      *)
ControlFairness == WF_vars(Inside)

FairControlSpec == ControlSpec /\ ControlFairness

-----------------------------------------------------------------------------
(* Every variable has its type. *)
ControlTypeOK ==
  /\ objs \in [Objectives -> Objective] /\ begun \subseteq Objectives
  /\ todo \in [Fibres -> Seq(Step)]
  /\ lock \in [Objectives -> Fibres \cup {None}]
  /\ queued \in [Objectives -> Nat] /\ serving \in [Workers -> Objectives \cup {0}]
  /\ orphans \subseteq Objectives
  /\ unfinished \subseteq Objectives
  /\ calls \in 0..MaxCalls
  /\ owed \subseteq Objectives /\ {doubled, lost} \subseteq BOOLEAN

(* No more objectives hold a slot than there are, unless one was given     *)
(* away twice: no other order of calls, passes and crashes overbooks.      *)
SlotsBounded == doubled \/ Cardinality(Holders) <= Concurrency

(* What docs/factory-on-receipt.md says of createObjective and of          *)
(* rebalanceObjectiveSlots without reserve: at most so many hold a slot.   *)
SlotHeldOnce == Cardinality(Holders) <= Concurrency

(* At most one control job of an objective is queued, leased or running,   *)
(* whoever asks for one, across crashes too.                               *)
Jobs(o) == queued[o] + (IF o \in orphans THEN 1 ELSE 0)
         + Cardinality({t \in Workers : serving[t] = o})
ControlJobIsSingle == \A o \in Objectives : Jobs(o) <= 1

(* An admitted objective gets a pass of the planner or is over, and no     *)
(* slot stays free while an objective waits for one: admissions and wakes  *)
(* survive crashes, conflicts and passes in progress, unless a control job *)
(* ends between its last read and a wake.                                  *)
Neglected(o) == o \in owed /\ ~objs[o].archived /\ ~Releases(o)
SlotIdle == Cardinality(Holders) < Concurrency /\ \E o \in Objectives : Waits(o)
SlotsServed == []<>(lost \/ (~SlotIdle /\ \A o \in Objectives : ~Neglected(o)))
=============================================================================
