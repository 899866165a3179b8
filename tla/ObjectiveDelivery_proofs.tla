---------------------- MODULE ObjectiveDelivery_proofs ----------------------
(***************************************************************************)
(* Theorems about ObjectiveDelivery, for any number of fibres, tasks,      *)
(* runs, passes and calls.                                                 *)
(*                                                                         *)
(* ParallelismIsBounded: the planner's look at the active tasks is old     *)
(* when its dispatch is applied.  What counts is the look of dispatchTask: *)
(* a fibre that is about to emit a dispatch against a head that has not    *)
(* moved has read that head with a place free, and any event takes its     *)
(* head away (Room).                                                       *)
(*                                                                         *)
(* DeliveryTypes: the place of a fibre says of what kind its effect, its   *)
(* job and the job it is about to enqueue are (InPlace).                   *)
(*                                                                         *)
(* PromotionsAreChecked: until an effect comes too late, the integration   *)
(* is in one pair of hands, a fibre's or a queued job's, in the phase that *)
(* they are working on, and what is merged is being, or was, checked       *)
(* (InHand).                                                               *)
(*                                                                         *)
(* RunsStayInStep: a run belongs to one task and is in one pair of hands   *)
(* (LabelInv); a fibre that drops the job of a task has reported its       *)
(* result (SeenInv); until something comes too late, a job that was not    *)
(* canceled has its task waiting for it (AwaitedInv).                      *)
(*                                                                         *)
(* NothingIsLeftUnplanned: while there is something to plan for a live     *)
(* objective, somebody is going to plan (AttendedInv).                     *)
(*                                                                         *)
(* NothingIsForgottenAlone, for one fibre: an active task is running, and  *)
(* one whose job failed will be noticed (AloneInv); a run is numbered by   *)
(* its dispatch (Numbered).                                                *)
(***************************************************************************)
EXTENDS ObjectiveDelivery, TLAPS, FiniteSetTheorems, WellFoundedInduction

Fields == {"at", "job", "eff", "rest", "due", "fresh", "left"}
Shaped(fs) == DOMAIN fs = Fibres /\ \A f \in Fibres : DOMAIN fs[f] = Fields

Dispatches(x) == x.at = "emit" /\ x.eff.do = "dispatch" /\ x.fresh
Room(fs, set) == \A f \in Fibres : Dispatches(fs[f]) => Cardinality(set) < MaxParallel

Bounded(fs, set) ==
  /\ Shaped(fs) /\ Room(fs, set)
  /\ IsFiniteSet(set) /\ Cardinality(set) <= MaxParallel

ParallelInv == Bounded(fibre, active)

-----------------------------------------------------------------------------
(* A fibre that moves on without a dispatch, while no task becomes active. *)
LEMMA MovesOn ==
  ASSUME ParallelInv, NEW f \in Fibres, NEW next, Moves(f, next), DOMAIN next = Fields,
         Dispatches(next) => Cardinality(active) < MaxParallel, UNCHANGED active
  PROVE  ParallelInv'
<1>1. \A g \in Fibres : fibre'[g] = IF g = f THEN next ELSE fibre[g]
  BY DEF Moves, ParallelInv, Bounded, Shaped
<1>2. Shaped(fibre')
  BY <1>1 DEF Moves, ParallelInv, Bounded, Shaped
<1>3. Room(fibre', active')
  BY <1>1 DEF ParallelInv, Bounded, Room
<1> QED
  BY <1>2, <1>3 DEF ParallelInv, Bounded

(* An event that makes no task active takes the heads of the other fibres. *)
LEMMA EmitsOn ==
  ASSUME ParallelInv, NEW f \in Fibres, NEW next, Emits(f, next), DOMAIN next = Fields,
         ~Dispatches(next), active' \subseteq active
  PROVE  ParallelInv'
<1>1. Shaped(fibre')
  BY DEF Emits, ParallelInv, Bounded, Shaped, Fields
<1>2. \A g \in Fibres : ~Dispatches(fibre'[g])
  BY DEF Emits, ParallelInv, Bounded, Shaped, Fields, Dispatches
<1>3. Room(fibre', active')
  BY <1>2 DEF Room
<1>4. IsFiniteSet(active') /\ Cardinality(active') <= Cardinality(active)
  BY FS_Subset DEF ParallelInv, Bounded
<1>5. Cardinality(active') \in Nat /\ Cardinality(active) \in Nat
  BY <1>4, FS_CardinalityType DEF ParallelInv, Bounded
<1>6. Cardinality(active') <= MaxParallel
  BY <1>4, <1>5, DeliveryAssumption DEF ParallelInv, Bounded
<1> QED
  BY <1>1, <1>3, <1>4, <1>6 DEF ParallelInv, Bounded

(* A signal is an event or not. *)
LEMMA SignalsOn ==
  ASSUME ParallelInv, NEW f \in Fibres, NEW next, Signals(f, next), DOMAIN next = Fields,
         ~Dispatches(next), UNCHANGED active
  PROVE  ParallelInv'
<1> DEFINE cold == [next EXCEPT !.fresh = FALSE]
<1>1. DOMAIN cold = Fields /\ ~Dispatches(cold)
  BY DEF Fields, Dispatches
<1>2. Moves(f, next) \/ Emits(f, cold)
  BY DEF Signals
<1> QED
  BY <1>1, <1>2, MovesOn, EmitsOn

(* The states a fibre moves to. *)
LEMMA Nexts ==
  ASSUME ParallelInv, NEW f \in Fibres
  PROVE  /\ \A job : DOMAIN Reacting(job) = Fields /\ ~Dispatches(Reacting(job))
         /\ DOMAIN Idle = Fields /\ ~Dispatches(Idle)
         /\ DOMAIN Over(f) = Fields /\ ~Dispatches(Over(f))
         /\ DOMAIN Again(f) = Fields /\ ~Dispatches(Again(f))
         /\ DOMAIN Blocking(f) = Fields /\ ~Dispatches(Blocking(f))
         /\ \A at : DOMAIN To(f, at) = Fields
         /\ \A at : at # "emit" => ~Dispatches(To(f, at))
<1>1. DOMAIN fibre[f] = Fields
  BY DEF ParallelInv, Bounded, Shaped
<1>2. DOMAIN Idle = Fields /\ ~Dispatches(Idle)
  BY DEF Idle, Fields, Dispatches
<1>3. \A job : DOMAIN Reacting(job) = Fields /\ ~Dispatches(Reacting(job))
  BY DEF Reacting, Idle, Fields, Dispatches
<1>4. DOMAIN Over(f) = Fields /\ ~Dispatches(Over(f))
  <2> DEFINE ends == [Idle EXCEPT !.at = "check", !.job = fibre[f].job]
  <2>1. DOMAIN ends = Fields /\ ~Dispatches(ends)
    BY DEF Idle, Fields, Dispatches
  <2> QED
    BY <1>2, <1>3, <2>1 DEF Over
<1>5. DOMAIN Again(f) = Fields /\ ~Dispatches(Again(f))
  BY <1>1 DEF Again, Fields, Dispatches
<1>6. DOMAIN Blocking(f) = Fields /\ ~Dispatches(Blocking(f))
  BY <1>1 DEF Blocking, Fields, Dispatches
<1>7. \A at : DOMAIN To(f, at) = Fields
  BY <1>1 DEF To, Fields
<1>8. \A at : at # "emit" => ~Dispatches(To(f, at))
  BY <1>1 DEF To, Fields, Dispatches
<1> QED
  BY <1>2, <1>3, <1>4, <1>5, <1>6, <1>7, <1>8

-----------------------------------------------------------------------------
(* The steps of the reactor before an effect is applied. *)
LEMMA ReactKeeps ==
  ASSUME ParallelInv, NEW f \in Fibres,
         Sync(f) \/ Gate(f) \/ Plan(f) \/ Head(f) \/ HeadDispatch(f) \/ HeadSplit(f)
  PROVE  ParallelInv'
<1>0. DOMAIN fibre[f] = Fields
  BY DEF ParallelInv, Bounded, Shaped
<1>1. CASE Sync(f)
  <2>1. CASE Terminal
    BY <1>1, <2>1, Nexts, MovesOn DEF Sync
  <2>2. CASE ~Terminal
    <3>1. active' \subseteq active /\ (Lapsed = {} => active' = active)
      BY <1>1, <2>2 DEF Sync
    <3>2. DOMAIN To(f, "gate") = Fields /\ ~Dispatches(To(f, "gate"))
      BY Nexts
    <3>3. \/ Moves(f, To(f, "gate")) /\ active' = active
          \/ Emits(f, To(f, "gate"))
      BY <1>1, <2>2, <3>1 DEF Sync
    <3> QED
      BY <3>1, <3>2, <3>3, MovesOn, EmitsOn
  <2> QED
    BY <2>1, <2>2
<1>2. CASE Gate(f)
  <2>1. PICK next : Moves(f, next) /\ DOMAIN next = Fields /\ ~Dispatches(next)
    <3>1. CASE Terminal
      BY <1>2, <3>1, Nexts DEF Gate
    <3>2. CASE ~Terminal /\ (runs >= MaxTaskRuns \/ status = "policy")
      <4> DEFINE next == [fibre[f] EXCEPT !.at = "emit", !.eff = E("policy", 0)]
      <4>1. DOMAIN next = Fields
        BY <1>0
      <4>2. next.eff.do = "policy"
        BY <1>0 DEF Fields, E
      <4>3. Moves(f, next)
        BY <1>2, <3>2 DEF Gate
      <4> QED
        BY <4>1, <4>2, <4>3 DEF Dispatches
    <3>3. CASE ~Terminal /\ ~(runs >= MaxTaskRuns \/ status = "policy")
      <4> DEFINE next == [fibre[f] EXCEPT !.at = "plan", !.left = PlannerPasses]
      <4>1. DOMAIN next = Fields /\ next.at = "plan"
        BY <1>0 DEF Fields
      <4>2. Moves(f, next)
        BY <1>2, <3>3 DEF Gate
      <4> QED
        BY <4>1, <4>2 DEF Dispatches
    <3> QED
      BY <3>1, <3>2, <3>3
  <2> QED
    BY <1>2, <2>1, MovesOn DEF Gate, objective
<1>3. CASE Plan(f)
  <2>1. UNCHANGED active
    BY <1>3 DEF Plan, objective
  <2>2. CASE Moves(f, Over(f))
    BY <2>1, <2>2, Nexts, MovesOn
  <2>3. CASE ~Moves(f, Over(f))
    <3> DEFINE rest == IF Planned.do = "split" THEN Unadvised ELSE Nothing
               next == [fibre[f] EXCEPT !.at = Onto(Planned), !.eff = Planned, !.left = @ - 1,
                                        !.rest = rest]
    <3>1. Moves(f, next)
      BY <1>3, <2>3 DEF Plan
    <3>2. DOMAIN next = Fields /\ next.at = Onto(Planned) /\ next.eff = Planned
      BY <1>0 DEF Fields
    <3>3. ~Dispatches(next)
      BY <3>2 DEF Dispatches, Conditional, Onto
    <3> QED
      BY <2>1, <3>1, <3>2, <3>3, MovesOn
  <2> QED
    BY <2>2, <2>3
<1>4. CASE Head(f)
  <2> DEFINE next == [To(f, "emit") EXCEPT !.fresh = TRUE]
  <2>1. DOMAIN next = Fields /\ next.eff = fibre[f].eff
    BY <1>0 DEF To, Fields
  <2>2. ~Dispatches(next)
    BY <1>4, <2>1 DEF Head, Dispatches
  <2> QED
    BY <1>4, <2>1, <2>2, MovesOn DEF Head, objective
<1>5. CASE HeadDispatch(f)
  <2>1. UNCHANGED active
    BY <1>5 DEF HeadDispatch, objective
  <2>2. CASE ~(Cardinality(active) < MaxParallel)
    <3>1. Signals(f, Idle) \/ Moves(f, Idle)
      BY <1>5, <2>2 DEF HeadDispatch
    <3> QED
      BY <2>1, <3>1, Nexts, MovesOn, SignalsOn
  <2>3. CASE Cardinality(active) < MaxParallel
    <3> DEFINE next == [To(f, "emit") EXCEPT !.fresh = TRUE]
    <3>1. DOMAIN next = Fields
      BY <1>0 DEF To, Fields
    <3> QED
      BY <1>5, <2>1, <2>3, <3>1, MovesOn DEF HeadDispatch
  <2> QED
    BY <2>2, <2>3
<1>6. CASE HeadSplit(f)
  <2> DEFINE eff == fibre[f].eff
             rest == fibre[f].rest
             on == [task |-> eff.on, pass |-> eff.pass]
             late == tasks[eff.on].st # "running" \/ Candidate(eff.on) # on
             goes == [fibre[f] EXCEPT !.at = Onto(rest), !.eff = rest, !.rest = Nothing]
             next == [To(f, "emit") EXCEPT !.fresh = TRUE, !.rest = Nothing]
  <2>1. UNCHANGED active
    BY <1>6 DEF HeadSplit
  <2>2. CASE late
    <3>1. Emits(f, IF rest = Nothing THEN Over(f) ELSE goes)
      BY <1>6, <2>2 DEF HeadSplit
    <3>2. DOMAIN goes = Fields /\ goes.at = Onto(rest) /\ goes.eff = rest
      BY <1>0 DEF Fields
    <3>3. ~Dispatches(goes)
      BY <3>2 DEF Dispatches, Conditional, Onto
    <3> QED
      BY <2>1, <3>1, <3>2, <3>3, Nexts, EmitsOn
  <2>3. CASE ~late
    <3>1. DOMAIN next = Fields /\ next.eff = fibre[f].eff
      BY <1>0 DEF To, Fields
    <3>2. ~Dispatches(next)
      BY <1>6, <3>1 DEF HeadSplit, Dispatches
    <3>3. Signals(f, next)
      BY <1>6, <2>3 DEF HeadSplit
    <3> QED
      BY <2>1, <3>1, <3>2, <3>3, SignalsOn
  <2> QED
    BY <2>2, <2>3
<1> QED
  BY <1>1, <1>2, <1>3, <1>4, <1>5, <1>6

(* A dispatch takes the place that the head it is appended against has; the *)
(* other fibres have lost their heads.                                     *)
LEMMA DispatchKeeps ==
  ASSUME ParallelInv, NEW f \in Fibres, EmitDispatch(f) PROVE ParallelInv'
<1> PICK due, t : /\ Emits(f, [To(f, "post") EXCEPT !.due = due])
                  /\ active' = active \cup {t}
  BY DEF EmitDispatch
<1> DEFINE next == [To(f, "post") EXCEPT !.due = due]
<1>0. DOMAIN fibre[f] = Fields
  BY DEF ParallelInv, Bounded, Shaped
<1>1. DOMAIN next = Fields /\ next.at = "post"
  BY <1>0 DEF To, Fields
<1>2. Shaped(fibre')
  BY <1>1 DEF Emits, ParallelInv, Bounded, Shaped, Fields
<1>3. \A g \in Fibres : ~Dispatches(fibre'[g])
  BY <1>1 DEF Emits, ParallelInv, Bounded, Shaped, Fields, Dispatches
<1>4. Cardinality(active) < MaxParallel /\ IsFiniteSet(active)
  BY DEF EmitDispatch, Appends, Conditional, ParallelInv, Bounded, Room, Dispatches
<1>5. /\ IsFiniteSet(active') /\ Cardinality(active) \in Nat
      /\ Cardinality(active') = Cardinality(active)
           \/ Cardinality(active') = Cardinality(active) + 1
  BY <1>4, FS_AddElement, FS_CardinalityType
<1>6. Cardinality(active') <= MaxParallel
  BY <1>4, <1>5, DeliveryAssumption
<1> QED
  BY <1>2, <1>3, <1>5, <1>6 DEF ParallelInv, Bounded, Room

(* The other events of the planner. *)
LEMMA EmitKeeps == ASSUME ParallelInv, NEW f \in Fibres, Emit(f) PROVE ParallelInv'
<1>0. DOMAIN fibre[f] = Fields
  BY DEF ParallelInv, Bounded, Shaped
<1>1. CASE EmitDispatch(f)
  BY <1>1, DispatchKeeps
<1>2. CASE EmitAdd(f) \/ EmitReady(f) \/ EmitComplete(f)
  BY <1>2, Nexts, EmitsOn DEF EmitAdd, EmitReady, EmitComplete
<1>3. CASE EmitFollow(f) \/ EmitSplit(f) \/ EmitPrepare(f)
  <2>1. active' \subseteq active /\ Emits(f, Again(f))
    BY <1>3 DEF EmitFollow, EmitSplit, EmitPrepare
  <2> QED
    BY <2>1, Nexts, EmitsOn
<1>4. ASSUME NEW do, NEW st, NEW at \in {"merge", "post"}, NEW kind,
             EmitIntegration(f, do, st, at, kind)
      PROVE  ParallelInv'
  <2> PICK due : Emits(f, [To(f, at) EXCEPT !.due = due])
    BY <1>4 DEF EmitIntegration
  <2> DEFINE next == [To(f, at) EXCEPT !.due = due]
  <2>1. DOMAIN next = Fields /\ next.at = at
    BY <1>0 DEF To, Fields
  <2>2. ~Dispatches(next) /\ UNCHANGED active
    BY <1>4, <2>1 DEF EmitIntegration, Dispatches
  <2> QED
    BY <2>1, <2>2, EmitsOn
<1>5. CASE EmitIntegrate(f) \/ EmitPromote(f)
  BY <1>4, <1>5 DEF EmitIntegrate, EmitPromote
<1>6. CASE EmitBlock(f)
  BY <1>6, Nexts, EmitsOn DEF EmitBlock
<1>7. CASE EmitNext(f)
  BY <1>7, Nexts, EmitsOn DEF EmitNext
<1> QED
  BY <1>1, <1>2, <1>3, <1>5, <1>6, <1>7 DEF Emit

(* An effect that is dropped, a job that is enqueued, and a merge. *)
LEMMA RestKeeps ==
  ASSUME ParallelInv, NEW f \in Fibres,
         Refused(f) \/ Post(f) \/ Merge(f) \/ EmitIntegrated(f) \/ MergeFails(f)
  PROVE  ParallelInv'
<1>1. CASE Refused(f)
  <2>1. PICK next \in {Again(f), Blocking(f), Over(f)} : Moves(f, next) \/ Emits(f, next)
    BY <1>1 DEF Refused
  <2>2. UNCHANGED active
    BY <1>1 DEF Refused, objective
  <2> QED
    BY <2>1, <2>2, Nexts, MovesOn, EmitsOn
<1>2. CASE Post(f)
  BY <1>2, Nexts, MovesOn DEF Post, objective
<1>3. CASE Merge(f) \/ EmitIntegrated(f) \/ MergeFails(f)
  <2>1. active' \subseteq active
    BY <1>3 DEF Merge, EmitIntegrated, MergeFails
  <2>2. PICK next \in {To(f, "merged"), To(f, "post"), Again(f), Reacting(fibre[f].job)} :
          Emits(f, next)
    BY <1>3 DEF Merge, EmitIntegrated, MergeFails
  <2> QED
    BY <2>1, <2>2, Nexts, EmitsOn
<1> QED
  BY <1>1, <1>2, <1>3

(* The jobs. *)
LEMMA WorkKeeps == ASSUME ParallelInv, NEW f \in Fibres, Work(f) PROVE ParallelInv'
<1>0. DOMAIN fibre[f] = Fields
  BY DEF ParallelInv, Bounded, Shaped
<1>1. CASE Control(f) \/ Pass(f) \/ Check(f) \/ EndControl(f)
  <2> DEFINE starts == [Idle EXCEPT !.at = "pass", !.job = J("control", 0, 1, 0)]
             again == [To(f, "pass") EXCEPT !.job = J("control", 0, 2, 0)]
  <2>1. DOMAIN starts = Fields /\ ~Dispatches(starts)
    BY DEF Idle, Fields, Dispatches
  <2>2. DOMAIN again = Fields /\ ~Dispatches(again)
    BY <1>0 DEF To, Fields, Dispatches
  <2>3. PICK next \in {starts, again, To(f, "end"), Idle, Reacting(fibre[f].job)} :
          Moves(f, next) \/ Emits(f, next)
    BY <1>1 DEF Control, Pass, Check, EndControl, Retires
  <2>4. UNCHANGED active
    BY <1>1 DEF Control, Pass, Check, EndControl, objective
  <2> QED
    BY <2>1, <2>2, <2>3, <2>4, Nexts, MovesOn, EmitsOn
<1>2. CASE Take(f)
  <2>1. UNCHANGED active
    BY <1>2 DEF Take
  <2>2. \A j, eff : /\ DOMAIN [Idle EXCEPT !.at = "run", !.job = j] = Fields
                    /\ ~Dispatches([Idle EXCEPT !.at = "run", !.job = j])
                    /\ DOMAIN [Idle EXCEPT !.at = "publishing", !.job = j] = Fields
                    /\ ~Dispatches([Idle EXCEPT !.at = "publishing", !.job = j])
                    /\ DOMAIN [Idle EXCEPT !.at = "validating", !.job = j, !.eff = eff] = Fields
                    /\ ~Dispatches([Idle EXCEPT !.at = "validating", !.job = j, !.eff = eff])
    BY DEF Idle, Fields, Dispatches
  <2>3. PICK j \in queue :
          \/ Moves(f, [Idle EXCEPT !.at = "run", !.job = j])
          \/ Emits(f, [Idle EXCEPT !.at = "validating", !.job = j,
                                   !.eff = [Nothing EXCEPT !.up = merged]])
          \/ Moves(f, IF Terminal THEN Idle ELSE [Idle EXCEPT !.at = "publishing", !.job = j])
    BY <1>2 DEF Take
  <2> QED
    BY <2>1, <2>2, <2>3, Nexts, MovesOn, EmitsOn
<1>3. CASE Result(f)
  <2>1. active' \subseteq active /\ Emits(f, Reacting(fibre[f].job))
    BY <1>3 DEF Result
  <2> QED
    BY <2>1, Nexts, EmitsOn
<1>4. CASE Abort(f)
  BY <1>4, Nexts, MovesOn DEF Abort, objective
<1>5. CASE Validated(f) \/ Published(f)
  <2>1. UNCHANGED active /\ (Emits(f, Reacting(fibre[f].job)) \/ Emits(f, Reacting(NoJob)))
    BY <1>5 DEF Validated, Published
  <2> QED
    BY <2>1, Nexts, EmitsOn
<1>6. CASE Cancel(f)
  BY <1>6, Nexts, EmitsOn DEF Cancel
<1> QED
  BY <1>1, <1>2, <1>3, <1>4, <1>5, <1>6 DEF Work

(* Requests, failures, advice and a crash. *)
LEMMA OutsideKeeps == ASSUME ParallelInv, Outside PROVE ParallelInv'
<1>1. ASSUME NEW f \in Fibres, Note(f) PROVE ParallelInv'
  BY <1>1, Nexts, EmitsOn DEF Note
<1>2. ASSUME NEW f \in Fibres, CancelJobs(f) PROVE ParallelInv'
  <2>1. UNCHANGED active
    BY <1>2 DEF CancelJobs, objective
  <2>2. Moves(f, To(f, "cancel")) \/ Emits(f, To(f, "cancel"))
    BY <1>2 DEF CancelJobs
  <2> QED
    BY <2>1, <2>2, Nexts, MovesOn, EmitsOn
<1>3. ASSUME NEW f \in Fibres, Fails(f) PROVE ParallelInv'
  <2>1. UNCHANGED active /\ (Moves(f, Idle) \/ Signals(f, Idle))
    BY <1>3 DEF Fails, objective
  <2> QED
    BY <2>1, Nexts, MovesOn, SignalsOn
<1>4. ASSUME NEW t \in Tasks, Advise(t) PROVE ParallelInv'
  <2>1. Shaped(fibre') /\ \A f \in Fibres : ~Dispatches(fibre'[f])
    BY <1>4 DEF Advise, ParallelInv, Bounded, Shaped, Fields, Dispatches
  <2>2. UNCHANGED active
    BY <1>4 DEF Advise
  <2> QED
    BY <2>1, <2>2 DEF ParallelInv, Bounded, Room
<1>5. CASE Crash
  <2>1. PICK boot \in Fibres : fibre' = [f \in Fibres |-> IF f = boot /\ ~Terminal
                                                          THEN Reacting(NoJob) ELSE Idle]
    BY <1>5 DEF Crash
  <2>2. /\ DOMAIN Idle = Fields /\ ~Dispatches(Idle)
        /\ DOMAIN Reacting(NoJob) = Fields /\ ~Dispatches(Reacting(NoJob))
    BY Nexts
  <2>3. Shaped(fibre') /\ \A f \in Fibres : ~Dispatches(fibre'[f])
    BY <2>1, <2>2 DEF Shaped
  <2>4. UNCHANGED active
    BY <1>5 DEF Crash, objective
  <2> QED
    BY <2>3, <2>4 DEF ParallelInv, Bounded, Room
<1> QED
  BY <1>1, <1>2, <1>3, <1>4, <1>5 DEF Outside

(* No more tasks are active than the profile allows, whichever fibres       *)
(* dispatch, however old their plans are (service.ts, dispatchTask).       *)
THEOREM ParallelismIsBounded == DeliverySpec => []ParallelBounded
<1>1. DeliveryInit => ParallelInv
  <2> SUFFICES ASSUME DeliveryInit PROVE ParallelInv
    OBVIOUS
  <2>1. Shaped(fibre) /\ \A f \in Fibres : ~Dispatches(fibre[f])
    BY DEF DeliveryInit, Shaped, Idle, Fields, Dispatches
  <2>2. IsFiniteSet(active) /\ Cardinality(active) = 0
    BY FS_EmptySet DEF DeliveryInit
  <2> QED
    BY <2>1, <2>2, DeliveryAssumption DEF ParallelInv, Bounded, Room
<1>2. ParallelInv /\ [DeliveryNext]_vars => ParallelInv'
  <2> SUFFICES ASSUME ParallelInv, [DeliveryNext]_vars PROVE ParallelInv'
    OBVIOUS
  <2>1. CASE UNCHANGED vars
    BY <2>1 DEF vars, objective, ParallelInv
  <2>2. CASE Inside
    BY <2>2, ReactKeeps, EmitKeeps, RestKeeps, WorkKeeps DEF Inside, React
  <2>3. CASE Outside
    BY <2>3, OutsideKeeps
  <2> QED
    BY <2>1, <2>2, <2>3 DEF DeliveryNext
<1>3. ParallelInv => ParallelBounded
  BY DEF ParallelInv, Bounded, ParallelBounded
<1> QED
  BY <1>1, <1>2, <1>3, PTL DEF DeliverySpec

-----------------------------------------------------------------------------
(* The types, with what the place of a fibre says of its effect, its job   *)
(* and the job it is about to enqueue.                                     *)
Directed == {"dispatch", "integrate", "promote", "split"}
Working == {"run", "validating", "publishing"}
Passing == {"pass", "check", "end"}
Posts == {"task", "validate", "publish"}
TaskJob(j) == j.kind \in Posts /\ j.task \in Tasks

InPlace(x) ==
  /\ x.at = "head" => x.eff.do \in Conditional
  /\ x.at \in {"head", "emit"} /\ x.eff.do \in Directed => x.eff.on \in Tasks
  /\ x.at = "head" /\ x.rest.do \in Directed => x.rest.on \in Tasks
  /\ x.at \in {"post", "merge", "merged"} => TaskJob(x.due)
  /\ x.at \in {"merge", "merged"} => x.due.kind = "validate"
  /\ x.at \in Working => TaskJob(x.job)
  /\ x.at = "run" => x.job.kind = "task"
  /\ x.at = "validating" => x.job.kind = "validate"
  /\ x.at = "publishing" => x.job.kind = "publish"
  /\ x.at \in Passing => x.job.kind = "control"
Placed == {x \in Fibre : InPlace(x)}
MayBeReady(x) == (x.at = "emit" /\ x.eff.do = "ready") \/ (x.at = "head" /\ x.rest.do = "ready")
Cold(x) == [x EXCEPT !.fresh = FALSE]

TaskRecord == [st : {"absent", "pending", "ready", "running", "approved",
                     "integrated", "blocked", "capped", "superseded"},
               cand : {"none", "running", "changes", "approved", "noop",
                       "integrated", "conflicted"},
               passes : Nat, run : Nat]
Integration == [st : {"idle", "merging", "validating", "validated", "ready_to_promote",
                      "promoting", "promoted", "conflicted"},
                on : [task : 0..MaxTasks, pass : Nat]]
Statuses == {"live", "blocked", "policy", "completed", "canceled"}

ObjectiveTyped ==
  /\ status \in Statuses /\ tasks \in [Tasks -> TaskRecord]
  /\ chained \in BOOLEAN /\ active \subseteq Tasks
  /\ advice \in [task : 0..MaxTasks, pass : Nat] /\ (advice # NoAdvice => advice.task \in Tasks)
  /\ integ \in Integration /\ note \in {"none", "new", "taken"} /\ runs \in Nat
LedgerTyped ==
  /\ queue \subseteq Job /\ (\A j \in queue : TaskJob(j))
  /\ posted \subseteq Job /\ failed \subseteq Nat /\ asked \in BOOLEAN /\ wake \in BOOLEAN
RestTyped ==
  /\ calls \in Nat /\ stale \subseteq {"effect", "result"} /\ cut \in BOOLEAN
  /\ merged \subseteq Tasks /\ checked \subseteq Tasks
OnKnown(i, fs) ==
  /\ i.st \in {"validated", "ready_to_promote"} => i.on.task \in Tasks
  /\ (\E f \in Fibres : MayBeReady(fs[f])) => i.on.task \in Tasks

DeliveryInv ==
  /\ ObjectiveTyped /\ LedgerTyped /\ RestTyped
  /\ fibre \in [Fibres -> Placed] /\ OnKnown(integ, fibre)

(* The kinds of jobs and effects, and what is made of them. *)
LEMMA Small ==
  /\ MaxTasks \in Nat /\ MaxTasks # 0 /\ PlannerPasses \in Nat /\ Tasks \subseteq Nat
  /\ Tasks \subseteq 0..MaxTasks
  /\ NoJob \in Job /\ Nothing \in Effect /\ Nothing.do = "none"
  /\ Idle \in Placed /\ Idle.at = "idle"
  /\ \A kind \in {"none", "control", "task", "validate", "publish"}, t \in 0..MaxTasks,
        pass \in Nat, run \in Nat :
       /\ J(kind, t, pass, run) \in Job /\ J(kind, t, pass, run).kind = kind
       /\ J(kind, t, pass, run).task = t /\ J(kind, t, pass, run).run = run
  /\ \A do \in Kinds, on \in 0..MaxTasks :
       E(do, on) \in Effect /\ E(do, on).do = do /\ E(do, on).on = on
<1>1. /\ MaxTasks \in Nat /\ MaxTasks # 0 /\ PlannerPasses \in Nat /\ Tasks \subseteq Nat
      /\ Tasks \subseteq 0..MaxTasks
  BY DeliveryAssumption DEF Tasks
<1>2. \A kind \in {"none", "control", "task", "validate", "publish"}, t \in 0..MaxTasks,
        pass \in Nat, run \in Nat :
       /\ J(kind, t, pass, run) \in Job /\ J(kind, t, pass, run).kind = kind
       /\ J(kind, t, pass, run).task = t /\ J(kind, t, pass, run).run = run
  BY DEF J, Job
<1>3. \A do \in Kinds, on \in 0..MaxTasks :
       E(do, on) \in Effect /\ E(do, on).do = do /\ E(do, on).on = on
  BY DEF E, Effect
<1>4. NoJob \in Job /\ Nothing \in Effect /\ Nothing.do = "none"
  BY <1>1, <1>2, <1>3 DEF NoJob, Nothing, Kinds
<1>5. Idle \in Fibre /\ Idle.at = "idle"
  BY <1>1, <1>4 DEF Idle, Fibre, Places
<1>6. InPlace(Idle)
  BY <1>5 DEF InPlace, Working, Passing
<1> QED
  BY <1>1, <1>2, <1>3, <1>4, <1>5, <1>6 DEF Placed

-----------------------------------------------------------------------------
(* The states a fibre moves to. *)
LEMMA NextPlaces ==
  ASSUME NEW f \in Fibres, fibre[f] \in Placed
  PROVE  /\ \A job \in Job : /\ Reacting(job) \in Placed /\ ~MayBeReady(Reacting(job))
                             /\ Reacting(job).at = "sync" /\ Reacting(job).job = job
                             /\ Reacting(job).due = NoJob
         /\ ~MayBeReady(Idle)
         /\ Over(f) \in Placed /\ ~MayBeReady(Over(f))
         /\ Again(f) \in Placed /\ ~MayBeReady(Again(f))
         /\ Blocking(f) \in Placed /\ ~MayBeReady(Blocking(f))
         /\ \A at \in {"gate", "cancel", "plan"} : To(f, at) \in Placed /\ ~MayBeReady(To(f, at))
         /\ fibre[f].at \in Passing => To(f, "end") \in Placed /\ ~MayBeReady(To(f, "end"))
<1>0. fibre[f] \in Fibre
  BY DEF Placed
<1>1. ASSUME NEW job \in Job
      PROVE  /\ Reacting(job) \in Placed /\ ~MayBeReady(Reacting(job))
             /\ Reacting(job).at = "sync" /\ Reacting(job).job = job
             /\ Reacting(job).due = NoJob
  <2>1. Idle \in Fibre /\ Idle.due = NoJob
    BY Small DEF Placed, Idle
  <2>2. /\ Reacting(job) \in Fibre /\ Reacting(job).at = "sync" /\ Reacting(job).job = job
        /\ Reacting(job).due = NoJob
    BY <2>1 DEF Reacting, Fibre, Places
  <2> QED
    BY <2>2 DEF Placed, InPlace, Working, Passing, MayBeReady
<1>2. ~MayBeReady(Idle)
  BY Small DEF MayBeReady
<1>3. Over(f) \in Placed /\ ~MayBeReady(Over(f))
  <2> DEFINE ends == [Idle EXCEPT !.at = "check", !.job = fibre[f].job]
  <2>1. Idle \in Fibre /\ fibre[f].job \in Job
    BY <1>0, Small DEF Placed, Fibre
  <2>2. ends \in Fibre /\ ends.at = "check" /\ ends.job = fibre[f].job
    BY <2>1 DEF Fibre, Places
  <2>3. CASE fibre[f].job.kind = "control"
    <3>1. ends \in Placed /\ ~MayBeReady(ends)
      BY <2>2, <2>3 DEF Placed, InPlace, Working, Passing, MayBeReady
    <3> QED
      BY <2>3, <3>1 DEF Over
  <2>4. CASE fibre[f].job.kind # "control"
    BY <1>1, <1>2, <2>4, Small DEF Over
  <2> QED
    BY <2>3, <2>4
<1>4. Again(f) \in Placed /\ ~MayBeReady(Again(f))
  <2>1. Again(f) \in Fibre /\ Again(f).at = "plan"
    BY <1>0, Small DEF Again, Fibre, Places
  <2> QED
    BY <2>1 DEF Placed, InPlace, Working, Passing, MayBeReady
<1>5. Blocking(f) \in Placed /\ ~MayBeReady(Blocking(f))
  <2>1. E("block", 0) \in Effect /\ E("block", 0).do = "block"
    BY Small DEF Kinds
  <2>2. Blocking(f) \in Fibre /\ Blocking(f).at = "emit" /\ Blocking(f).eff.do = "block"
    BY <1>0, <2>1 DEF Blocking, Fibre, Places
  <2> QED
    BY <2>2 DEF Placed, InPlace, Working, Passing, MayBeReady, Directed
<1>6. ASSUME NEW at \in {"gate", "cancel", "plan"}
      PROVE  To(f, at) \in Placed /\ ~MayBeReady(To(f, at))
  <2>1. To(f, at) \in Fibre /\ To(f, at).at = at
    BY <1>0 DEF To, Fibre, Places
  <2> QED
    BY <2>1 DEF Placed, InPlace, Working, Passing, MayBeReady
<1>7. ASSUME fibre[f].at \in Passing
      PROVE  To(f, "end") \in Placed /\ ~MayBeReady(To(f, "end"))
  <2>1. To(f, "end") \in Fibre /\ To(f, "end").at = "end" /\ To(f, "end").job = fibre[f].job
    BY <1>0 DEF To, Fibre, Places
  <2>2. fibre[f].job.kind = "control"
    BY <1>7 DEF Placed, InPlace
  <2> QED
    BY <2>1, <2>2 DEF Placed, InPlace, Working, Passing, MayBeReady
<1> QED
  BY <1>1, <1>2, <1>3, <1>4, <1>5, <1>6, <1>7

(* A fibre whose head was taken away. *)
LEMMA ColdPlaced ==
  ASSUME NEW x \in Placed
  PROVE  /\ Cold(x) \in Placed /\ Cold(x).at = x.at /\ Cold(x).job = x.job
         /\ Cold(x).eff = x.eff /\ Cold(x).rest = x.rest /\ Cold(x).due = x.due
         /\ ~Cold(x).fresh
<1>1. /\ Cold(x) \in Fibre /\ Cold(x).at = x.at /\ Cold(x).job = x.job
      /\ Cold(x).eff = x.eff /\ Cold(x).rest = x.rest /\ Cold(x).due = x.due
      /\ ~Cold(x).fresh
  BY DEF Placed, Fibre, Cold
<1>2. InPlace(Cold(x))
  BY <1>1 DEF Placed, InPlace
<1> QED
  BY <1>1, <1>2 DEF Placed

(* A fibre that moves on, with or without an event. *)
LEMMA MovesPlaced ==
  ASSUME fibre \in [Fibres -> Placed], NEW f \in Fibres, NEW next \in Placed,
         Moves(f, next) \/ Emits(f, next)
  PROVE  /\ fibre' \in [Fibres -> Placed] /\ fibre'[f] = next
         /\ \A g \in Fibres \ {f} : /\ fibre'[g].at = fibre[g].at /\ fibre'[g].job = fibre[g].job
                                    /\ fibre'[g].eff = fibre[g].eff
                                    /\ fibre'[g].rest = fibre[g].rest
                                    /\ fibre'[g].due = fibre[g].due
                                    /\ fibre'[g].fresh => fibre[g].fresh
<1>1. CASE Moves(f, next)
  BY <1>1 DEF Moves
<1>2. CASE Emits(f, next)
  <2>1. \A g \in Fibres : fibre[g] \in Placed
    OBVIOUS
  <2>2. fibre' = [g \in Fibres |-> IF g = f THEN next ELSE Cold(fibre[g])]
    BY <1>2 DEF Emits, Cold
  <2>3. fibre' \in [Fibres -> Placed] /\ fibre'[f] = next
    BY <2>1, <2>2, ColdPlaced
  <2>4. ASSUME NEW g \in Fibres \ {f}
        PROVE  /\ fibre'[g].at = fibre[g].at /\ fibre'[g].job = fibre[g].job
               /\ fibre'[g].eff = fibre[g].eff /\ fibre'[g].rest = fibre[g].rest
               /\ fibre'[g].due = fibre[g].due
               /\ fibre'[g].fresh => fibre[g].fresh
    <3>1. fibre'[g] = Cold(fibre[g]) /\ fibre[g] \in Placed
      BY <2>1, <2>2
    <3> QED
      BY <3>1, ColdPlaced
  <2> QED
    BY <2>3, <2>4
<1> QED
  BY <1>1, <1>2

(* A signal is an event or not. *)
LEMMA SignalsPlaced ==
  ASSUME fibre \in [Fibres -> Placed], LedgerTyped, NEW f \in Fibres, NEW next \in Placed,
         Signals(f, next)
  PROVE  /\ asked' \in BOOLEAN /\ wake' \in BOOLEAN
         /\ \E x \in {next, Cold(next)} :
              /\ Moves(f, x) \/ Emits(f, x)
              /\ x \in Placed /\ x.at = next.at /\ x.job = next.job /\ x.eff = next.eff
              /\ x.rest = next.rest /\ x.due = next.due
              /\ MayBeReady(x) => MayBeReady(next)
<1>1. asked' \in BOOLEAN /\ wake' \in BOOLEAN
  BY DEF Signals, LedgerTyped
<1>2. Moves(f, next) \/ Emits(f, Cold(next))
  BY DEF Signals, Cold
<1>3. /\ Cold(next) \in Placed /\ Cold(next).at = next.at /\ Cold(next).job = next.job
      /\ Cold(next).eff = next.eff /\ Cold(next).rest = next.rest /\ Cold(next).due = next.due
  BY ColdPlaced
<1> QED
  BY <1>1, <1>2, <1>3 DEF MayBeReady

(* Nobody becomes ready to promote, and the candidate is kept or another's. *)
LEMMA OnKept ==
  ASSUME DeliveryInv, NEW f \in Fibres, NEW next \in Placed, Moves(f, next) \/ Emits(f, next),
         NEW i,
         \/ i.on.task \in Tasks
         \/ i = integ /\ (MayBeReady(next) => i.on.task \in Tasks)
  PROVE  OnKnown(i, fibre')
<1>1. CASE i.on.task \in Tasks
  BY <1>1 DEF OnKnown
<1>2. CASE i = integ /\ ~MayBeReady(next)
  <2>1. \A g \in Fibres : MayBeReady(fibre'[g]) => MayBeReady(fibre[g])
    BY <1>2, MovesPlaced DEF MayBeReady, DeliveryInv
  <2> QED
    BY <1>2, <2>1 DEF OnKnown, DeliveryInv
<1> QED
  BY <1>1, <1>2

-----------------------------------------------------------------------------
(* The planner. *)

(* A nonempty set of numbers has a least one. *)
LEMMA Least ==
  ASSUME NEW D, D \subseteq Nat, D # {}
  PROVE  Min(D) \in D /\ \A e \in D : Min(D) <= e
<1>1. PICK d \in D : \A e \in D : ~(<<e, d>> \in OpToRel(<, Nat))
  BY NatLessThanWellFounded, WFMin
<1>2. \A e \in D : ~(e < d)
  BY <1>1 DEF OpToRel
<1>3. \A e \in D : d <= e
  BY <1>2
<1> QED
  BY <1>3 DEF Min

(* A nonempty set of tasks, or of tasks and 0, has a last one. *)
LEMMA Last ==
  ASSUME NEW A \in SUBSET (0..MaxTasks), A # {}
  PROVE  Max(A) \in A /\ \A o \in A : o <= Max(A)
<1> DEFINE Down == {MaxTasks - o : o \in A}
<1>1. \A o \in A : o \in Nat /\ MaxTasks - o \in Nat
  BY Small
<1>2. Down \subseteq Nat /\ Down # {}
  BY <1>1
<1>3. Min(Down) \in Down /\ \A e \in Down : Min(Down) <= e
  BY <1>2, Least
<1>4. PICK m \in A : Min(Down) = MaxTasks - m
  BY <1>3
<1>5. ASSUME NEW o \in A
      PROVE  m >= o
  <2>1. MaxTasks - m <= MaxTasks - o
    BY <1>3, <1>4
  <2> QED
    BY <1>1, <2>1, Small
<1>6. \A o \in A : o <= m /\ m >= o
  BY <1>1, <1>5
<1>7. Max(A) \in A /\ \A y \in A : Max(A) >= y
  BY <1>6 DEF Max
<1> QED
  BY <1>1, <1>7

(* The newest task. *)
LEMMA LatestTask ==
  ASSUME ObjectiveTyped
  PROVE  /\ Latest \in 0..MaxTasks /\ \A t \in Added : t <= Latest
         /\ Added # {} => Latest \in Added
<1>1. Added \cup {0} \in SUBSET (0..MaxTasks) /\ Added \cup {0} # {}
  <2>1. Added \subseteq Tasks
    BY DEF Added
  <2>2. Tasks \subseteq 0..MaxTasks /\ 0 \in 0..MaxTasks
    BY DeliveryAssumption DEF Tasks
  <2> QED
    BY <2>1, <2>2
<1>2. Latest \in Added \cup {0} /\ \A t \in Added \cup {0} : t <= Latest
  BY <1>1, Last DEF Latest
<1>3. ASSUME Added # {}
      PROVE  Latest # 0
  <2>1. PICK t \in Added : TRUE
    BY <1>3
  <2>2. t <= Latest /\ t \in Nat /\ t # 0
    BY <1>2, <2>1, Small DEF Added, Tasks
  <2> QED
    BY <2>2
<1> QED
  BY <1>1, <1>2, <1>3

(* The effects that are planned are about tasks there are. *)
LEMMA PlannedTyped ==
  ASSUME ObjectiveTyped, OnKnown(integ, fibre)
  PROVE  /\ Planned \in Effect
         /\ Planned.do \in Directed => Planned.on \in Tasks
         /\ Planned.do = "ready" => integ.on.task \in Tasks
         /\ Unadvised \in Effect
         /\ Unadvised.do \in Directed => Unadvised.on \in Tasks
         /\ Unadvised.do = "ready" => integ.on.task \in Tasks
<1> DEFINE Good(e) == /\ e \in Effect
                      /\ e.do \in Directed => e.on \in Tasks
                      /\ e.do = "ready" => integ.on.task \in Tasks
<1>1. \A do \in Kinds \ (Directed \cup {"ready"}), on \in 0..MaxTasks : Good(E(do, on))
  BY Small DEF Kinds
<1>2. \A do \in Kinds \ {"ready"}, on \in Tasks : Good(E(do, on))
  BY Small DEF Kinds
<1>3. \A do \in Kinds \ (Directed \cup {"ready"}), set \in SUBSET Tasks :
        Good([E(do, 0) EXCEPT !.up = set])
  <2> SUFFICES ASSUME NEW do \in Kinds \ (Directed \cup {"ready"}), NEW set \in SUBSET Tasks
               PROVE  Good([E(do, 0) EXCEPT !.up = set])
    OBVIOUS
  <2>1. E(do, 0) \in Effect /\ E(do, 0).do = do
    BY Small
  <2>2. [E(do, 0) EXCEPT !.up = set] \in Effect /\ [E(do, 0) EXCEPT !.up = set].do = do
    BY <2>1 DEF Effect
  <2> QED
    BY <2>2
<1>4. Good(Nothing) /\ 0 \in 0..MaxTasks
  BY <1>1, Small DEF Nothing, Kinds, Directed
<1>5. Good(Prepares)
  <2>1. Prepares.up \subseteq Tasks /\ Prepares.down \subseteq Tasks
    BY DEF Prepares, Activatable, Ready
  <2>2. Prepares \in Effect /\ Prepares.do = "prepare"
    BY <2>1, Small DEF Prepares, Effect, Kinds, Activatable, Ready
  <2> QED
    BY <2>2 DEF Directed
<1>6. ASSUME Added # {}
      PROVE  Good(FollowUp)
  <2>1. Latest \in Tasks /\ E("follow", Latest) \in Effect /\ E("follow", Latest).do = "follow"
    BY <1>6, LatestTask, Small DEF Added, Kinds
  <2>2. FollowUp \in Effect /\ FollowUp.do = "follow"
    BY <2>1 DEF FollowUp, Effect
  <2> QED
    BY <2>2 DEF Directed
<1>7. ASSUME advice # NoAdvice
      PROVE  Good([E("split", advice.task) EXCEPT !.pass = advice.pass])
  <2> DEFINE plain == E("split", advice.task)
             e == [plain EXCEPT !.pass = advice.pass]
  <2>1. advice.task \in Tasks /\ advice.pass \in Nat
    BY <1>7 DEF ObjectiveTyped
  <2>2. plain \in Effect /\ plain.do = "split" /\ plain.on = advice.task
    BY <2>1, Small DEF Kinds
  <2> HIDE DEF plain
  <2>3. e \in Effect /\ e.do = "split" /\ e.on = advice.task
    BY <2>1, <2>2 DEF Effect
  <2> QED
    BY <2>1, <2>3 DEF plain
<1>8. Good(Final)
  <2>1. Ready # {} => Min(Ready) \in Tasks
    BY Least, Small DEF Ready
  <2>2. Approved # {} => Min(Approved) \in Tasks
    BY Least, Small DEF Approved
  <2>3. Integrated \subseteq Tasks /\ Retryable \subseteq Tasks
    BY DEF Integrated, Retryable, Stuck
  <2>4. Ready # {} => Good(E("dispatch", Min(Ready)))
    BY <1>2, <2>1 DEF Kinds
  <2>5. Approved # {} => Good(E("integrate", Min(Approved)))
    BY <1>2, <2>2 DEF Kinds
  <2>6. Checked => Good(E("ready", 0))
    BY <1>4, Small DEF Checked, OnKnown, Kinds, Directed
  <2>7. integ.st = "ready_to_promote" => Good(E("promote", integ.on.task))
    BY <1>2 DEF OnKnown, Kinds
  <2>8. Good(E("budget", 0)) /\ Good(E("complete", 0)) /\ Good(E("block", 0))
    BY <1>1, <1>4 DEF Kinds, Directed
  <2>9. Good([E("next", 0) EXCEPT !.up = Retryable])
    BY <1>3, <2>3 DEF Kinds, Directed
  <2> HIDE DEF Good
  <2> QED
    BY <1>4, <2>4, <2>5, <2>6, <2>7, <2>8, <2>9 DEF Final
<1> HIDE DEF Good
<1>9. Good(E("add", 0))
  BY <1>1, <1>4 DEF Kinds, Directed
<1>10. Good(Unadvised)
  BY <1>4, <1>5, <1>6, <1>8, <1>9 DEF Unadvised
<1>11. Good(Planned)
  BY <1>7, <1>10 DEF Planned
<1> QED
  BY <1>10, <1>11 DEF Good

-----------------------------------------------------------------------------
(* The types are kept. *)
TaskStates == {"absent", "pending", "ready", "running", "approved", "integrated",
               "blocked", "capped", "superseded"}

(* What an event changes of a task: never the run. *)
LEMMA TaskUpdates ==
  ASSUME ObjectiveTyped, NEW st \in TaskStates
  PROVE  /\ \A t \in Tasks : /\ Block(t, st) \in TaskRecord
                             /\ Block(t, st).run = tasks[t].run /\ Block(t, st).st = st
                             /\ [tasks[t] EXCEPT !.st = st] \in TaskRecord
                             /\ [tasks[t] EXCEPT !.st = st].run = tasks[t].run
                             /\ [tasks[t] EXCEPT !.st = st].st = st
         /\ \A set : /\ Becomes(set, st) \in [Tasks -> TaskRecord]
                     /\ \A t \in Tasks : /\ Becomes(set, st)[t].run = tasks[t].run
                                         /\ t \in set => Becomes(set, st)[t].st = st
                                         /\ t \notin set => Becomes(set, st)[t] = tasks[t]
<1>1. ASSUME NEW t \in Tasks
      PROVE  /\ Block(t, st) \in TaskRecord
             /\ Block(t, st).run = tasks[t].run /\ Block(t, st).st = st
  <2>1. tasks[t] \in TaskRecord
    BY DEF ObjectiveTyped
  <2> DEFINE c == IF tasks[t].cand = "running" THEN "changes" ELSE tasks[t].cand
  <2>2. Block(t, st) = [[tasks[t] EXCEPT !.st = st] EXCEPT !.cand = c]
    BY <2>1 DEF Block, TaskRecord
  <2> QED
    BY <2>1, <2>2 DEF TaskRecord, TaskStates
<1>2. ASSUME NEW t \in Tasks
      PROVE  /\ [tasks[t] EXCEPT !.st = st] \in TaskRecord
             /\ [tasks[t] EXCEPT !.st = st].run = tasks[t].run
             /\ [tasks[t] EXCEPT !.st = st].st = st
  <2>1. tasks[t] \in TaskRecord
    BY DEF ObjectiveTyped
  <2> QED
    BY <2>1 DEF TaskRecord, TaskStates
<1>3. ASSUME NEW set
      PROVE  /\ Becomes(set, st) \in [Tasks -> TaskRecord]
             /\ \A t \in Tasks : /\ Becomes(set, st)[t].run = tasks[t].run
                                 /\ t \in set => Becomes(set, st)[t].st = st
                                 /\ t \notin set => Becomes(set, st)[t] = tasks[t]
  <2>1. \A t \in Tasks : tasks[t] \in TaskRecord
    BY DEF ObjectiveTyped
  <2> QED
    BY <1>2, <2>1 DEF Becomes
<1> QED
  BY <1>1, <1>2, <1>3

(* The runs of jobs are numbers; the jobs fibres hold are jobs. *)
LEMMA RunsTyped ==
  ASSUME DeliveryInv
  PROVE  Held \subseteq Job /\ \A jobs \in SUBSET Job : RunsOf(jobs) \subseteq Nat
BY DEF DeliveryInv, Placed, Fibre, Held, RunsOf, Job

(* A result changes the state of its task and of the candidate. *)
LEMMA Results ==
  ASSUME ObjectiveTyped, NEW f \in Fibres, Result(f), fibre[f].job.task \in Tasks
  PROVE  \E rec \in TaskRecord :
           /\ tasks' = [tasks EXCEPT ![fibre[f].job.task] = rec]
           /\ rec.run = tasks[fibre[f].job.task].run
           /\ rec.st \in {"approved", "ready", "capped", "blocked"}
           /\ note' \in {note, "new"}
<1>b. ASSUME NEW st \in {"blocked", "capped"}, NEW t \in Tasks
      PROVE  /\ Block(t, st) \in TaskRecord /\ Block(t, st).st = st
             /\ Block(t, st).run = tasks[t].run
  <2>1. tasks[t] \in TaskRecord
    BY DEF ObjectiveTyped
  <2>2. st \in TaskStates
    BY DEF TaskStates
  <2>3. Block(t, st) \in TaskRecord /\ Block(t, st).st = st
    BY <2>2, TaskUpdates
  <2>4. Block(t, st).run = tasks[t].run
    BY <2>1 DEF Block, TaskRecord
  <2> QED
    BY <2>3, <2>4
<1> DEFINE t == fibre[f].job.task
           pass == fibre[f].job.pass
<1>1. tasks[t] \in TaskRecord
  BY DEF ObjectiveTyped
<1>2. note' \in {note, "new"}
  BY DEF Result, Approve, ApproveNoop, RequestChanges, Blocked, Misaligned, Misses
<1>3. CASE \E st \in {"approved", "ready"}, cand \in {"approved", "noop", "changes"} :
             Reviewed(t, pass, st, cand)
  <2> PICK st \in {"approved", "ready"}, cand \in {"approved", "noop", "changes"} :
             Reviewed(t, pass, st, cand)
    BY <1>3
  <2> DEFINE c == IF tasks[t].passes = pass THEN cand ELSE tasks[t].cand
             rec == [tasks[t] EXCEPT !.st = st, !.cand = c]
  <2>1. tasks' = [tasks EXCEPT ![t] = rec]
    BY <1>1 DEF Reviewed, ObjectiveTyped
  <2>2. rec \in TaskRecord /\ rec.st = st /\ rec.run = tasks[t].run
    BY <1>1 DEF TaskRecord
  <2> HIDE DEF t, pass
  <2> QED
    BY <1>2, <2>1, <2>2 DEF t
<1>4. CASE \E st \in {"blocked", "capped"} : ReviewedBlocked(t, pass, st)
  <2> PICK st \in {"blocked", "capped"} : ReviewedBlocked(t, pass, st)
    BY <1>4
  <2> DEFINE base == Block(t, st)
             c == IF tasks[t].passes = pass THEN "changes" ELSE base.cand
             rec == [base EXCEPT !.cand = c]
  <2>1. base \in TaskRecord /\ base.st = st /\ base.run = tasks[t].run
    BY <1>b
  <2>2. tasks' = [tasks EXCEPT ![t] = rec]
    BY <2>1 DEF ReviewedBlocked, TaskRecord
  <2> HIDE DEF base
  <2>3. rec \in TaskRecord /\ rec.st = st /\ rec.run = tasks[t].run
    BY <2>1 DEF TaskRecord
  <2> HIDE DEF t, pass
  <2> QED
    BY <1>2, <2>2, <2>3 DEF t
<1>5. CASE tasks' = [tasks EXCEPT ![t] = Block(t, "blocked")]
  <2>1. Block(t, "blocked") \in TaskRecord /\ Block(t, "blocked").st = "blocked"
        /\ Block(t, "blocked").run = tasks[t].run
    BY <1>b
  <2> HIDE DEF t
  <2> QED
    BY <1>2, <1>5, <2>1 DEF t
<1> QED
  BY <1>3, <1>4, <1>5
     DEF Result, Approve, ApproveNoop, RequestChanges, Blocked, Misaligned, Misses, Rework

(* One fibre moves on. *)
LEMMA StepTyped ==
  ASSUME DeliveryInv, NEW f \in Fibres, NEW next \in Placed, Moves(f, next) \/ Emits(f, next),
         ObjectiveTyped', LedgerTyped', RestTyped',
         \/ integ'.on.task \in Tasks
         \/ integ' = integ /\ (MayBeReady(next) => integ.on.task \in Tasks)
  PROVE  DeliveryInv'
<1>1. fibre' \in [Fibres -> Placed]
  BY MovesPlaced DEF DeliveryInv
<1>2. OnKnown(integ', fibre')
  BY OnKept
<1> QED
  BY <1>1, <1>2 DEF DeliveryInv

(* Nothing but the fibre and history changes. *)
LEMMA QuietTyped ==
  ASSUME DeliveryInv, NEW f \in Fibres, NEW next \in Placed, Moves(f, next) \/ Emits(f, next),
         UNCHANGED objective, UNCHANGED workspace,
         MayBeReady(next) => integ.on.task \in Tasks,
         queue' \subseteq queue, posted' = posted, failed' \subseteq Nat,
         asked' \in BOOLEAN, wake' \in BOOLEAN,
         calls' \in Nat, stale' \subseteq {"effect", "result"}, cut' \in BOOLEAN
  PROVE  DeliveryInv'
<1>1. ObjectiveTyped' /\ integ' = integ
  BY DEF objective, ObjectiveTyped, DeliveryInv
<1>2. LedgerTyped'
  BY DEF LedgerTyped, DeliveryInv
<1>3. RestTyped'
  BY DEF RestTyped, DeliveryInv, workspace
<1> QED
  BY <1>1, <1>2, <1>3, StepTyped

(* The steps of the reactor before an effect is applied. *)
LEMMA ReactTyped ==
  ASSUME DeliveryInv, NEW f \in Fibres,
         Sync(f) \/ Gate(f) \/ Plan(f) \/ Head(f) \/ HeadDispatch(f) \/ HeadSplit(f)
  PROVE  DeliveryInv'
<1>0. /\ fibre[f] \in Placed /\ fibre[f] \in Fibre /\ InPlace(fibre[f])
      /\ ObjectiveTyped /\ LedgerTyped /\ RestTyped /\ OnKnown(integ, fibre)
     /\ fibre \in [Fibres -> Placed]
  BY DEF DeliveryInv, Placed
<1>n. /\ Over(f) \in Placed /\ ~MayBeReady(Over(f)) /\ Idle \in Placed /\ ~MayBeReady(Idle)
      /\ Again(f) \in Placed /\ ~MayBeReady(Again(f))
      /\ To(f, "gate") \in Placed /\ ~MayBeReady(To(f, "gate"))
  BY <1>0, NextPlaces, Small
<1>1. CASE Sync(f)
  <2>1. CASE Terminal
    <3>1. /\ UNCHANGED objective /\ UNCHANGED workspace /\ UNCHANGED ledger
          /\ calls' = calls /\ stale' = stale /\ cut' = cut /\ Moves(f, Over(f))
      BY <1>1, <2>1 DEF Sync, objective
    <3> QED
      BY <1>0, <1>n, <3>1, QuietTyped DEF ledger, LedgerTyped, RestTyped
  <2>2. CASE ~Terminal
    <3>1. tasks' \in [Tasks -> TaskRecord] /\ active' \subseteq Tasks
      <4>1. "blocked" \in TaskStates /\ \A t \in Tasks : tasks[t] \in TaskRecord
        BY <1>0 DEF TaskStates, ObjectiveTyped
      <4>2. \A t \in Tasks : Block(t, "blocked") \in TaskRecord
        BY <1>0, <4>1, TaskUpdates
      <4> QED
        BY <1>0, <1>1, <2>2, <4>1, <4>2 DEF Sync, ObjectiveTyped
    <3>2. ObjectiveTyped' /\ integ' = integ
      BY <1>0, <1>1, <3>1 DEF Sync, ObjectiveTyped
    <3>3. LedgerTyped' /\ RestTyped'
      BY <1>0, <1>1, <2>2 DEF Sync, LedgerTyped, RestTyped, ledger, workspace
    <3>4. Moves(f, To(f, "gate")) \/ Emits(f, To(f, "gate"))
      BY <1>1, <2>2 DEF Sync
    <3> QED
      BY <1>n, <3>2, <3>3, <3>4, StepTyped
  <2> QED
    BY <2>1, <2>2
<1>2. CASE Gate(f)
  <2>1. PICK next \in Placed : Moves(f, next) /\ ~MayBeReady(next)
    <3>1. CASE Terminal
      BY <1>n, <1>2, <3>1 DEF Gate
    <3>2. CASE ~Terminal /\ (runs >= MaxTaskRuns \/ status = "policy")
      <4> DEFINE next == [fibre[f] EXCEPT !.at = "emit", !.eff = E("policy", 0)]
      <4>1. E("policy", 0) \in Effect /\ E("policy", 0).do = "policy"
        BY Small DEF Kinds
      <4>2. next \in Fibre /\ next.at = "emit" /\ next.eff.do = "policy"
        BY <1>0, <4>1 DEF Fibre, Places
      <4>3. next \in Placed /\ ~MayBeReady(next)
        BY <4>2 DEF Placed, InPlace, Working, Passing, Directed, MayBeReady
      <4> QED
        BY <1>2, <3>2, <4>3 DEF Gate
    <3>3. CASE ~Terminal /\ ~(runs >= MaxTaskRuns \/ status = "policy")
      <4> DEFINE next == [fibre[f] EXCEPT !.at = "plan", !.left = PlannerPasses]
      <4>1. next \in Fibre /\ next.at = "plan"
        <5>1. PlannerPasses \in 0..PlannerPasses
          BY DeliveryAssumption
        <5> QED
          BY <1>0, <5>1 DEF Fibre, Places
      <4>2. next \in Placed /\ ~MayBeReady(next)
        BY <4>1 DEF Placed, InPlace, Working, Passing, MayBeReady
      <4> QED
        BY <1>2, <3>3, <4>2 DEF Gate
    <3> QED
      BY <3>1, <3>2, <3>3
  <2> QED
    BY <1>0, <1>2, <2>1, QuietTyped DEF Gate, ledger, LedgerTyped, RestTyped
<1>3. CASE Plan(f)
  <2>1. PICK next \in Placed : Moves(f, next) /\ (MayBeReady(next) => integ.on.task \in Tasks)
    <3>1. CASE Moves(f, Over(f))
      BY <1>n, <3>1
    <3>2. CASE ~Moves(f, Over(f))
      <4> DEFINE at == Onto(Planned)
                 rest == IF Planned.do = "split" THEN Unadvised ELSE Nothing
                 next == [fibre[f] EXCEPT !.at = at, !.eff = Planned, !.left = @ - 1,
                                          !.rest = rest]
      <4>1. Moves(f, next) /\ fibre[f].left # 0
        BY <1>3, <3>2 DEF Plan
      <4>2. fibre[f].left - 1 \in 0..PlannerPasses
        BY <1>0, <4>1, Small DEF Fibre
      <4>4. /\ rest \in Effect /\ (rest.do \in Directed => rest.on \in Tasks)
            /\ rest.do = "ready" => integ.on.task \in Tasks
        BY <1>0, PlannedTyped, Small DEF Directed
      <4>5. at \in {"head", "emit"} /\ (at = "head" => Planned.do \in Conditional)
        BY DEF Onto
      <4> HIDE DEF at, rest
      <4>3. next \in Fibre /\ next.at = at /\ next.eff = Planned /\ next.rest = rest
        BY <1>0, <4>2, <4>4, <4>5, PlannedTyped DEF Fibre, Places
      <4> HIDE DEF next
      <4>6. InPlace(next)
        BY <1>0, <4>3, <4>4, <4>5, PlannedTyped DEF InPlace, Working, Passing
      <4>7. next \in Placed /\ (MayBeReady(next) => integ.on.task \in Tasks)
        BY <1>0, <4>3, <4>4, <4>6, PlannedTyped DEF Placed, MayBeReady
      <4> QED
        BY <4>1, <4>7 DEF next, at, rest
    <3> QED
      BY <3>1, <3>2
  <2>2. cut' \in BOOLEAN
    BY <1>3 DEF Plan
  <2> QED
    BY <1>0, <1>3, <2>1, <2>2, QuietTyped DEF Plan, ledger, LedgerTyped, RestTyped
<1>4. ASSUME fibre[f].at = "head"
      PROVE  LET next == [To(f, "emit") EXCEPT !.fresh = TRUE] IN
             next \in Placed /\ ~MayBeReady(next)
  <2> DEFINE next == [To(f, "emit") EXCEPT !.fresh = TRUE]
  <2>1. /\ next \in Fibre /\ next.at = "emit" /\ next.eff = fibre[f].eff
    BY <1>0 DEF To, Fibre, Places
  <2>2. next \in Placed
    BY <1>0, <1>4, <2>1 DEF Placed, InPlace, Working, Passing
  <2>3. ~MayBeReady(next)
    BY <1>0, <1>4, <2>1 DEF InPlace, MayBeReady, Conditional
  <2> QED
    BY <2>2, <2>3
<1>5. CASE Head(f)
  BY <1>0, <1>4, <1>5, QuietTyped DEF Head, ledger, LedgerTyped, RestTyped
<1>6. CASE HeadDispatch(f)
  <2>1. fibre[f].job \in Job
    BY <1>0 DEF Fibre
  <2>2. failed' \subseteq Nat
    <3>1. RunsOf({fibre[f].job}) \subseteq Nat
      BY <2>1, RunsTyped
    <3> QED
      BY <1>0, <1>6, <3>1 DEF HeadDispatch, LedgerTyped
  <2>3. /\ asked' \in BOOLEAN /\ wake' \in BOOLEAN
        /\ \E next \in Placed : (Moves(f, next) \/ Emits(f, next)) /\ ~MayBeReady(next)
    <3>1. CASE Signals(f, Idle)
      BY <1>0, <1>n, <3>1, SignalsPlaced
    <3>2. CASE /\ Moves(f, [To(f, "emit") EXCEPT !.fresh = TRUE]) \/ Moves(f, Idle)
               /\ wake' \in {wake, TRUE} /\ asked' = asked
      BY <1>0, <1>n, <1>4, <1>6, <3>2 DEF HeadDispatch, LedgerTyped
    <3> QED
      BY <1>6, <3>1, <3>2 DEF HeadDispatch
  <2> QED
    BY <1>0, <1>6, <2>2, <2>3, QuietTyped DEF HeadDispatch, RestTyped
<1>7. CASE HeadSplit(f)
  <2>1. fibre[f].eff.on \in Tasks
    BY <1>0, <1>7 DEF HeadSplit, InPlace, Directed
  <2>2. tasks[fibre[f].eff.on].run \in Nat
    BY <1>0, <2>1 DEF ObjectiveTyped, TaskRecord
  <2>3. /\ failed' \subseteq Nat /\ queue' \subseteq queue
        /\ advice' \in [task : 0..MaxTasks, pass : Nat]
        /\ advice' # NoAdvice => advice'.task \in Tasks
    <3>1. NoAdvice \in [task : 0..MaxTasks, pass : Nat]
      BY Small DEF NoAdvice
    <3> QED
      BY <1>0, <1>7, <2>2, <3>1 DEF HeadSplit, LedgerTyped, ObjectiveTyped
  <2> DEFINE rest == fibre[f].rest
             goes == [fibre[f] EXCEPT !.at = Onto(rest), !.eff = rest, !.rest = Nothing]
             next == [To(f, "emit") EXCEPT !.fresh = TRUE, !.rest = Nothing]
  <2>4. goes \in Placed /\ (MayBeReady(goes) => integ.on.task \in Tasks)
    <3>1. /\ rest \in Effect /\ (rest.do \in Directed => rest.on \in Tasks)
          /\ rest.do = "ready" => integ.on.task \in Tasks
      BY <1>0, <1>7 DEF HeadSplit, InPlace, Fibre, OnKnown, MayBeReady
    <3>2. Onto(rest) \in {"head", "emit"} /\ (Onto(rest) = "head" => rest.do \in Conditional)
      BY DEF Onto
    <3>3. goes \in Fibre /\ goes.at = Onto(rest) /\ goes.eff = rest /\ goes.rest = Nothing
      BY <1>0, <3>1, <3>2, Small DEF Fibre, Places
    <3> HIDE DEF goes, rest
    <3>4. InPlace(goes)
      BY <3>1, <3>2, <3>3, Small DEF InPlace, Working, Passing, Directed
    <3> QED
      BY <3>1, <3>2, <3>3, <3>4, Small DEF Placed, MayBeReady
  <2>5. next \in Placed /\ ~MayBeReady(next)
    <3>1. next \in Fibre /\ next.at = "emit" /\ next.eff = fibre[f].eff
      BY <1>0, Small DEF To, Fibre, Places
    <3> HIDE DEF next
    <3> QED
      BY <1>0, <1>7, <3>1 DEF HeadSplit, Placed, InPlace, Working, Passing, MayBeReady
  <2>6. /\ asked' \in BOOLEAN /\ wake' \in BOOLEAN
        /\ \E x \in Placed : /\ Moves(f, x) \/ Emits(f, x)
                             /\ MayBeReady(x) => integ.on.task \in Tasks
    <3>1. CASE Signals(f, next)
      BY <1>0, <2>5, <3>1, SignalsPlaced DEF DeliveryInv
    <3>2. CASE /\ UNCHANGED <<asked, wake>>
               /\ Emits(f, IF rest = Nothing THEN Over(f) ELSE goes)
      BY <1>0, <1>n, <2>4, <3>2 DEF LedgerTyped
    <3> QED
      BY <1>7, <3>1, <3>2 DEF HeadSplit
  <2>7. ObjectiveTyped' /\ integ' = integ
    BY <1>0, <1>7, <2>3 DEF HeadSplit, ObjectiveTyped
  <2>8. LedgerTyped' /\ RestTyped'
    BY <1>0, <1>7, <2>3, <2>6 DEF HeadSplit, LedgerTyped, RestTyped, workspace
  <2> HIDE DEF next, goes, rest
  <2> QED
    BY <2>6, <2>7, <2>8, StepTyped
<1> QED
  BY <1>1, <1>2, <1>3, <1>5, <1>6, <1>7

(* The job of an effect, and where its fibre goes with it. *)
LEMMA DueTyped ==
  ASSUME DeliveryInv, NEW f \in Fibres, NEW at \in {"post", "merge"}, NEW kind \in Posts,
         at = "merge" => kind = "validate",
         NEW t \in Tasks, NEW pass \in Nat, NEW run \in Nat
  PROVE  LET next == [To(f, at) EXCEPT !.due = J(kind, t, pass, run)] IN
         /\ next \in Placed /\ ~MayBeReady(next) /\ next.at = at
         /\ next.due = J(kind, t, pass, run) /\ next.job = fibre[f].job
<1> DEFINE due == J(kind, t, pass, run)
           next == [To(f, at) EXCEPT !.due = due]
<1>1. fibre[f] \in Fibre /\ t \in 0..MaxTasks
  BY Small DEF DeliveryInv, Placed
<1>2. due \in Job /\ due.kind = kind /\ due.task = t
  BY <1>1, Small DEF Posts
<1> HIDE DEF due
<1>3. /\ next \in Fibre /\ next.at = at /\ next.due = due /\ next.job = fibre[f].job
  BY <1>1, <1>2 DEF To, Fibre, Places
<1> HIDE DEF next
<1>4. InPlace(next) /\ ~MayBeReady(next)
  BY <1>2, <1>3 DEF InPlace, Working, Passing, TaskJob, MayBeReady
<1>5. next \in Placed
  BY <1>3, <1>4 DEF Placed
<1> QED
  BY <1>3, <1>4, <1>5 DEF next, due

(* The effects that are applied. *)
LEMMA EmitTyped == ASSUME DeliveryInv, NEW f \in Fibres, Emit(f) PROVE DeliveryInv'
<1> DEFINE eff == fibre[f].eff
<1>0. /\ fibre[f] \in Placed /\ fibre[f] \in Fibre /\ InPlace(fibre[f])
      /\ ObjectiveTyped /\ LedgerTyped /\ RestTyped /\ OnKnown(integ, fibre)
  BY DEF DeliveryInv, Placed
<1>n. /\ Over(f) \in Placed /\ ~MayBeReady(Over(f))
      /\ Again(f) \in Placed /\ ~MayBeReady(Again(f))
      /\ Reacting(fibre[f].job) \in Placed /\ ~MayBeReady(Reacting(fibre[f].job))
  BY <1>0, NextPlaces DEF Fibre
<1>e. /\ eff.on \in 0..MaxTasks /\ eff.up \subseteq Tasks /\ eff.down \subseteq Tasks
  BY <1>0 DEF Fibre, Effect
<1>j. Judged(f) => stale' \subseteq {"effect", "result"}
  BY <1>0 DEF Judged, RestTyped
<1>r. Reopened \in Statuses
  BY <1>0 DEF Reopened, ObjectiveTyped, Statuses
<1>k. {"pending", "ready", "superseded", "capped"} \subseteq TaskStates
  BY DEF TaskStates
<1>t. \A t \in Tasks : tasks[t] \in TaskRecord
  BY <1>0 DEF ObjectiveTyped
<1> HIDE DEF eff
<1>1. CASE EmitAdd(f)
  <2>1. tasks' \in [Tasks -> TaskRecord]
    BY <1>0, <1>1, <1>k, TaskUpdates DEF EmitAdd
  <2>2. status' \in Statuses
    BY <1>1, <1>r DEF EmitAdd, Statuses
  <2>3. ObjectiveTyped' /\ integ' = integ
    BY <1>0, <1>1, <2>1, <2>2 DEF EmitAdd, ObjectiveTyped
  <2>4. LedgerTyped' /\ RestTyped'
    BY <1>0, <1>1, <1>j DEF EmitAdd, LedgerTyped, RestTyped, ledger, workspace
  <2> QED
    BY <1>1, <1>n, <2>3, <2>4, StepTyped DEF EmitAdd
<1>2. CASE EmitFollow(f)
  <2>1. tasks' \in [Tasks -> TaskRecord]
    <3>1. tasks' = [t \in Tasks |-> IF t = eff.on + 1 THEN [tasks[t] EXCEPT !.st = "pending"]
                                    ELSE Becomes(eff.down, "superseded")[t]]
      BY <1>2 DEF EmitFollow, eff
    <3>2. \A t \in Tasks : /\ [tasks[t] EXCEPT !.st = "pending"] \in TaskRecord
                           /\ Becomes(eff.down, "superseded")[t] \in TaskRecord
      BY <1>0, <1>k, TaskUpdates
    <3> QED
      BY <3>1, <3>2
  <2>2. ObjectiveTyped' /\ integ' = integ
    BY <1>0, <1>2, <1>r, <2>1 DEF EmitFollow, ObjectiveTyped
  <2>3. LedgerTyped' /\ RestTyped'
    BY <1>0, <1>2, <1>j DEF EmitFollow, LedgerTyped, RestTyped, ledger, workspace
  <2> QED
    BY <1>2, <1>n, <2>2, <2>3, StepTyped DEF EmitFollow
<1>3. CASE EmitSplit(f)
  <2>1. tasks' \in [Tasks -> TaskRecord]
    <3>2. \A t \in Tasks : /\ [tasks[t] EXCEPT !.st = "pending"] \in TaskRecord
                           /\ [tasks[t] EXCEPT !.st = "superseded"] \in TaskRecord
      BY <1>0, <1>k, TaskUpdates
    <3> QED
      BY <1>3, <1>t, <3>2 DEF EmitSplit
  <2>2. ObjectiveTyped' /\ integ' = integ
    <3>1. NoAdvice \in [task : 0..MaxTasks, pass : Nat]
      BY Small DEF NoAdvice
    <3> QED
      BY <1>0, <1>3, <1>r, <2>1, <3>1 DEF EmitSplit, ObjectiveTyped
  <2>3. LedgerTyped' /\ RestTyped'
    BY <1>0, <1>3, <1>j DEF EmitSplit, LedgerTyped, RestTyped, ledger, workspace
  <2> QED
    BY <1>3, <1>n, <2>2, <2>3, StepTyped DEF EmitSplit
<1>4. CASE EmitPrepare(f)
  <2>1. tasks' \in [Tasks -> TaskRecord]
    <3>1. tasks' = [t \in Tasks |-> IF t \in eff.down THEN Block(t, "capped")
                                    ELSE Becomes(eff.up, "ready")[t]]
      BY <1>4 DEF EmitPrepare, eff
    <3>2. \A t \in Tasks : Block(t, "capped") \in TaskRecord
      BY <1>0, <1>k, TaskUpdates
    <3>3. Becomes(eff.up, "ready") \in [Tasks -> TaskRecord]
      BY <1>0, <1>k, TaskUpdates
    <3> QED
      BY <3>1, <3>2, <3>3
  <2>2. status' \in Statuses
    BY <1>0, <1>4, <1>r DEF EmitPrepare, ObjectiveTyped
  <2>3. ObjectiveTyped' /\ integ' = integ
    BY <1>0, <1>4, <2>1, <2>2 DEF EmitPrepare, ObjectiveTyped
  <2>4. LedgerTyped' /\ RestTyped'
    BY <1>0, <1>4, <1>j DEF EmitPrepare, LedgerTyped, RestTyped, ledger, workspace
  <2> QED
    BY <1>4, <1>n, <2>3, <2>4, StepTyped DEF EmitPrepare
<1>5. CASE EmitDispatch(f)
  <2> DEFINE t == eff.on
             pass == tasks[t].passes + IF tasks[t].cand = "running" THEN 0 ELSE 1
             rec == [st |-> "running", cand |-> "running", passes |-> pass, run |-> runs + 1]
  <2>1. t \in Tasks
    BY <1>0, <1>5 DEF EmitDispatch, Appends, InPlace, Directed, eff
  <2>2. pass \in Nat /\ runs + 1 \in Nat
    BY <1>0, <1>t, <2>1 DEF TaskRecord, ObjectiveTyped
  <2>3. /\ runs' = runs + 1 /\ tasks' = [tasks EXCEPT ![t] = rec] /\ active' = active \cup {t}
        /\ Emits(f, [To(f, "post") EXCEPT !.due = J("task", t, pass, runs + 1)])
    BY <1>5 DEF EmitDispatch, eff
  <2> HIDE DEF t, pass
  <2>4. rec \in TaskRecord
    BY <2>2 DEF TaskRecord
  <2> HIDE DEF rec
  <2>5. tasks' \in [Tasks -> TaskRecord]
    BY <1>0, <2>3, <2>4 DEF ObjectiveTyped
  <2>6. ObjectiveTyped' /\ integ' = integ
    BY <1>0, <1>5, <2>1, <2>2, <2>3, <2>5 DEF EmitDispatch, ObjectiveTyped, Statuses
  <2>7. LedgerTyped' /\ RestTyped'
    BY <1>0, <1>5, <1>j DEF EmitDispatch, LedgerTyped, RestTyped, ledger, workspace
  <2> DEFINE next == [To(f, "post") EXCEPT !.due = J("task", t, pass, runs + 1)]
  <2>8. next \in Placed /\ ~MayBeReady(next)
    BY <2>1, <2>2, DueTyped DEF Posts
  <2> HIDE DEF next
  <2> QED
    BY <2>3, <2>6, <2>7, <2>8, StepTyped DEF next
<1>6. ASSUME NEW do \in Directed, NEW st \in {"merging", "promoting"}, NEW at \in {"merge", "post"},
             NEW kind \in {"validate", "publish"}, at = "merge" => kind = "validate",
             EmitIntegration(f, do, st, at, kind)
      PROVE  DeliveryInv'
  <2> DEFINE t == eff.on
             next == [To(f, at) EXCEPT !.due = J(kind, t, tasks[t].passes, 0)]
  <2>1. t \in Tasks
    BY <1>0, <1>6 DEF EmitIntegration, Appends, InPlace, eff
  <2>2. /\ integ' = [st |-> st, on |-> Candidate(t)] /\ status' = "live" /\ Emits(f, next)
    BY <1>6 DEF EmitIntegration, eff
  <2> HIDE DEF t
  <2>3. tasks[t].passes \in Nat /\ 0 \in Nat
    BY <1>t, <2>1 DEF TaskRecord
  <2>4. next \in Placed /\ ~MayBeReady(next)
    BY <1>6, <2>1, <2>3, DueTyped DEF Posts
  <2> HIDE DEF next
  <2>5. integ' \in Integration /\ integ'.on.task \in Tasks
    BY <2>1, <2>2, <2>3, Small DEF Integration, Candidate
  <2>6. ObjectiveTyped'
    BY <1>0, <1>6, <2>2, <2>5 DEF EmitIntegration, ObjectiveTyped, Statuses
  <2>7. LedgerTyped' /\ RestTyped'
    BY <1>0, <1>6, <1>j DEF EmitIntegration, LedgerTyped, RestTyped, ledger, workspace
  <2> QED
    BY <2>2, <2>4, <2>5, <2>6, <2>7, StepTyped
<1>7. CASE EmitIntegrate(f) \/ EmitPromote(f)
  BY <1>6, <1>7 DEF EmitIntegrate, EmitPromote, Directed
<1>8. CASE EmitReady(f)
  <2>1. integ.on.task \in Tasks
    <3>1. MayBeReady(fibre[f])
      BY <1>8 DEF EmitReady, Appends, MayBeReady
    <3> QED
      BY <1>0, <3>1 DEF OnKnown
  <2>2. integ' \in Integration /\ integ'.on.task \in Tasks
    BY <1>0, <1>8, <2>1 DEF EmitReady, ObjectiveTyped, Integration
  <2>3. ObjectiveTyped'
    BY <1>0, <1>8, <2>2 DEF EmitReady, ObjectiveTyped, Statuses
  <2>4. LedgerTyped' /\ RestTyped'
    BY <1>0, <1>8, <1>j DEF EmitReady, LedgerTyped, RestTyped, ledger, workspace
  <2> QED
    BY <1>8, <1>n, <2>2, <2>3, <2>4, StepTyped DEF EmitReady
<1>9. CASE EmitComplete(f)
  <2>1. ObjectiveTyped' /\ integ' = integ
    BY <1>0, <1>9 DEF EmitComplete, ObjectiveTyped, Statuses
  <2>2. LedgerTyped' /\ RestTyped'
    BY <1>0, <1>9, <1>j DEF EmitComplete, Asks, LedgerTyped, RestTyped, workspace
  <2> QED
    BY <1>9, <1>n, <2>1, <2>2, StepTyped DEF EmitComplete
<1>10. CASE EmitBlock(f)
  <2>1. ObjectiveTyped' /\ integ' = integ
    BY <1>0, <1>10 DEF EmitBlock, ObjectiveTyped, Statuses
  <2>2. LedgerTyped' /\ RestTyped'
    BY <1>0, <1>10, <1>j DEF EmitBlock, LedgerTyped, RestTyped, ledger, workspace
  <2> QED
    BY <1>10, <1>n, <2>1, <2>2, StepTyped DEF EmitBlock
<1>11. CASE EmitNext(f)
  <2>1. tasks' \in [Tasks -> TaskRecord] /\ status' \in Statuses
    <3>1. \A set : Becomes(set, "ready") \in [Tasks -> TaskRecord]
      BY <1>0, <1>k, TaskUpdates
    <3>2. \/ (\E t \in fibre[f].eff.up : tasks' = Becomes({t}, "ready")) /\ status' = Reopened
          \/ tasks' = tasks /\ status' = "blocked"
      BY <1>11 DEF EmitNext
    <3> QED
      BY <1>0, <1>r, <3>1, <3>2 DEF ObjectiveTyped, Statuses
  <2>2. ObjectiveTyped' /\ integ' = integ
    BY <1>0, <1>11, <2>1 DEF EmitNext, ObjectiveTyped
  <2>3. LedgerTyped' /\ RestTyped'
    BY <1>0, <1>11, <1>j DEF EmitNext, LedgerTyped, RestTyped, ledger, workspace
  <2> QED
    BY <1>11, <1>n, <2>2, <2>3, StepTyped DEF EmitNext
<1> QED
  BY <1>1, <1>2, <1>3, <1>4, <1>5, <1>7, <1>8, <1>9, <1>10, <1>11 DEF Emit

(* An effect that is dropped, a job that is enqueued, a merge. *)
LEMMA RestTypedToo ==
  ASSUME DeliveryInv, NEW f \in Fibres,
         Refused(f) \/ Post(f) \/ Merge(f) \/ EmitIntegrated(f) \/ MergeFails(f)
  PROVE  DeliveryInv'
<1>0. /\ fibre[f] \in Placed /\ fibre[f] \in Fibre /\ InPlace(fibre[f])
      /\ ObjectiveTyped /\ LedgerTyped /\ RestTyped /\ OnKnown(integ, fibre)
  BY DEF DeliveryInv, Placed
<1>n. /\ Over(f) \in Placed /\ ~MayBeReady(Over(f))
      /\ Again(f) \in Placed /\ ~MayBeReady(Again(f))
      /\ Blocking(f) \in Placed /\ ~MayBeReady(Blocking(f))
      /\ Reacting(fibre[f].job) \in Placed /\ ~MayBeReady(Reacting(fibre[f].job))
  BY <1>0, NextPlaces DEF Fibre
<1>1. CASE Refused(f)
  <2>1. PICK next \in Placed : (Moves(f, next) \/ Emits(f, next)) /\ ~MayBeReady(next)
    BY <1>1, <1>n DEF Refused
  <2>2. asked' \in BOOLEAN /\ wake' \in BOOLEAN
    BY <1>0, <1>1 DEF Refused, Asks, LedgerTyped
  <2>3. /\ UNCHANGED objective /\ UNCHANGED workspace
        /\ queue' = queue /\ failed' = failed
        /\ posted' = posted /\ calls' = calls /\ stale' = stale /\ cut' = cut
    BY <1>1 DEF Refused
  <2> QED
    BY <1>0, <2>1, <2>2, <2>3, QuietTyped DEF LedgerTyped, RestTyped
<1>2. CASE Post(f)
  <2>1. TaskJob(fibre[f].due) /\ fibre[f].due \in Job
    BY <1>0, <1>2 DEF Post, InPlace, Fibre
  <2>2. LedgerTyped'
    BY <1>0, <1>2, <2>1 DEF Post, LedgerTyped
  <2>3. ObjectiveTyped' /\ RestTyped' /\ integ' = integ
    BY <1>0, <1>2 DEF Post, ObjectiveTyped, RestTyped, objective, workspace
  <2> QED
    BY <1>2, <1>n, <2>2, <2>3, StepTyped DEF Post
<1> DEFINE t == fibre[f].due.task
<1>3. ASSUME fibre[f].at \in {"post", "merge", "merged"}
      PROVE  t \in Tasks /\ tasks[t] \in TaskRecord
  BY <1>0, <1>3 DEF InPlace, TaskJob, ObjectiveTyped
<1>4. ASSUME NEW at \in {"merged", "post"}, fibre[f].at \in {"merge", "merged"}
      PROVE  To(f, at) \in Placed /\ ~MayBeReady(To(f, at))
  <2> DEFINE next == To(f, at)
  <2>1. next \in Fibre /\ next.at = at /\ next.due = fibre[f].due
    BY <1>0 DEF To, Fibre, Places
  <2> HIDE DEF next
  <2>2. InPlace(next) /\ ~MayBeReady(next)
    BY <1>0, <1>4, <2>1 DEF InPlace, Working, Passing, MayBeReady
  <2> QED
    BY <2>1, <2>2 DEF Placed, next
<1>5. CASE Merge(f)
  <2>1. fibre[f].at = "merge"
    BY <1>5 DEF Merge
  <2>2. [tasks[t] EXCEPT !.cand = "integrated"] \in TaskRecord
    BY <1>3, <2>1 DEF TaskRecord
  <2>3. tasks' = [tasks EXCEPT ![t] = [tasks[t] EXCEPT !.cand = "integrated"]]
    BY <1>5 DEF Merge
  <2>4. ObjectiveTyped' /\ integ' = integ
    BY <1>0, <1>5, <2>2, <2>3 DEF Merge, ObjectiveTyped
  <2>5. LedgerTyped' /\ RestTyped'
    BY <1>0, <1>3, <1>5, <2>1 DEF Merge, LedgerTyped, RestTyped, ledger
  <2> HIDE DEF t
  <2> QED
    BY <1>4, <1>5, <2>1, <2>4, <2>5, StepTyped DEF Merge
<1>6. CASE EmitIntegrated(f)
  <2>1. fibre[f].at = "merged"
    BY <1>6 DEF EmitIntegrated
  <2>2. [tasks[t] EXCEPT !.st = "integrated"] \in TaskRecord
    BY <1>3, <2>1 DEF TaskRecord
  <2>3. tasks' = [tasks EXCEPT ![t] = [tasks[t] EXCEPT !.st = "integrated"]]
    BY <1>6 DEF EmitIntegrated
  <2>4. ObjectiveTyped' /\ integ' = integ
    BY <1>0, <1>6, <2>2, <2>3 DEF EmitIntegrated, ObjectiveTyped, Statuses
  <2>5. LedgerTyped' /\ RestTyped'
    BY <1>0, <1>6 DEF EmitIntegrated, LedgerTyped, RestTyped, ledger, workspace
  <2> HIDE DEF t
  <2> QED
    BY <1>4, <1>6, <2>1, <2>4, <2>5, StepTyped DEF EmitIntegrated
<1>7. CASE MergeFails(f)
  <2>1. fibre[f].at \in {"post", "merge", "merged"}
    BY <1>7 DEF MergeFails
  <2>2. PICK next \in Placed : Emits(f, next) /\ ~MayBeReady(next)
    BY <1>7, <1>n DEF MergeFails
  <2>3. tasks' \in [Tasks -> TaskRecord]
    <3>1. [tasks[t] EXCEPT !.cand = "conflicted"] \in TaskRecord
      BY <1>3, <2>1 DEF TaskRecord
    <3>2. \/ tasks' = [tasks EXCEPT ![t] = [tasks[t] EXCEPT !.cand = "conflicted"]]
          \/ tasks' = tasks
      BY <1>7 DEF MergeFails
    <3> QED
      BY <1>0, <3>1, <3>2 DEF ObjectiveTyped
  <2>4. integ' = integ \/ (integ' \in Integration /\ integ'.on.task \in Tasks)
    <3>1. Candidate(t).task = t /\ Candidate(t) \in [task : 0..MaxTasks, pass : Nat]
      BY <1>3, <2>1, Small DEF Candidate, TaskRecord
    <3>2. integ' = integ \/ integ' = [st |-> "conflicted", on |-> Candidate(t)]
      BY <1>7 DEF MergeFails
    <3> QED
      BY <1>3, <2>1, <3>1, <3>2 DEF Integration
  <2>5. status' \in Statuses
    BY <1>0, <1>7 DEF MergeFails, ObjectiveTyped, Statuses
  <2>6. ObjectiveTyped'
    BY <1>0, <1>7, <2>3, <2>4, <2>5 DEF MergeFails, ObjectiveTyped
  <2>7. asked' \in BOOLEAN /\ wake' \in BOOLEAN /\ cut' \in BOOLEAN /\ calls' \in Nat
    <3>1. asked' \in BOOLEAN /\ wake' \in BOOLEAN
      BY <1>0, <1>7 DEF MergeFails, Asks, LedgerTyped
    <3>2. cut' \in BOOLEAN
      BY <1>0, <1>7 DEF MergeFails, RestTyped
    <3>3. calls' \in Nat
      BY <1>0, <1>7 DEF MergeFails, RestTyped
    <3> QED
      BY <3>1, <3>2, <3>3
  <2>8. LedgerTyped' /\ RestTyped'
    BY <1>0, <1>7, <2>7 DEF MergeFails, LedgerTyped, RestTyped, workspace
  <2> HIDE DEF t
  <2> QED
    BY <2>2, <2>4, <2>6, <2>8, StepTyped
<1> QED
  BY <1>1, <1>2, <1>5, <1>6, <1>7

(* The jobs. *)
LEMMA WorkTyped == ASSUME DeliveryInv, NEW f \in Fibres, Work(f) PROVE DeliveryInv'
<1>0. /\ fibre[f] \in Placed /\ fibre[f] \in Fibre /\ InPlace(fibre[f])
      /\ ObjectiveTyped /\ LedgerTyped /\ RestTyped /\ OnKnown(integ, fibre)
  BY DEF DeliveryInv, Placed
<1>n. /\ Idle \in Placed /\ ~MayBeReady(Idle)
      /\ \A job \in Job : Reacting(job) \in Placed /\ ~MayBeReady(Reacting(job))
      /\ fibre[f].job \in Job /\ NoJob \in Job
  BY <1>0, NextPlaces, Small DEF Fibre
<1>1. CASE Control(f) \/ Pass(f) \/ Check(f) \/ EndControl(f)
  <2>1. /\ J("control", 0, 1, 0) \in Job /\ J("control", 0, 1, 0).kind = "control"
        /\ J("control", 0, 2, 0) \in Job /\ J("control", 0, 2, 0).kind = "control"
    BY Small
  <2> DEFINE starts == [Idle EXCEPT !.at = "pass", !.job = J("control", 0, 1, 0)]
             again == [To(f, "pass") EXCEPT !.job = J("control", 0, 2, 0)]
  <2>2. starts \in Placed /\ ~MayBeReady(starts)
    <3>1. Idle \in Fibre
      BY Small DEF Placed
    <3>2. starts \in Fibre /\ starts.at = "pass" /\ starts.job = J("control", 0, 1, 0)
      BY <2>1, <3>1 DEF Fibre, Places
    <3> HIDE DEF starts
    <3> QED
      BY <2>1, <3>2 DEF Placed, InPlace, Working, Passing, MayBeReady
  <2>3. again \in Placed /\ ~MayBeReady(again)
    <3>1. again \in Fibre /\ again.at = "pass" /\ again.job = J("control", 0, 2, 0)
      BY <1>0, <2>1 DEF To, Fibre, Places
    <3> HIDE DEF again
    <3> QED
      BY <2>1, <3>1 DEF Placed, InPlace, Working, Passing, MayBeReady
  <2>5. PICK next \in Placed : (Moves(f, next) \/ Emits(f, next)) /\ ~MayBeReady(next)
    <3> HIDE DEF starts, again
    <3>1. \/ Moves(f, starts) \/ Moves(f, again) \/ Moves(f, Idle)
          \/ Moves(f, Reacting(fibre[f].job)) \/ Emits(f, Reacting(fibre[f].job))
          \/ Moves(f, To(f, "end")) /\ (Pass(f) \/ Check(f))
      BY <1>1 DEF Control, Pass, Check, EndControl, Retires, starts, again
    <3>2. Pass(f) \/ Check(f) => To(f, "end") \in Placed /\ ~MayBeReady(To(f, "end"))
      BY <1>0, NextPlaces DEF Pass, Check, Passing
    <3> QED
      BY <1>n, <2>2, <2>3, <3>1, <3>2
  <2>6. /\ UNCHANGED objective /\ UNCHANGED workspace
        /\ posted' = posted /\ calls' = calls /\ stale' = stale /\ cut' = cut
    BY <1>1 DEF Control, Pass, Check, EndControl, ledger
  <2>7. asked' \in BOOLEAN /\ wake' \in BOOLEAN
    BY <1>0, <1>1 DEF Control, Pass, Check, EndControl, Retires, ledger, LedgerTyped
  <2>8. failed' \subseteq Nat /\ queue' \subseteq queue
    <3>1. RunsOf(queue \cup Held) \subseteq Nat
      BY <1>0, RunsTyped DEF LedgerTyped
    <3> QED
      BY <1>0, <1>1, <3>1 DEF Control, Pass, Check, EndControl, Retires, ledger, LedgerTyped
  <2> QED
    BY <1>0, <2>5, <2>6, <2>7, <2>8, QuietTyped DEF RestTyped
<1>2. CASE Take(f)
  <2>1. PICK j \in queue :
          /\ queue' = queue \ {j}
          /\ \/ /\ j.kind = "task"
                /\ Moves(f, [Idle EXCEPT !.at = "run", !.job = j])
                /\ UNCHANGED <<integ, status>>
             \/ /\ j.kind = "validate"
                /\ integ' = [st |-> "validating", on |-> [task |-> j.task, pass |-> j.pass]]
                /\ status' = "live"
                /\ Emits(f, [Idle EXCEPT !.at = "validating", !.job = j,
                                         !.eff = [Nothing EXCEPT !.up = merged]])
             \/ /\ j.kind = "publish"
                /\ Moves(f, IF Terminal THEN Idle
                            ELSE [Idle EXCEPT !.at = "publishing", !.job = j])
                /\ UNCHANGED <<integ, status>>
    BY <1>2 DEF Take
  <2>2. j \in Job /\ TaskJob(j) /\ Idle \in Fibre
    BY <1>0, Small DEF LedgerTyped, Placed
  <2>3. \A e \in Effect, at \in Working :
          LET x == [Idle EXCEPT !.at = at, !.job = j, !.eff = e] IN
          x \in Fibre /\ x.at = at /\ x.job = j
    BY <2>2 DEF Fibre, Places, Working
  <2>4. \A at \in Working :
          LET x == [Idle EXCEPT !.at = at, !.job = j] IN
          x \in Fibre /\ x.at = at /\ x.job = j
    BY <2>2 DEF Fibre, Places, Working
  <2>5. ASSUME NEW x \in Fibre, NEW at \in Working, x.at = at, x.job = j,
               at = "run" => j.kind = "task", at = "validating" => j.kind = "validate",
               at = "publishing" => j.kind = "publish"
        PROVE  x \in Placed /\ ~MayBeReady(x)
    <3>1. InPlace(x) /\ ~MayBeReady(x)
      BY <2>2, <2>5 DEF InPlace, Working, Passing, MayBeReady
    <3> QED
      BY <3>1 DEF Placed
  <2>6. [Nothing EXCEPT !.up = merged] \in Effect
    BY <1>0, Small DEF RestTyped, Effect
  <2>7. PICK next \in Placed : (Moves(f, next) \/ Emits(f, next)) /\ ~MayBeReady(next)
    <3>1. CASE j.kind = "task"
      <4> DEFINE x == [Idle EXCEPT !.at = "run", !.job = j]
      <4>1. x \in Fibre /\ x.at = "run" /\ x.job = j
        BY <2>4 DEF Working
      <4>2. Moves(f, x)
        BY <2>1, <3>1
      <4> HIDE DEF x
      <4> QED
        BY <2>5, <3>1, <4>1, <4>2 DEF Working
    <3>2. CASE j.kind = "validate"
      <4> DEFINE x == [Idle EXCEPT !.at = "validating", !.job = j,
                                   !.eff = [Nothing EXCEPT !.up = merged]]
      <4>1. x \in Fibre /\ x.at = "validating" /\ x.job = j
        BY <2>3, <2>6 DEF Working
      <4>2. Emits(f, x)
        BY <2>1, <3>2
      <4> HIDE DEF x
      <4> QED
        BY <2>5, <3>2, <4>1, <4>2 DEF Working
    <3>3. CASE j.kind = "publish"
      <4> DEFINE x == [Idle EXCEPT !.at = "publishing", !.job = j]
      <4>1. x \in Fibre /\ x.at = "publishing" /\ x.job = j
        BY <2>4 DEF Working
      <4>2. Moves(f, Idle) \/ Moves(f, x)
        BY <2>1, <3>3
      <4> HIDE DEF x
      <4> QED
        BY <1>n, <2>5, <3>3, <4>1, <4>2 DEF Working
    <3> QED
      BY <2>1, <3>1, <3>2, <3>3
  <2>8. integ' = integ \/ (integ' \in Integration /\ integ'.on.task \in Tasks)
    <3>1. [task |-> j.task, pass |-> j.pass] \in [task : 0..MaxTasks, pass : Nat]
      BY <2>2, Small DEF TaskJob, Job
    <3> QED
      BY <2>1, <2>2, <3>1 DEF Integration, TaskJob
  <2>9. ObjectiveTyped'
    BY <1>0, <1>2, <2>1, <2>8 DEF Take, ObjectiveTyped, Statuses
  <2>10. LedgerTyped' /\ RestTyped'
    BY <1>0, <1>2, <2>1 DEF Take, LedgerTyped, RestTyped, workspace
  <2> QED
    BY <2>7, <2>8, <2>9, <2>10, StepTyped
<1>3. CASE Result(f)
  <2> DEFINE t == fibre[f].job.task
  <2>1. t \in Tasks
    BY <1>0, <1>3 DEF Result, InPlace, Working, TaskJob
  <2>2. PICK rec \in TaskRecord : tasks' = [tasks EXCEPT ![t] = rec] /\ note' \in {note, "new"}
    BY <1>0, <1>3, <2>1, Results
  <2> HIDE DEF t
  <2>5. tasks' \in [Tasks -> TaskRecord]
    BY <1>0, <2>2 DEF ObjectiveTyped
  <2>6. ObjectiveTyped' /\ integ' = integ
    BY <1>0, <1>3, <2>2, <2>5 DEF Result, ObjectiveTyped
  <2>7. LedgerTyped' /\ RestTyped'
    BY <1>0, <1>3 DEF Result, LedgerTyped, RestTyped, ledger, workspace
  <2> QED
    BY <1>3, <1>n, <2>6, <2>7, StepTyped DEF Result
<1>4. CASE Abort(f)
  BY <1>0, <1>4, <1>n, QuietTyped DEF Abort, ledger, LedgerTyped, RestTyped
<1>5. CASE Validated(f) \/ Published(f)
  <2> DEFINE on == [task |-> fibre[f].job.task, pass |-> fibre[f].job.pass]
  <2>1. on \in [task : 0..MaxTasks, pass : Nat] /\ on.task \in Tasks
    BY <1>0, <1>5, <1>n, Small DEF Validated, Published, InPlace, Working, TaskJob, Job
  <2>2. \/ integ' = [integ EXCEPT !.st = "promoted"]
        \/ integ' = [st |-> "validated", on |-> on] \/ integ' = [st |-> "conflicted", on |-> on]
    BY <1>5 DEF Validated, Published
  <2> HIDE DEF on
  <2>3. integ' \in Integration
    BY <1>0, <2>1, <2>2 DEF Integration, ObjectiveTyped
  <2>4. /\ status' \in Statuses /\ checked' \subseteq Tasks
        /\ asked' \in BOOLEAN /\ wake' \in BOOLEAN
    <3>1. fibre[f].eff.up \subseteq Tasks
      BY <1>0 DEF Fibre, Effect
    <3> QED
      BY <1>0, <1>5, <3>1
         DEF Validated, Published, Asks, Statuses, RestTyped, LedgerTyped, ledger, workspace
  <2>5. ObjectiveTyped'
    BY <1>0, <1>5, <2>3, <2>4 DEF Validated, Published, ObjectiveTyped
  <2>6. LedgerTyped' /\ RestTyped'
    BY <1>0, <1>5, <2>4 DEF Validated, Published, LedgerTyped, RestTyped, ledger, workspace
  <2>7. PICK next \in Placed : Emits(f, next) /\ ~MayBeReady(next)
    BY <1>5, <1>n DEF Validated, Published
  <2>8. OnKnown(integ', fibre')
    <3>1. CASE integ'.on.task \in Tasks
      BY <3>1, OnKept, <2>7
    <3>2. CASE integ' = [integ EXCEPT !.st = "promoted"]
      <4>1. integ'.st = "promoted" /\ integ'.on = integ.on
        BY <1>0, <3>2 DEF ObjectiveTyped, Integration
      <4>2. \A g \in Fibres : MayBeReady(fibre'[g]) => MayBeReady(fibre[g])
        BY <2>7, MovesPlaced DEF MayBeReady, DeliveryInv
      <4> QED
        BY <1>0, <4>1, <4>2 DEF OnKnown
    <3> QED
      BY <2>1, <2>2, <3>1, <3>2
  <2> QED
    BY <2>5, <2>6, <2>7, <2>8, MovesPlaced DEF DeliveryInv
<1>6. CASE Cancel(f)
  <2>1. ObjectiveTyped' /\ integ' = integ
    BY <1>0, <1>6 DEF Cancel, ObjectiveTyped, Statuses
  <2>2. LedgerTyped' /\ RestTyped'
    BY <1>0, <1>6 DEF Cancel, LedgerTyped, RestTyped, workspace
  <2> QED
    BY <1>6, <1>n, <2>1, <2>2, StepTyped DEF Cancel
<1> QED
  BY <1>1, <1>2, <1>3, <1>4, <1>5, <1>6 DEF Work

(* Requests, failures, advice and a crash. *)
LEMMA OutsideTyped == ASSUME DeliveryInv, Outside PROVE DeliveryInv'
<1>0. /\ \A f \in Fibres : fibre[f] \in Placed /\ fibre[f] \in Fibre /\ InPlace(fibre[f])
      /\ ObjectiveTyped /\ LedgerTyped /\ RestTyped /\ OnKnown(integ, fibre)
      /\ fibre \in [Fibres -> Placed]
  BY DEF DeliveryInv, Placed
<1>n. \A f \in Fibres :
        /\ Idle \in Placed /\ ~MayBeReady(Idle)
        /\ Reacting(NoJob) \in Placed /\ ~MayBeReady(Reacting(NoJob))
        /\ To(f, "cancel") \in Placed /\ ~MayBeReady(To(f, "cancel"))
        /\ fibre[f].job \in Job
  BY <1>0, NextPlaces, Small DEF Fibre
<1>1. ASSUME NEW f \in Fibres, Note(f) PROVE DeliveryInv'
  <2>1. ObjectiveTyped' /\ integ' = integ
    BY <1>0, <1>1 DEF Note, ObjectiveTyped
  <2>2. LedgerTyped' /\ RestTyped'
    BY <1>0, <1>1 DEF Note, LedgerTyped, RestTyped, ledger, workspace
  <2> QED
    BY <1>1, <1>n, <2>1, <2>2, StepTyped DEF Note
<1>2. ASSUME NEW f \in Fibres, CancelJobs(f) PROVE DeliveryInv'
  <2>1. failed' \subseteq Nat /\ queue' \subseteq queue
    BY <1>0, <1>2, RunsTyped DEF CancelJobs, LedgerTyped
  <2>2. calls' \in Nat
    BY <1>0, <1>2 DEF CancelJobs, RestTyped
  <2>3. asked' \in BOOLEAN /\ wake' \in BOOLEAN
    BY <1>0, <1>2 DEF CancelJobs, LedgerTyped
  <2>4. stale' \subseteq {"effect", "result"} /\ cut' \in BOOLEAN /\ posted' = posted
    BY <1>0, <1>2 DEF CancelJobs, RestTyped
  <2>5. Moves(f, To(f, "cancel")) \/ Emits(f, To(f, "cancel"))
    BY <1>2 DEF CancelJobs
  <2> QED
    BY <1>2, <1>n, <2>1, <2>2, <2>3, <2>4, <2>5, QuietTyped DEF CancelJobs
<1>3. ASSUME NEW f \in Fibres, Fails(f) PROVE DeliveryInv'
  <2>1. fibre[f].job \in Job /\ TaskJob(fibre[f].job) /\ fibre[f].job.run \in Nat
    BY <1>0, <1>3, <1>n DEF Fails, InPlace, Working, Job
  <2>2. queue' \subseteq Job /\ failed' \subseteq Nat /\ \A j \in queue' : TaskJob(j)
    BY <1>0, <1>3, <2>1 DEF Fails, LedgerTyped
  <2>3. /\ asked' \in BOOLEAN /\ wake' \in BOOLEAN
        /\ \E next \in Placed : (Moves(f, next) \/ Emits(f, next)) /\ ~MayBeReady(next)
    <3>1. CASE Signals(f, Idle)
      BY <1>0, <1>n, <3>1, SignalsPlaced
    <3>2. CASE Moves(f, Idle) /\ UNCHANGED <<asked, wake>>
      BY <1>0, <1>n, <3>2 DEF LedgerTyped
    <3> QED
      BY <1>3, <3>1, <3>2 DEF Fails
  <2>4. LedgerTyped'
    BY <1>0, <1>3, <2>2, <2>3 DEF Fails, LedgerTyped
  <2>5. ObjectiveTyped' /\ integ' = integ /\ RestTyped'
    BY <1>0, <1>3 DEF Fails, ObjectiveTyped, RestTyped, objective, workspace
  <2> QED
    BY <2>3, <2>4, <2>5, StepTyped
<1>4. ASSUME NEW t \in Tasks, Advise(t) PROVE DeliveryInv'
  <2>1. fibre' = [g \in Fibres |-> Cold(fibre[g])]
    BY <1>4 DEF Advise, Cold
  <2>2. fibre' \in [Fibres -> Placed]
    BY <1>0, <2>1, ColdPlaced
  <2>3. \A g \in Fibres : MayBeReady(fibre'[g]) => MayBeReady(fibre[g])
    BY <1>0, <2>1, ColdPlaced DEF MayBeReady
  <2>4. advice' \in [task : 0..MaxTasks, pass : Nat] /\ advice'.task = t
    BY <1>0, <1>4, Small DEF Advise, Candidate, ObjectiveTyped, TaskRecord
  <2>5. ObjectiveTyped' /\ integ' = integ
    BY <1>0, <1>4, <2>4 DEF Advise, ObjectiveTyped
  <2>6. asked' \in BOOLEAN /\ wake' \in BOOLEAN
    BY <1>0, <1>4 DEF Advise, Asks, LedgerTyped
  <2>7. LedgerTyped' /\ RestTyped'
    BY <1>0, <1>4, <2>6 DEF Advise, LedgerTyped, RestTyped, workspace
  <2>8. OnKnown(integ', fibre')
    BY <1>0, <2>3, <2>5 DEF OnKnown
  <2> QED
    BY <2>2, <2>5, <2>7, <2>8 DEF DeliveryInv
<1>5. CASE Crash
  <2>1. PICK boot \in Fibres : fibre' = [f \in Fibres |-> IF f = boot /\ ~Terminal
                                                          THEN Reacting(NoJob) ELSE Idle]
    BY <1>5 DEF Crash
  <2>2. fibre' \in [Fibres -> Placed] /\ \A g \in Fibres : ~MayBeReady(fibre'[g])
    BY <1>n, <2>1
  <2>3. ObjectiveTyped' /\ integ' = integ
    BY <1>0, <1>5 DEF Crash, ObjectiveTyped, objective
  <2>4. queue' \subseteq Job /\ \A j \in queue' : TaskJob(j)
    <3>1. \A g \in Fibres : fibre[g].at = "run" => fibre[g].job \in Job /\ TaskJob(fibre[g].job)
      BY <1>0, <1>n DEF InPlace, Working
    <3> QED
      BY <1>0, <1>5, <3>1 DEF Crash, LedgerTyped
  <2>5. wake' \in BOOLEAN
    BY <1>0, <1>5 DEF Crash, LedgerTyped
  <2>6. cut' \in BOOLEAN
    BY <1>0, <1>5 DEF Crash, RestTyped
  <2>7. LedgerTyped' /\ RestTyped'
    BY <1>0, <1>5, <2>4, <2>5, <2>6 DEF Crash, LedgerTyped, RestTyped, workspace
  <2>8. OnKnown(integ', fibre')
    BY <1>0, <2>2, <2>3 DEF OnKnown
  <2> QED
    BY <2>2, <2>3, <2>7, <2>8 DEF DeliveryInv
<1> QED
  BY <1>1, <1>2, <1>3, <1>4, <1>5 DEF Outside

(* The types, and what the place of a fibre says of its job and its effect, *)
(* hold for any numbers of fibres, tasks, runs, passes and calls.          *)
THEOREM DeliveryInvariant == DeliverySpec => []DeliveryInv
<1>1. DeliveryInit => DeliveryInv
  <2> SUFFICES ASSUME DeliveryInit PROVE DeliveryInv
    OBVIOUS
  <2>1. tasks \in [Tasks -> TaskRecord]
    BY DEF DeliveryInit, TaskRecord
  <2>2. integ \in Integration /\ integ.st = "idle"
    BY Small DEF DeliveryInit, Integration
  <2>3. ObjectiveTyped
    <3>1. NoAdvice \in [task : 0..MaxTasks, pass : Nat]
      BY Small DEF NoAdvice
    <3> QED
      BY <2>1, <2>2, <3>1 DEF DeliveryInit, ObjectiveTyped, Statuses
  <2>4. LedgerTyped /\ RestTyped
    BY DEF DeliveryInit, LedgerTyped, RestTyped
  <2>5. fibre \in [Fibres -> Placed] /\ \A f \in Fibres : fibre[f] = Idle
    BY Small DEF DeliveryInit
  <2>6. OnKnown(integ, fibre)
    BY <2>2, <2>5, Small DEF OnKnown, MayBeReady
  <2> QED
    BY <2>3, <2>4, <2>5, <2>6 DEF DeliveryInv
<1>2. DeliveryInv /\ [DeliveryNext]_vars => DeliveryInv'
  <2> SUFFICES ASSUME DeliveryInv, [DeliveryNext]_vars PROVE DeliveryInv'
    OBVIOUS
  <2>1. CASE UNCHANGED vars
    BY <2>1 DEF vars, objective, ledger, workspace, DeliveryInv, ObjectiveTyped, LedgerTyped,
                RestTyped, OnKnown
  <2>2. CASE Inside
    BY <2>2, ReactTyped, EmitTyped, RestTypedToo, WorkTyped DEF Inside, React
  <2>3. CASE Outside
    BY <2>3, OutsideTyped
  <2> QED
    BY <2>1, <2>2, <2>3 DEF DeliveryNext
<1> QED
  BY <1>1, <1>2, PTL DEF DeliverySpec

(* Every variable keeps its shape; above all, the reactor counts its        *)
(* passes down and stops at the limit (service.ts, reactObjective).        *)
THEOREM DeliveryTypes == DeliverySpec => []DeliveryTypeOK
<1>1. DeliveryInv => DeliveryTypeOK
  BY DEF DeliveryInv, ObjectiveTyped, LedgerTyped, RestTyped, Placed, TaskRecord, Integration,
         Statuses, DeliveryTypeOK
<1> QED
  BY <1>1, DeliveryInvariant, PTL

-----------------------------------------------------------------------------
(* Until an effect comes too late the integration is in one pair of hands:  *)
(* a fibre that merges, enqueues, validates or publishes, or a queued job.  *)
Carries(x) == \/ x.at \in {"merge", "merged", "validating", "publishing"}
              \/ x.at = "post" /\ x.due.kind # "task"
Phase(kind) == IF kind = "validate" THEN "merging" ELSE "promoting"
PhaseOf(x) == IF x.at = "validating" THEN "validating"
              ELSE IF x.at = "publishing" THEN "promoting" ELSE Phase(x.due.kind)

OneCarrier ==
  /\ \A f, g \in Fibres : Carries(fibre[f]) /\ Carries(fibre[g]) => f = g
  /\ \A f \in Fibres, j \in queue : Carries(fibre[f]) => j.kind = "task"
  /\ \A j, k \in queue : j.kind # "task" /\ k.kind # "task" => j = k
InPhase ==
  /\ \A f \in Fibres : Carries(fibre[f]) => integ.st = PhaseOf(fibre[f])
  /\ \A j \in queue : j.kind # "task" => integ.st = Phase(j.kind)
MergedKnown ==
  /\ \A f \in Fibres : fibre[f].at = "validating" => merged \subseteq fibre[f].eff.up
  /\ integ.st \in {"validated", "ready_to_promote", "promoting", "promoted"}
       => merged \subseteq checked
InHand == OneCarrier /\ InPhase /\ MergedKnown
IntegrationInv == "effect" \in stale \/ InHand

(* A step that has nothing to do with the integration. *)
LEMMA OtherStep ==
  ASSUME DeliveryInv, InHand, NEW f \in Fibres, NEW next \in Placed,
         Moves(f, next) \/ Emits(f, next), ~Carries(next),
         \A j \in queue' : j \in queue \/ j.kind = "task",
         integ'.st = integ.st, merged' = merged, checked' = checked
  PROVE  InHand'
<1>1. /\ fibre'[f] = next
      /\ \A g \in Fibres \ {f} : /\ fibre'[g].at = fibre[g].at /\ fibre'[g].eff = fibre[g].eff
                                 /\ fibre'[g].due = fibre[g].due
  BY MovesPlaced DEF DeliveryInv
<1>2. \A g \in Fibres : Carries(fibre'[g]) =>
        /\ Carries(fibre[g]) /\ fibre'[g].at = fibre[g].at /\ fibre'[g].eff = fibre[g].eff
        /\ fibre'[g].due = fibre[g].due
  BY <1>1 DEF Carries
<1>3. OneCarrier'
  BY <1>2 DEF InHand, OneCarrier
<1>4. InPhase'
  BY <1>2 DEF InHand, InPhase, PhaseOf
<1>5. \A g \in Fibres : fibre'[g].at = "validating" => merged' \subseteq fibre'[g].eff.up
  BY <1>2 DEF InHand, MergedKnown, Carries
<1>6. MergedKnown'
  BY <1>5 DEF InHand, MergedKnown
<1> QED
  BY <1>3, <1>4, <1>6 DEF InHand

(* Nobody else has the integration in hand. *)
Free(f) == (\A g \in Fibres \ {f} : ~Carries(fibre[g])) /\ \A j \in queue : j.kind = "task"

(* Who has the integration in hand has it alone; outside of the phases in   *)
(* which it is in hand, nobody has it.                                     *)
LEMMA InHandFree ==
  ASSUME InHand, NEW f \in Fibres
  PROVE  /\ Carries(fibre[f]) => Free(f)
         /\ integ.st \notin {"merging", "validating", "promoting"}
              => Free(f) /\ ~Carries(fibre[f])
<1>1. Carries(fibre[f]) => Free(f)
  BY DEF InHand, OneCarrier, Free
<1>2. \A kind : Phase(kind) \in {"merging", "promoting"}
  BY DEF Phase
<1>3. \A x : PhaseOf(x) \in {"merging", "validating", "promoting"}
  BY <1>2 DEF PhaseOf
<1>4. integ.st \notin {"merging", "validating", "promoting"} => Free(f) /\ ~Carries(fibre[f])
  BY <1>2, <1>3 DEF InHand, InPhase, Free
<1> QED
  BY <1>1, <1>4

(* A step of the one who has it in hand. *)
LEMMA HandStep ==
  ASSUME DeliveryInv, NEW f \in Fibres, NEW next \in Placed, Moves(f, next) \/ Emits(f, next),
         \A g \in Fibres \ {f} : ~Carries(fibre[g]), \A j \in queue' : j.kind = "task",
         Carries(next) => integ'.st = PhaseOf(next),
         next.at = "validating" => merged' \subseteq next.eff.up,
         integ'.st \in {"validated", "ready_to_promote", "promoting", "promoted"}
           => merged' \subseteq checked'
  PROVE  InHand'
<1>1. /\ fibre'[f] = next
      /\ \A g \in Fibres \ {f} : fibre'[g].at = fibre[g].at /\ fibre'[g].due = fibre[g].due
  BY MovesPlaced DEF DeliveryInv
<1>2. \A g \in Fibres : Carries(fibre'[g]) => g = f
  BY <1>1 DEF Carries
<1>3. OneCarrier'
  BY <1>2 DEF OneCarrier
<1>4. InPhase'
  BY <1>1, <1>2 DEF InPhase
<1>5. MergedKnown'
  BY <1>1, <1>2 DEF MergedKnown, Carries
<1> QED
  BY <1>3, <1>4, <1>5 DEF InHand

-----------------------------------------------------------------------------
(* Before an effect is applied. *)
LEMMA ReactInHand ==
  ASSUME DeliveryInv, InHand, NEW f \in Fibres,
         Sync(f) \/ Gate(f) \/ Plan(f) \/ Head(f) \/ HeadDispatch(f) \/ HeadSplit(f) \/ Refused(f)
  PROVE  InHand'
<1>0. fibre[f] \in Placed /\ fibre[f] \in Fibre
  BY DEF DeliveryInv, Placed
<1>1. /\ Over(f) \in Placed /\ Over(f).at \in {"sync", "idle", "check"}
      /\ Again(f) \in Placed /\ Again(f).at = "plan"
      /\ Blocking(f) \in Placed /\ Blocking(f).at = "emit"
      /\ To(f, "gate") \in Placed /\ To(f, "gate").at = "gate"
      /\ Idle \in Placed /\ Idle.at = "idle"
  <2>1. Idle.at = "idle" /\ \A job : Reacting(job).at = "sync"
    BY DEF Idle, Reacting
  <2>2. Over(f).at \in {"sync", "idle", "check"}
    BY <2>1 DEF Over, Idle
  <2>3. Again(f).at = "plan" /\ Blocking(f).at = "emit" /\ To(f, "gate").at = "gate"
    BY <1>0 DEF Again, Blocking, To, Fibre
  <2> QED
    BY <1>0, <2>1, <2>2, <2>3, NextPlaces, Small
<1> DEFINE Ats == {"idle", "sync", "check", "gate", "plan", "head", "emit"}
<1>s. ASSUME NEW next, Signals(f, next), next.at \in Ats
      PROVE  \E x : (Moves(f, x) \/ Emits(f, x)) /\ x.at \in Ats
  <2>1. Moves(f, next) \/ Emits(f, Cold(next))
    BY <1>s DEF Signals, Cold
  <2>2. Cold(next).at = next.at
    BY DEF Cold
  <2> QED
    BY <1>s, <2>1, <2>2
<1>2. PICK next : (Moves(f, next) \/ Emits(f, next)) /\ next.at \in Ats
  <2>1. CASE Sync(f)
    BY <1>1, <2>1 DEF Sync
  <2>2. CASE Gate(f)
    <3>1. [fibre[f] EXCEPT !.at = "emit", !.eff = E("policy", 0)].at = "emit"
      BY <1>0 DEF Fibre
    <3>2. [fibre[f] EXCEPT !.at = "plan", !.left = PlannerPasses].at = "plan"
      BY <1>0 DEF Fibre
    <3> QED
      BY <1>1, <2>2, <3>1, <3>2 DEF Gate
  <2>3. CASE Plan(f)
    <3> DEFINE rest == IF Planned.do = "split" THEN Unadvised ELSE Nothing
               next == [fibre[f] EXCEPT !.at = Onto(Planned), !.eff = Planned, !.left = @ - 1,
                                        !.rest = rest]
    <3>1. next.at \in {"head", "emit"}
      BY <1>0 DEF Fibre, Onto
    <3>2. Moves(f, Over(f)) \/ Moves(f, next)
      BY <2>3 DEF Plan
    <3> HIDE DEF next
    <3> QED
      BY <1>1, <3>1, <3>2
  <2>4. [To(f, "emit") EXCEPT !.fresh = TRUE].at = "emit"
    BY <1>0 DEF To, Fibre
  <2>5. CASE Head(f)
    BY <2>4, <2>5 DEF Head
  <2>6. CASE HeadDispatch(f)
    <3>1. \/ Moves(f, [To(f, "emit") EXCEPT !.fresh = TRUE]) \/ Moves(f, Idle)
          \/ Signals(f, Idle)
      BY <2>6 DEF HeadDispatch
    <3> QED
      BY <1>1, <1>s, <2>4, <3>1
  <2>7. CASE HeadSplit(f)
    <3> DEFINE rest == fibre[f].rest
               goes == [fibre[f] EXCEPT !.at = Onto(rest), !.eff = rest, !.rest = Nothing]
               splits == [To(f, "emit") EXCEPT !.fresh = TRUE, !.rest = Nothing]
    <3>1. Emits(f, Over(f)) \/ Emits(f, goes) \/ Signals(f, splits)
      BY <2>7 DEF HeadSplit
    <3>2. goes.at \in {"head", "emit"} /\ splits.at = "emit"
      BY <1>0 DEF To, Fibre, Onto
    <3> HIDE DEF goes, splits
    <3> QED
      BY <1>1, <1>s, <3>1, <3>2
  <2>8. CASE Refused(f)
    BY <1>1, <2>8 DEF Refused
  <2> QED
    BY <2>1, <2>2, <2>3, <2>5, <2>6, <2>7, <2>8
<1>3. next \in Placed
  <2>1. fibre' \in [Fibres -> Placed]
    <3>1. DeliveryInv'
      BY ReactTyped, RestTypedToo
    <3> QED
      BY <3>1 DEF DeliveryInv
  <2>2. fibre'[f] = next
    BY <1>2 DEF Moves, Emits, DeliveryInv
  <2> QED
    BY <2>1, <2>2
<1>4. ~Carries(next)
  BY <1>2 DEF Carries
<1>5. queue' \subseteq queue /\ integ' = integ /\ merged' = merged /\ checked' = checked
  BY DEF Sync, Gate, Plan, Head, HeadDispatch, HeadSplit, Refused, objective, ledger, workspace
<1> QED
  BY <1>2, <1>3, <1>4, <1>5, OtherStep

(* The planner looks at the integration before it starts on it; what is     *)
(* applied is what it would choose.                                        *)
LEMMA PlannedIntegration ==
  /\ Planned.do = "integrate" => integ.st \in {"idle", "conflicted"}
  /\ Planned.do = "promote" => integ.st = "ready_to_promote"
  /\ Planned.do = "ready" => integ.st = "validated"
<1>1. \A do, on : E(do, on).do = do /\ \A set : [E(do, on) EXCEPT !.up = set].do = do
  BY DEF E
<1>2. /\ Nothing.do = "none" /\ Prepares.do = "prepare" /\ FollowUp.do = "follow"
      /\ [E("split", advice.task) EXCEPT !.pass = advice.pass].do = "split"
  BY <1>1 DEF Nothing, Prepares, FollowUp, E
<1>3. /\ Final.do = "integrate" => integ.st \in {"idle", "conflicted"}
      /\ Final.do = "promote" => integ.st = "ready_to_promote"
      /\ Final.do = "ready" => integ.st = "validated"
  BY <1>1, <1>2 DEF Final, Checked
<1> QED
  BY <1>1, <1>2, <1>3 DEF Planned, Unadvised

(* An effect that is applied in time is the one the planner would choose.   *)
LEMMA AppliedIsPlanned ==
  ASSUME NEW f \in Fibres, Judged(f), "effect" \notin stale',
         fibre[f].eff.do \notin {"policy", "block"}
  PROVE  fibre[f].eff = Planned
BY DEF Judged, Current

(* An effect that is applied in time starts on the integration only when    *)
(* nobody has it in hand.                                                  *)
LEMMA EmitInHand ==
  ASSUME DeliveryInv, InHand, NEW f \in Fibres, Emit(f), "effect" \notin stale'
  PROVE  InHand'
<1>0. fibre[f] \in Placed /\ fibre[f] \in Fibre /\ fibre[f].job \in Job /\ DeliveryInv'
  BY EmitTyped DEF DeliveryInv, Placed, Fibre
<1>1. CASE EmitIntegrate(f) \/ EmitPromote(f)
  <2>1. PICK do \in {"integrate", "promote"}, st \in {"merging", "promoting"},
             at \in {"merge", "post"}, kind \in {"validate", "publish"} :
          /\ EmitIntegration(f, do, st, at, kind)
          /\ do = "integrate" => st = "merging" /\ at = "merge" /\ kind = "validate"
          /\ do = "promote" => st = "promoting" /\ at = "post" /\ kind = "publish"
    BY <1>1 DEF EmitIntegrate, EmitPromote
  <2> DEFINE next == [To(f, at) EXCEPT
                        !.due = J(kind, fibre[f].eff.on, tasks[fibre[f].eff.on].passes, 0)]
  <2>2. /\ fibre[f].eff.do = do /\ Judged(f) /\ Emits(f, next) /\ integ'.st = st
        /\ UNCHANGED <<queue, merged, checked>>
    BY <2>1 DEF EmitIntegration, Appends, ledger, workspace
  <2>3. /\ do = "integrate" => integ.st \in {"idle", "conflicted"}
        /\ do = "promote" => integ.st = "ready_to_promote"
    BY <2>1, <2>2, AppliedIsPlanned, PlannedIntegration
  <2>4. Free(f)
    BY <2>1, <2>3, InHandFree
  <2>5. next.at = at /\ next.due.kind = kind
    BY <1>0 DEF To, Fibre, J
  <2>6. next \in Placed
    <3>1. fibre'[f] = next
      BY <2>2 DEF Emits
    <3> QED
      BY <1>0, <3>1 DEF DeliveryInv
  <2> HIDE DEF next
  <2>7. integ'.st = PhaseOf(next)
    BY <2>1, <2>2, <2>5 DEF PhaseOf, Phase
  <2>8. st = "promoting" => merged \subseteq checked
    BY <2>1, <2>3 DEF InHand, MergedKnown
  <2>9. next.at # "validating"
    BY <2>1, <2>5
  <2> QED
    BY <2>1, <2>2, <2>4, <2>6, <2>7, <2>8, <2>9, HandStep DEF Free
<1>2. CASE EmitReady(f)
  <2>1. /\ fibre[f].eff.do = "ready" /\ Judged(f) /\ Emits(f, Again(f))
        /\ UNCHANGED <<queue, merged, checked>>
    BY <1>2 DEF EmitReady, Appends, ledger, workspace
  <2>2. integ.st = "validated"
    BY <2>1, AppliedIsPlanned, PlannedIntegration
  <2>3. Free(f) /\ merged \subseteq checked
    BY <2>2, InHandFree DEF InHand, MergedKnown
  <2>4. Again(f) \in Placed /\ Again(f).at = "plan"
    BY <1>0, NextPlaces DEF Again, Fibre
  <2>5. ~Carries(Again(f))
    BY <2>4 DEF Carries
  <2> QED
    BY <2>1, <2>3, <2>4, <2>5, HandStep DEF Free
<1>3. CASE ~(EmitIntegrate(f) \/ EmitPromote(f) \/ EmitReady(f))
  <2>1. /\ Again(f).at = "plan" /\ Over(f).at \in {"idle", "sync", "check"}
        /\ \A job : Reacting(job).at = "sync"
        /\ \A due : [To(f, "post") EXCEPT !.due = due].at = "post"
                    /\ [To(f, "post") EXCEPT !.due = due].due = due
    BY <1>0 DEF Again, Over, Reacting, Idle, To, Fibre
  <2>2. UNCHANGED <<queue, integ, merged, checked>>
    BY <1>3 DEF Emit, EmitAdd, EmitFollow, EmitSplit, EmitPrepare, EmitDispatch, EmitComplete,
                EmitBlock, EmitNext, ledger, workspace
  <2>3. PICK next : Emits(f, next) /\ ~Carries(next)
    <3>1. CASE EmitDispatch(f)
      <4>1. PICK t, pass, run : Emits(f, [To(f, "post") EXCEPT !.due = J("task", t, pass, run)])
        BY <3>1 DEF EmitDispatch
      <4>2. J("task", t, pass, run).kind = "task"
        BY DEF J
      <4>3. ~Carries([To(f, "post") EXCEPT !.due = J("task", t, pass, run)])
        BY <2>1, <4>2 DEF Carries
      <4> QED
        BY <4>1, <4>3
    <3>2. CASE ~EmitDispatch(f)
      <4>1. \/ Emits(f, Again(f)) \/ Emits(f, Over(f)) \/ Emits(f, Reacting(fibre[f].job))
        BY <1>3, <3>2 DEF Emit, EmitAdd, EmitFollow, EmitSplit, EmitPrepare, EmitComplete,
                         EmitBlock, EmitNext
      <4>2. ~Carries(Again(f)) /\ ~Carries(Over(f)) /\ ~Carries(Reacting(fibre[f].job))
        BY <2>1 DEF Carries
      <4> QED
        BY <4>1, <4>2
    <3> QED
      BY <3>1, <3>2
  <2>4. next \in Placed
    <3>1. fibre'[f] = next
      BY <2>3 DEF Emits
    <3> QED
      BY <1>0, <3>1 DEF DeliveryInv
  <2> QED
    BY <2>2, <2>3, <2>4, OtherStep
<1> QED
  BY <1>1, <1>2, <1>3

(* The job of an effect is enqueued, and the merge. *)
LEMMA PostInHand ==
  ASSUME DeliveryInv, InHand, NEW f \in Fibres, Post(f) PROVE InHand'
<1> DEFINE due == fibre[f].due
<1>0. /\ fibre[f] \in Placed /\ fibre[f] \in Fibre /\ fibre[f].at = "post" /\ Moves(f, Again(f))
      /\ due.kind \in Posts
      /\ (queue' = queue \/ queue' = queue \cup {due})
      /\ integ' = integ /\ merged' = merged /\ checked' = checked
  BY DEF DeliveryInv, Placed, Post, InPlace, TaskJob, objective, workspace
<1>1. Again(f) \in Placed /\ Again(f).at = "plan"
  BY <1>0, NextPlaces DEF Again, Fibre
<1>2. ~Carries(Again(f))
  BY <1>1 DEF Carries
<1>3. CASE due.kind = "task" \/ queue' = queue
  BY <1>0, <1>1, <1>2, <1>3, OtherStep
<1>4. CASE due.kind # "task" /\ queue' = queue \cup {due}
  <2>1. Carries(fibre[f]) /\ Free(f) /\ integ.st = Phase(due.kind)
    BY <1>0, <1>4, InHandFree DEF Carries, InHand, InPhase, PhaseOf
  <2>2. \A g \in Fibres : ~Carries(fibre'[g])
    <3>1. /\ fibre'[f] = Again(f)
          /\ \A g \in Fibres \ {f} : fibre'[g].at = fibre[g].at /\ fibre'[g].due = fibre[g].due
      BY <1>0, <1>1, MovesPlaced DEF DeliveryInv
    <3> QED
      BY <1>2, <2>1, <3>1 DEF Free, Carries
  <2>3. \A j \in queue' : j.kind # "task" => j = due
    BY <1>4, <2>1 DEF Free
  <2>4. OneCarrier' /\ InPhase'
    BY <1>0, <2>1, <2>2, <2>3 DEF OneCarrier, InPhase
  <2>5. MergedKnown'
    BY <1>0, <2>2 DEF InHand, MergedKnown, Carries
  <2> QED
    BY <2>4, <2>5 DEF InHand
<1> QED
  BY <1>0, <1>3, <1>4

(* A merge, its end, a conflict and a transient error leave it in at most   *)
(* one hand.                                                               *)
LEMMA MergeInHand ==
  ASSUME DeliveryInv, InHand, NEW f \in Fibres, Merge(f) \/ EmitIntegrated(f) \/ MergeFails(f)
  PROVE  InHand'
<1>0. /\ fibre[f] \in Placed /\ fibre[f] \in Fibre /\ fibre[f].at \in {"merge", "merged", "post"}
      /\ fibre[f].due.kind = "validate" /\ fibre[f].job \in Job
      /\ queue' = queue /\ checked' = checked
  BY DEF DeliveryInv, Placed, Merge, EmitIntegrated, MergeFails, ledger, workspace, InPlace, Fibre
<1>1. Free(f) /\ integ.st = "merging"
  BY <1>0, InHandFree DEF Carries, InHand, InPhase, PhaseOf, Phase
<1>2. ASSUME NEW at \in {"merged", "post"}, Emits(f, To(f, at)), integ' = integ
      PROVE  InHand'
  <2>1. To(f, at).at = at /\ To(f, at).due = fibre[f].due
    BY <1>0 DEF To, Fibre
  <2>2. To(f, at) \in Placed
    <3>1. fibre'[f] = To(f, at)
      BY <1>2 DEF Emits
    <3>2. DeliveryInv'
      BY RestTypedToo
    <3> QED
      BY <3>1, <3>2 DEF DeliveryInv
  <2>3. PhaseOf(To(f, at)) = "merging"
    BY <1>0, <2>1 DEF PhaseOf, Phase
  <2> QED
    BY <1>0, <1>1, <1>2, <2>1, <2>2, <2>3, HandStep DEF Free
<1>3. CASE Emits(f, Reacting(fibre[f].job)) /\ integ'.st = "conflicted"
  <2>1. Reacting(fibre[f].job) \in Placed /\ Reacting(fibre[f].job).at = "sync"
    BY <1>0, NextPlaces
  <2>2. ~Carries(Reacting(fibre[f].job))
    BY <2>1 DEF Carries
  <2> QED
    BY <1>0, <1>1, <1>3, <2>1, <2>2, HandStep DEF Free
<1>4. CASE Emits(f, Again(f)) /\ integ' = integ
  <2>1. Again(f) \in Placed /\ Again(f).at = "plan"
    BY <1>0, NextPlaces DEF Again, Fibre
  <2>2. ~Carries(Again(f))
    BY <2>1 DEF Carries
  <2> QED
    BY <1>0, <1>1, <1>4, <2>1, <2>2, HandStep DEF Free
<1>5. \/ (\E at \in {"merged", "post"} : Emits(f, To(f, at))) /\ integ' = integ
      \/ Emits(f, Reacting(fibre[f].job)) /\ integ'.st = "conflicted"
      \/ Emits(f, Again(f)) /\ integ' = integ
  BY DEF Merge, EmitIntegrated, MergeFails
<1> QED
  BY <1>2, <1>3, <1>4, <1>5

(* The jobs. *)
LEMMA TakeInHand ==
  ASSUME DeliveryInv, InHand, NEW f \in Fibres, Take(f) PROVE InHand'
<1>1. PICK j \in queue :
        /\ queue' = queue \ {j}
        /\ \/ /\ j.kind = "task"
              /\ Moves(f, [Idle EXCEPT !.at = "run", !.job = j])
              /\ UNCHANGED <<integ, status>>
           \/ /\ j.kind = "validate"
              /\ integ' = [st |-> "validating", on |-> [task |-> j.task, pass |-> j.pass]]
              /\ status' = "live"
              /\ Emits(f, [Idle EXCEPT !.at = "validating", !.job = j,
                                       !.eff = [Nothing EXCEPT !.up = merged]])
           \/ /\ j.kind = "publish"
              /\ Moves(f, IF Terminal THEN Idle
                          ELSE [Idle EXCEPT !.at = "publishing", !.job = j])
              /\ UNCHANGED <<integ, status>>
  BY DEF Take
<1>2. fibre[f].at = "idle" /\ merged' = merged /\ checked' = checked
  BY DEF Take, workspace
<1>3. DeliveryInv'
  BY WorkTyped DEF Work
<1>4. CASE j.kind = "task"
  <2> DEFINE next == [Idle EXCEPT !.at = "run", !.job = j]
  <2>1. next.at = "run" /\ Moves(f, next) /\ integ' = integ
    BY <1>1, <1>4 DEF Idle
  <2>2. next \in Placed
    <3>1. fibre'[f] = next
      BY <2>1 DEF Moves, DeliveryInv
    <3> QED
      BY <1>3, <3>1 DEF DeliveryInv
  <2> HIDE DEF next
  <2>3. ~Carries(next)
    BY <2>1 DEF Carries
  <2> QED
    BY <1>1, <1>2, <2>1, <2>2, <2>3, OtherStep
<1>5. ASSUME j.kind # "task"
      PROVE  /\ \A g \in Fibres : ~Carries(fibre[g])
             /\ \A k \in queue' : k.kind = "task"
             /\ integ.st = Phase(j.kind)
  BY <1>1, <1>5 DEF InHand, OneCarrier, InPhase
<1>6. CASE j.kind = "validate"
  <2> DEFINE next == [Idle EXCEPT !.at = "validating", !.job = j,
                                  !.eff = [Nothing EXCEPT !.up = merged]]
  <2>1. /\ next.at = "validating" /\ next.eff.up = merged /\ Emits(f, next)
        /\ integ'.st = "validating"
    BY <1>1, <1>6 DEF Idle, Nothing, E
  <2>2. next \in Placed
    <3>1. fibre'[f] = next
      BY <2>1 DEF Emits
    <3> QED
      BY <1>3, <3>1 DEF DeliveryInv
  <2> HIDE DEF next
  <2>3. PhaseOf(next) = "validating"
    BY <2>1 DEF PhaseOf
  <2> QED
    BY <1>2, <1>5, <1>6, <2>1, <2>2, <2>3, HandStep
<1>7. CASE j.kind = "publish"
  <2>1. integ.st = "promoting" /\ integ' = integ /\ merged \subseteq checked
    BY <1>1, <1>5, <1>7 DEF Phase, InHand, MergedKnown
  <2>2. PICK next \in {Idle, [Idle EXCEPT !.at = "publishing", !.job = j]} : Moves(f, next)
    BY <1>1, <1>7
  <2>3. next.at \in {"idle", "publishing"}
    <3>1. Idle.at = "idle" /\ [Idle EXCEPT !.at = "publishing", !.job = j].at = "publishing"
      BY DEF Idle
    <3> QED
      BY <2>2, <3>1
  <2>4. next \in Placed
    <3>1. fibre'[f] = next
      BY <2>2 DEF Moves, DeliveryInv
    <3> QED
      BY <1>3, <3>1 DEF DeliveryInv
  <2>5. Carries(next) => PhaseOf(next) = "promoting"
    BY <2>3 DEF Carries, PhaseOf
  <2> QED
    BY <1>2, <1>5, <1>7, <2>1, <2>2, <2>3, <2>4, <2>5, HandStep
<1> QED
  BY <1>1, <1>4, <1>6, <1>7

(* The jobs of a worker hand it on, or are done with it.                    *)
LEMMA WorkInHand ==
  ASSUME DeliveryInv, InHand, NEW f \in Fibres, Work(f) PROVE InHand'
<1>0. /\ fibre[f] \in Placed /\ fibre[f] \in Fibre /\ fibre[f].job \in Job /\ NoJob \in Job
      /\ Idle \in Placed /\ Idle.at = "idle"
  BY Small DEF DeliveryInv, Placed, Fibre
<1>1. \A job \in Job : Reacting(job) \in Placed /\ ~Carries(Reacting(job))
  BY <1>0, NextPlaces DEF Carries
<1>2. ~Carries(Idle)
  BY <1>0 DEF Carries
<1>3. CASE Result(f) \/ Abort(f) \/ Cancel(f)
  <2>1. PICK next \in Placed : (Moves(f, next) \/ Emits(f, next)) /\ ~Carries(next)
    BY <1>0, <1>1, <1>2, <1>3 DEF Result, Abort, Cancel
  <2>2. UNCHANGED <<queue, integ, merged, checked>>
    BY <1>3 DEF Result, Abort, Cancel, objective, ledger, workspace
  <2> QED
    BY <2>1, <2>2, OtherStep
<1>c. CASE Control(f) \/ Pass(f) \/ Check(f) \/ EndControl(f)
  <2> DEFINE starts == [Idle EXCEPT !.at = "pass", !.job = J("control", 0, 1, 0)]
             again == [To(f, "pass") EXCEPT !.job = J("control", 0, 2, 0)]
  <2>1. PICK next \in {starts, again, To(f, "end"), Idle, Reacting(fibre[f].job)} :
          Moves(f, next) \/ Emits(f, next)
    BY <1>c DEF Control, Pass, Check, EndControl, Retires
  <2>2. next.at \in {"pass", "end", "idle", "sync"}
    BY <1>0, <2>1 DEF Idle, Reacting, To, Fibre
  <2>3. fibre'[f] = next
    BY <2>1 DEF Moves, Emits, DeliveryInv
  <2>4. next \in Placed
    <3>1. DeliveryInv'
      BY <1>c, WorkTyped DEF Work
    <3> QED
      BY <2>3, <3>1 DEF DeliveryInv
  <2>5. queue' \subseteq queue /\ UNCHANGED <<integ, merged, checked>>
    BY <1>c DEF Control, Pass, Check, EndControl, Retires, objective, ledger, workspace
  <2> QED
    BY <2>1, <2>2, <2>4, <2>5, OtherStep DEF Carries
<1>4. CASE Take(f)
  BY <1>4, TakeInHand
<1>5. CASE Validated(f)
  <2>1. Free(f) /\ merged \subseteq fibre[f].eff.up
    BY <1>5, InHandFree DEF Validated, Carries, InHand, MergedKnown
  <2>2. UNCHANGED <<queue, merged>>
    BY <1>5 DEF Validated, ledger, workspace
  <2>3. \/ integ'.st = "conflicted"
        \/ integ'.st = "validated" /\ checked' = checked \cup fibre[f].eff.up
    BY <1>5 DEF Validated
  <2>4. PICK job \in Job : Emits(f, Reacting(job))
    BY <1>0, <1>5 DEF Validated
  <2>5. Reacting(job).at = "sync"
    BY DEF Reacting, Idle
  <2> QED
    BY <1>1, <2>1, <2>2, <2>3, <2>4, <2>5, HandStep DEF Free
<1>6. CASE Published(f)
  <2>1. Free(f) /\ integ.st = "promoting" /\ merged \subseteq checked
    BY <1>6, InHandFree DEF Published, Carries, InHand, InPhase, PhaseOf, MergedKnown
  <2>2. UNCHANGED <<queue, merged, checked>> /\ Emits(f, Reacting(NoJob))
    BY <1>6 DEF Published, workspace
  <2>3. Reacting(NoJob).at = "sync"
    BY DEF Reacting, Idle
  <2> QED
    BY <1>0, <1>1, <2>1, <2>2, <2>3, HandStep DEF Free
<1> QED
  BY <1>3, <1>c, <1>4, <1>5, <1>6 DEF Work

(* Requests, failures, advice and a crash. *)
LEMMA OutsideInHand ==
  ASSUME DeliveryInv, InHand, Outside PROVE InHand'
<1>1. ASSUME NEW f \in Fibres, Note(f) \/ CancelJobs(f) \/ Fails(f) PROVE InHand'
  <2>0. /\ fibre[f] \in Placed /\ fibre[f] \in Fibre /\ NoJob \in Job
        /\ Idle \in Placed /\ Idle.at = "idle"
    BY Small DEF DeliveryInv, Placed, Fibre
  <2>1. /\ Reacting(NoJob) \in Placed /\ Reacting(NoJob).at = "sync"
        /\ To(f, "cancel") \in Placed /\ To(f, "cancel").at = "cancel"
    BY <2>0, NextPlaces DEF To, Fibre
  <2>2. ~Carries(Idle) /\ ~Carries(Reacting(NoJob)) /\ ~Carries(To(f, "cancel"))
    BY <2>0, <2>1 DEF Carries
  <2>3. PICK next \in Placed : (Moves(f, next) \/ Emits(f, next)) /\ ~Carries(next)
    <3>1. Cold(Idle) \in Placed /\ ~Carries(Cold(Idle))
      BY <2>0, <2>2, ColdPlaced DEF Carries
    <3>2. Signals(f, Idle) => Moves(f, Idle) \/ Emits(f, Cold(Idle))
      BY DEF Signals, Cold
    <3> QED
      BY <1>1, <2>0, <2>1, <2>2, <3>1, <3>2 DEF Note, CancelJobs, Fails
  <2>4. UNCHANGED <<integ, merged, checked>>
    BY <1>1 DEF Note, CancelJobs, Fails, objective, workspace
  <2>5. fibre[f].at = "run" => fibre[f].job.kind = "task"
    BY <2>0 DEF Placed, InPlace
  <2>6. \A j \in queue' : j \in queue \/ j.kind = "task"
    BY <1>1, <2>5 DEF Note, CancelJobs, Fails, ledger
  <2> QED
    BY <2>3, <2>4, <2>6, OtherStep
<1>2. ASSUME NEW t \in Tasks, Advise(t) PROVE InHand'
  <2>1. \A g \in Fibres : fibre[g] \in Fibre
    BY DEF DeliveryInv, Placed
  <2>2. \A g \in Fibres : /\ fibre'[g].at = fibre[g].at /\ fibre'[g].due = fibre[g].due
                          /\ fibre'[g].eff = fibre[g].eff
    BY <1>2, <2>1 DEF Advise, Fibre
  <2>3. UNCHANGED <<queue, integ, merged, checked>>
    BY <1>2 DEF Advise, workspace
  <2>4. \A g \in Fibres : Carries(fibre'[g]) <=> Carries(fibre[g])
    BY <2>2 DEF Carries
  <2> QED
    BY <2>2, <2>3, <2>4 DEF InHand, OneCarrier, InPhase, MergedKnown, PhaseOf
<1>3. CASE Crash
  <2>1. \A g \in Fibres : fibre'[g].at \in {"idle", "sync"} /\ ~Carries(fibre'[g])
    <3>1. Reacting(NoJob).at = "sync" /\ Idle.at = "idle"
      BY DEF Reacting, Idle
    <3> QED
      BY <1>3, <3>1 DEF Crash, Carries
  <2>2. UNCHANGED <<integ, merged, checked>>
    BY <1>3 DEF Crash, objective, workspace
  <2>3. \A j \in queue' : j \in queue \/ j.kind = "task"
    <3>1. \A g \in Fibres : fibre[g].at = "run" => fibre[g].job.kind = "task"
      BY DEF DeliveryInv, Placed, InPlace
    <3> QED
      BY <1>3, <3>1 DEF Crash
  <2> QED
    BY <2>1, <2>2, <2>3 DEF InHand, OneCarrier, InPhase, MergedKnown
<1> QED
  BY <1>1, <1>2, <1>3 DEF Outside

(* What counts as too late stays so. *)
LEMMA LateStays == ASSUME [DeliveryNext]_vars PROVE stale \subseteq stale'
<1>1. CASE UNCHANGED vars
  BY <1>1 DEF vars
<1>2. ASSUME NEW f \in Fibres, React(f) PROVE stale \subseteq stale'
  BY <1>2 DEF React, Emit, Sync, Gate, Plan, Head, HeadDispatch, HeadSplit, EmitAdd, EmitFollow,
              EmitSplit, EmitPrepare, EmitDispatch, EmitIntegrate, EmitPromote, EmitIntegration,
              EmitReady, EmitComplete, EmitBlock, EmitNext, Judged, Refused, Post, Merge,
              EmitIntegrated, MergeFails
<1>3. ASSUME NEW f \in Fibres, Work(f) PROVE stale \subseteq stale'
  BY <1>3 DEF Work, Control, Pass, Check, EndControl, Take, Result, Abort, Validated, Published,
              Cancel
<1>4. CASE Outside
  BY <1>4 DEF Outside, Note, CancelJobs, Fails, Advise, Crash
<1> QED
  BY <1>1, <1>2, <1>3, <1>4 DEF DeliveryNext, Inside

(* What is promoted was checked (runIntegrationValidation, gatePromotion),  *)
(* for any number of fibres that react at once, until an effect is applied *)
(* that the planner would no longer choose.                                *)
THEOREM PromotionsAreChecked == DeliverySpec => []PromotedIsChecked
<1>1. DeliveryInit => IntegrationInv
  BY Small DEF DeliveryInit, IntegrationInv, InHand, OneCarrier, InPhase, MergedKnown, Carries
<1>2. DeliveryInv /\ IntegrationInv /\ [DeliveryNext]_vars => IntegrationInv'
  <2> SUFFICES ASSUME DeliveryInv, IntegrationInv, [DeliveryNext]_vars, "effect" \notin stale'
               PROVE  InHand'
    BY DEF IntegrationInv
  <2>1. InHand
    BY LateStays DEF IntegrationInv
  <2>2. CASE UNCHANGED vars
    BY <2>1, <2>2 DEF vars, objective, ledger, workspace, InHand, OneCarrier, InPhase, MergedKnown
  <2>3. CASE Inside
    BY <2>1, <2>3, ReactInHand, EmitInHand, PostInHand, MergeInHand, WorkInHand
       DEF Inside, React
  <2>4. CASE Outside
    BY <2>1, <2>4, OutsideInHand
  <2> QED
    BY <2>2, <2>3, <2>4 DEF DeliveryNext
<1>3. IntegrationInv => PromotedIsChecked
  BY DEF IntegrationInv, InHand, MergedKnown, PromotedIsChecked
<1> QED
  BY <1>1, <1>2, <1>3, DeliveryInvariant, PTL DEF DeliverySpec

-----------------------------------------------------------------------------
(* The labels of jobs.  A run belongs to one task and is in the hands of    *)
(* one fibre, or queued.                                                   *)
Blank(j) == j.kind # "task" /\ j.run = 0
Labelled(j) ==
  /\ j.run <= runs
  /\ j.kind # "task" => j.run = 0
  /\ j.kind = "task" => \A t \in Tasks : tasks[t].run = j.run => t = j.task
Settled(x) ==
  /\ x.due # NoJob => x.at \in {"post", "merge", "merged"}
  /\ x.at \in {"idle", "cancel"} => x.job = NoJob
Labels ==
  /\ \A t \in Tasks : tasks[t].run <= runs
  /\ \A j \in queue : Labelled(j)
  /\ \A f \in Fibres : Labelled(fibre[f].job) /\ Labelled(fibre[f].due) /\ Settled(fibre[f])
  /\ \A j \in posted : j.kind # "task"

TaskJobs == {j \in queue : j.kind = "task"}
Tokens(x) == IF x.at = "run" THEN {x.job}
             ELSE IF x.at = "post" THEN {j \in {x.due} : j.kind = "task"} ELSE {}
InOneHand ==
  /\ \A j, k \in TaskJobs : j.run = k.run => j = k
  /\ \A f \in Fibres : \A j \in Tokens(fibre[f]), k \in TaskJobs : k.run # j.run
  /\ \A f, g \in Fibres : \A j \in Tokens(fibre[f]), k \in Tokens(fibre[g]) :
       j.run = k.run => f = g
LabelInv == Labels /\ InOneHand

(* An active task has a run under way, unless a react was cut off; a fibre  *)
(* that reacts to a result has taken the task out of the active ones.      *)
Reported(x) ==
  x.job.kind = "task" /\ x.at # "run" /\ x.job.task \in active
    => tasks[x.job.task].run # x.job.run
Works(r) == /\ r # 0
            /\ \/ \E j \in queue : j.run = r
               \/ \E f \in Fibres : fibre[f].job.run = r \/ fibre[f].due.run = r
SeenInv ==
  /\ \A f \in Fibres : Reported(fibre[f])
  /\ cut \/ \A t \in active : tasks[t].run \in failed \/ Works(tasks[t].run)

(* Until something is applied too late, a job that was not canceled has its *)
(* task waiting for it; an active task is running, one whose candidate is  *)
(* merged is done, one about to be split has lost its run.                 *)
Waits(j) == j.run \in failed \/ (j.task \in active /\ tasks[j.task].run = j.run)
Lost(x) == x.at = "emit" /\ x.eff.do = "split" /\ x.fresh
             => tasks[x.eff.on].run \in failed /\ tasks[x.eff.on].st = "running"
AwaitedInv ==
  /\ \A j \in TaskJobs : Waits(j)
  /\ \A f \in Fibres : \A j \in Tokens(fibre[f]) : Waits(j)
  /\ \A t \in active : tasks[t].st = "running"
  /\ \A f \in Fibres : fibre[f].at \in {"merge", "merged"} => tasks[fibre[f].due.task].st \in Done
  /\ \A f \in Fibres : Lost(fibre[f])

RunsInv == LabelInv /\ SeenInv /\ (stale = {} => AwaitedInv)

-----------------------------------------------------------------------------
(* A step that moves no job of a task: queued ones may be canceled, and a   *)
(* fibre that has reported its result may drop its job.                    *)
Plain(f, next) ==
  /\ next \in Placed /\ (Moves(f, next) \/ Emits(f, next))
  /\ fibre[f].at # "run" /\ next.at # "run"
  /\ fibre[f].at = "post" => Blank(fibre[f].due)
  /\ next.job = fibre[f].job \/ Blank(next.job)
  /\ Blank(next.due) /\ Settled(next)
  /\ queue' \subseteq queue /\ posted' = posted
  /\ \A j \in queue \ queue' : j.run \in failed' \cup {0}
  /\ failed \subseteq failed' /\ runs' = runs /\ active' \subseteq active
  /\ \A t \in Tasks : tasks'[t].run = tasks[t].run
  /\ cut => cut'

(* The state it moves to is of this kind. *)
Fits(f, next) ==
  /\ next.at \notin {"post", "run", "merge", "merged"}
  /\ next.job = fibre[f].job \/ Blank(next.job)
  /\ next.due = fibre[f].due \/ next.due = NoJob
  /\ next.at \in {"idle", "cancel"} => next.job = NoJob

(* The jobs that are not of a task. *)
LEMMA BlankJobs ==
  /\ Blank(NoJob) /\ \A pass : Blank(J("control", 0, pass, 0))
  /\ \A t, pass : Blank(J("validate", t, pass, 0)) /\ Blank(J("publish", t, pass, 0))
BY DEF Blank, NoJob, J

(* The jobs of the states a fibre moves to. *)
LEMMA NextJobs ==
  ASSUME DeliveryInv, NEW f \in Fibres
  PROVE  /\ \A job : Reacting(job).at = "sync" /\ Reacting(job).job = job /\ Reacting(job).due = NoJob
         /\ Idle.at = "idle" /\ Idle.job = NoJob /\ Idle.due = NoJob
         /\ Over(f).at \in {"sync", "idle", "check"} /\ Over(f).due = NoJob
         /\ Over(f).job = IF Over(f).at = "check" THEN fibre[f].job ELSE NoJob
         /\ Again(f).at = "plan" /\ Again(f).job = fibre[f].job /\ Again(f).due = NoJob
         /\ Blocking(f).at = "emit" /\ Blocking(f).job = fibre[f].job
         /\ Blocking(f).due = fibre[f].due /\ Blocking(f).eff.do = "block"
         /\ \A at : /\ To(f, at).at = at /\ To(f, at).job = fibre[f].job
                    /\ To(f, at).due = fibre[f].due /\ To(f, at).eff = fibre[f].eff
<1>0. fibre[f] \in Fibre
  BY DEF DeliveryInv, Placed
<1>1. \A job : Reacting(job).at = "sync" /\ Reacting(job).job = job /\ Reacting(job).due = NoJob
  BY DEF Reacting, Idle
<1>2. Idle.at = "idle" /\ Idle.job = NoJob /\ Idle.due = NoJob
  BY DEF Idle
<1>3. /\ Over(f).at \in {"sync", "idle", "check"} /\ Over(f).due = NoJob
      /\ Over(f).job = IF Over(f).at = "check" THEN fibre[f].job ELSE NoJob
  <2> DEFINE ends == [Idle EXCEPT !.at = "check", !.job = fibre[f].job]
  <2>1. ends.at = "check" /\ ends.job = fibre[f].job /\ ends.due = NoJob
    BY DEF Idle
  <2>2. Over(f) = Reacting(NoJob) \/ Over(f) = ends \/ Over(f) = Idle
    BY DEF Over
  <2> HIDE DEF ends
  <2> QED
    BY <1>1, <1>2, <2>1, <2>2
<1>4. Again(f).at = "plan" /\ Again(f).job = fibre[f].job /\ Again(f).due = NoJob
  BY <1>0 DEF Again, Fibre
<1>5. /\ Blocking(f).at = "emit" /\ Blocking(f).job = fibre[f].job
      /\ Blocking(f).due = fibre[f].due /\ Blocking(f).eff.do = "block"
  BY <1>0 DEF Blocking, Fibre, E
<1>6. \A at : /\ To(f, at).at = at /\ To(f, at).job = fibre[f].job
              /\ To(f, at).due = fibre[f].due /\ To(f, at).eff = fibre[f].eff
  BY <1>0 DEF To, Fibre
<1> QED
  BY <1>1, <1>2, <1>3, <1>4, <1>5, <1>6

(* What has no event and changes no task. *)
LEMMA PlainMove ==
  ASSUME DeliveryInv, Labels, DeliveryInv', NEW f \in Fibres, NEW next,
         Moves(f, next) \/ Emits(f, next),
         fibre[f].at \notin {"post", "run", "merge", "merged"}, Fits(f, next),
         queue' \subseteq queue, posted' = posted,
         \A j \in queue \ queue' : j.run \in failed' \cup {0},
         failed \subseteq failed', runs' = runs, active' \subseteq active,
         \A t \in Tasks : tasks'[t].run = tasks[t].run, cut => cut'
  PROVE  Plain(f, next)
<1>1. fibre'[f] = next
  BY DEF Moves, Emits, DeliveryInv
<1>2. next \in Placed
  BY <1>1 DEF DeliveryInv
<1>3. fibre[f].due = NoJob
  BY DEF Labels, Settled
<1>4. next.due = NoJob /\ Blank(next.due) /\ Settled(next)
  BY <1>3, BlankJobs DEF Settled, Fits
<1> QED
  BY <1>2, <1>4 DEF Plain, Fits

(* The steps of the reactor before an effect is applied are of this kind.    *)
LEMMA PlainReact ==
  ASSUME DeliveryInv, Labels, NEW f \in Fibres,
         Sync(f) \/ Gate(f) \/ Plan(f) \/ Head(f) \/ HeadDispatch(f) \/ HeadSplit(f) \/ Refused(f)
  PROVE  \E next : Plain(f, next)
<1>0. fibre[f] \in Fibre /\ Idle \in Fibre /\ DeliveryInv' /\ Blank(NoJob)
  BY ReactTyped, RestTypedToo, BlankJobs, Small DEF DeliveryInv, Placed
<1>n. /\ Fits(f, Over(f)) /\ Fits(f, Again(f)) /\ Fits(f, Blocking(f)) /\ Fits(f, Idle)
      /\ Fits(f, To(f, "gate"))
  BY <1>0, NextJobs DEF Fits
<1>h. Fits(f, [To(f, "emit") EXCEPT !.fresh = TRUE])
  BY <1>0 DEF To, Fibre, Fits
<1>s. ASSUME NEW next \in Fibre, Fits(f, next), Signals(f, next)
      PROVE  \E x : (Moves(f, x) \/ Emits(f, x)) /\ Fits(f, x)
  <2>1. Moves(f, next) \/ Emits(f, Cold(next))
    BY <1>s DEF Signals, Cold
  <2>2. Fits(f, Cold(next))
    BY <1>s DEF Fits, Cold, Fibre
  <2> QED
    BY <1>s, <2>1, <2>2
<1>1. PICK next : (Moves(f, next) \/ Emits(f, next)) /\ Fits(f, next)
  <2>1. CASE Sync(f)
    BY <1>n, <2>1 DEF Sync
  <2>2. CASE Gate(f)
    <3>1. Fits(f, [fibre[f] EXCEPT !.at = "emit", !.eff = E("policy", 0)])
      BY <1>0 DEF Fibre, Fits
    <3>2. Fits(f, [fibre[f] EXCEPT !.at = "plan", !.left = PlannerPasses])
      BY <1>0 DEF Fibre, Fits
    <3> QED
      BY <1>n, <2>2, <3>1, <3>2 DEF Gate
  <2>3. CASE Plan(f)
    <3> DEFINE at == Onto(Planned)
               rest == IF Planned.do = "split" THEN Unadvised ELSE Nothing
               next == [fibre[f] EXCEPT !.at = at, !.eff = Planned, !.left = @ - 1,
                                        !.rest = rest]
    <3>0. at \in {"head", "emit"}
      BY DEF Onto
    <3> HIDE DEF at
    <3>1. Fits(f, next)
      BY <1>0, <3>0 DEF Fibre, Fits
    <3>2. Moves(f, Over(f)) \/ Moves(f, next)
      BY <2>3 DEF Plan, at
    <3> HIDE DEF next
    <3> QED
      BY <1>n, <3>1, <3>2
  <2>4. CASE Head(f)
    BY <1>h, <2>4 DEF Head
  <2>5. CASE HeadDispatch(f)
    <3>1. CASE Signals(f, Idle)
      BY <1>0, <1>n, <1>s, <3>1
    <3>2. CASE Moves(f, Idle) \/ Moves(f, [To(f, "emit") EXCEPT !.fresh = TRUE])
      BY <1>h, <1>n, <3>2
    <3> QED
      BY <2>5, <3>1, <3>2 DEF HeadDispatch
  <2>6. CASE HeadSplit(f)
    <3> DEFINE rest == fibre[f].rest
               goes == [fibre[f] EXCEPT !.at = Onto(rest), !.eff = rest, !.rest = Nothing]
               splits == [To(f, "emit") EXCEPT !.fresh = TRUE, !.rest = Nothing]
    <3>1. CASE Signals(f, splits)
      <4>1. splits \in Fibre /\ Fits(f, splits)
        BY <1>0, Small DEF To, Fibre, Fits, Places
      <4> QED
        BY <1>s, <3>1, <4>1
    <3>2. CASE Emits(f, goes)
      <4>1. Onto(rest) \in {"head", "emit"}
        BY DEF Onto
      <4>2. Fits(f, goes)
        BY <1>0, <4>1 DEF Fibre, Fits
      <4> QED
        BY <3>2, <4>2
    <3>3. CASE Emits(f, Over(f))
      BY <1>n, <3>3
    <3> QED
      BY <2>6, <3>1, <3>2, <3>3 DEF HeadSplit
  <2>7. CASE Refused(f)
    BY <1>n, <2>7 DEF Refused
  <2> QED
    BY <2>1, <2>2, <2>3, <2>4, <2>5, <2>6, <2>7
<1>2. fibre[f].at \notin {"post", "run", "merge", "merged"} /\ posted' = posted
  BY DEF Sync, Gate, Plan, Head, HeadDispatch, HeadSplit, Refused, ledger
<1>3. runs' = runs /\ active' \subseteq active
  <2>1. CASE Sync(f)
    BY <2>1 DEF Sync
  <2>2. CASE ~Sync(f)
    BY <2>2 DEF Gate, Plan, Head, HeadDispatch, HeadSplit, Refused, objective
  <2> QED
    BY <2>1, <2>2
<1>c. cut => cut'
  <2>1. CASE Plan(f)
    BY <2>1, Zenon DEF Plan
  <2>2. CASE ~Plan(f)
    BY <2>2 DEF Sync, Gate, Head, HeadDispatch, HeadSplit, Refused
  <2> QED
    BY <2>1, <2>2
<1>4. \A t \in Tasks : tasks'[t].run = tasks[t].run
  <2>1. CASE Sync(f) /\ ~Terminal
    <3>0. \A t \in Tasks : tasks[t] \in TaskRecord
      BY DEF DeliveryInv, ObjectiveTyped
    <3>1. \A t \in Tasks : Block(t, "blocked").run = tasks[t].run
      BY <3>0 DEF Block, TaskRecord
    <3> QED
      BY <2>1, <3>1 DEF Sync
  <2>2. CASE ~(Sync(f) /\ ~Terminal)
    <3>1. tasks' = tasks
      BY <2>2 DEF Sync, Gate, Plan, Head, HeadDispatch, HeadSplit, Refused, objective
    <3> QED
      BY <3>1
  <2> QED
    BY <2>1, <2>2
<1>5. /\ queue' \subseteq queue /\ failed \subseteq failed'
      /\ \A j \in queue \ queue' : j.run \in failed' \cup {0}
  <2>1. CASE HeadDispatch(f)
    BY <2>1 DEF HeadDispatch
  <2>2. CASE HeadSplit(f)
    BY <2>2 DEF HeadSplit
  <2>3. CASE Sync(f) \/ Gate(f) \/ Plan(f) \/ Head(f) \/ Refused(f)
    BY <2>3 DEF Sync, Gate, Plan, Head, Refused, ledger
  <2> QED
    BY <2>1, <2>2, <2>3
<1> QED
  BY <1>0, <1>1, <1>2, <1>3, <1>c, <1>4, <1>5, PlainMove

(* An event never changes the run of a task, but for a dispatch. *)
LEMMA RunKept ==
  ASSUME ObjectiveTyped, NEW t \in Tasks
  PROVE  /\ \A st : /\ Block(t, st).run = tasks[t].run
                    /\ [tasks[t] EXCEPT !.st = st].run = tasks[t].run
         /\ \A set, st : Becomes(set, st)[t].run = tasks[t].run
<1>0. tasks[t] \in TaskRecord
  BY DEF ObjectiveTyped
<1>1. \A st : Block(t, st).run = tasks[t].run
  BY <1>0 DEF Block, TaskRecord
<1>2. \A st : [tasks[t] EXCEPT !.st = st].run = tasks[t].run
  BY <1>0 DEF TaskRecord
<1>3. ASSUME NEW set, NEW st PROVE Becomes(set, st)[t].run = tasks[t].run
  BY <1>2 DEF Becomes
<1> QED
  BY <1>1, <1>2, <1>3

(* ... and so no effect but a dispatch changes the run of a task.           *)
LEMMA EmitRuns ==
  ASSUME DeliveryInv, NEW f \in Fibres, Emit(f), ~EmitDispatch(f)
  PROVE  \A t \in Tasks : tasks'[t].run = tasks[t].run
<1>1. ASSUME NEW t \in Tasks PROVE tasks'[t].run = tasks[t].run
  <2>0. ObjectiveTyped
    BY DEF DeliveryInv
  <2>1. CASE EmitAdd(f)
    BY <2>0, <2>1, RunKept DEF EmitAdd
  <2>2. CASE EmitFollow(f)
    <3>1. tasks'[t] = IF t = fibre[f].eff.on + 1 THEN [tasks[t] EXCEPT !.st = "pending"]
                      ELSE Becomes(fibre[f].eff.down, "superseded")[t]
      BY <2>2 DEF EmitFollow
    <3> QED
      BY <2>0, <3>1, RunKept
  <2>3. CASE EmitSplit(f)
    <3>1. \/ tasks'[t] = tasks[t]
          \/ \E st : tasks'[t] = [tasks[t] EXCEPT !.st = st]
      BY <2>3 DEF EmitSplit
    <3> QED
      BY <2>0, <3>1, RunKept
  <2>4. CASE EmitPrepare(f)
    <3>1. tasks'[t] = IF t \in fibre[f].eff.down THEN Block(t, "capped")
                      ELSE Becomes(fibre[f].eff.up, "ready")[t]
      BY <2>4 DEF EmitPrepare
    <3> QED
      BY <2>0, <3>1, RunKept
  <2>5. CASE EmitNext(f)
    <3>1. tasks' = tasks \/ \E set : tasks' = Becomes(set, "ready")
      BY <2>5 DEF EmitNext
    <3>2. \A set : Becomes(set, "ready")[t].run = tasks[t].run
      BY <2>0, RunKept
    <3> QED
      BY <3>1, <3>2
  <2>6. CASE EmitIntegrate(f) \/ EmitPromote(f) \/ EmitReady(f) \/ EmitComplete(f) \/ EmitBlock(f)
    <3>1. tasks' = tasks
      BY <2>6 DEF EmitIntegrate, EmitPromote, EmitIntegration, EmitReady, EmitComplete, EmitBlock
    <3> QED
      BY <3>1
  <2> QED
    BY <2>1, <2>2, <2>3, <2>4, <2>5, <2>6 DEF Emit
<1> QED
  BY <1>1

(* Effects but for a dispatch move no job of a task. *)
LEMMA PlainEmit ==
  ASSUME DeliveryInv, Labels, NEW f \in Fibres, Emit(f), ~EmitDispatch(f)
  PROVE  \E next : Plain(f, next)
<1>0. /\ fibre[f] \in Fibre /\ DeliveryInv' /\ fibre[f].job \in Job
      /\ \A t \in Tasks : tasks'[t].run = tasks[t].run
  BY EmitTyped, EmitRuns DEF DeliveryInv, Placed, Fibre
<1>1. /\ queue' = queue /\ posted' = posted /\ failed' = failed /\ runs' = runs
      /\ fibre[f].at = "emit"
  BY DEF Emit, EmitAdd, EmitFollow, EmitSplit, EmitPrepare, EmitIntegrate, EmitPromote,
         EmitIntegration, EmitReady, EmitComplete, EmitBlock, EmitNext, Appends, ledger
<1>2. active' \subseteq active /\ cut' = cut
  BY DEF Emit, EmitAdd, EmitFollow, EmitSplit, EmitPrepare, EmitIntegrate, EmitPromote,
         EmitIntegration, EmitReady, EmitComplete, EmitBlock, EmitNext
<1>3. CASE EmitIntegrate(f) \/ EmitPromote(f)
  <2>1. PICK do \in {"integrate", "promote"}, st \in {"merging", "promoting"},
             at \in {"merge", "post"}, kind \in {"validate", "publish"} :
          EmitIntegration(f, do, st, at, kind)
    BY <1>3 DEF EmitIntegrate, EmitPromote
  <2> DEFINE job == J(kind, fibre[f].eff.on, tasks[fibre[f].eff.on].passes, 0)
             next == [To(f, at) EXCEPT !.due = job]
  <2>2. Emits(f, next)
    BY <2>1 DEF EmitIntegration
  <2>3. next.at = at /\ next.due = job /\ next.job = fibre[f].job
    BY <1>0 DEF To, Fibre
  <2>4. fibre'[f] = next
    BY <2>2 DEF Emits
  <2>5. next \in Placed
    BY <1>0, <2>4 DEF DeliveryInv
  <2>6. Blank(job)
    BY BlankJobs
  <2> HIDE DEF next, job
  <2>7. Settled(next)
    BY <2>3 DEF Settled
  <2> QED
    BY <1>0, <1>1, <1>2, <2>2, <2>3, <2>5, <2>6, <2>7 DEF Plain
<1>4. CASE ~(EmitIntegrate(f) \/ EmitPromote(f))
  <2>1. \/ Emits(f, Again(f)) \/ Emits(f, Over(f)) \/ Emits(f, Reacting(fibre[f].job))
    BY <1>4 DEF Emit, EmitAdd, EmitFollow, EmitSplit, EmitPrepare, EmitReady, EmitComplete,
                EmitBlock, EmitNext
  <2>2. PICK next \in {Again(f), Over(f), Reacting(fibre[f].job)} : Emits(f, next)
    BY <2>1
  <2>3. Fits(f, next)
    BY <2>2, NextJobs, BlankJobs DEF Fits
  <2> QED
    BY <1>0, <1>1, <1>2, <2>2, <2>3, PlainMove
<1> QED
  BY <1>3, <1>4

(* A merge, step by step. *)
LEMMA PlainMerge ==
  ASSUME DeliveryInv, Labels, NEW f \in Fibres, Merge(f) \/ EmitIntegrated(f) \/ MergeFails(f)
  PROVE  \E next : Plain(f, next)
<1> DEFINE t == fibre[f].due.task
<1>0. /\ fibre[f] \in Fibre /\ DeliveryInv' /\ fibre[f].at \in {"merge", "merged", "post"}
      /\ t \in Tasks /\ fibre[f].due.kind = "validate" /\ fibre[f].job \in Job
  BY RestTypedToo DEF DeliveryInv, Placed, InPlace, TaskJob, Merge, EmitIntegrated, MergeFails, Fibre
<1>1. /\ queue' = queue /\ posted' = posted /\ failed' = failed /\ runs' = runs
      /\ active' \subseteq active
  <2>1. CASE Merge(f)
    BY <2>1 DEF Merge, ledger
  <2>2. CASE EmitIntegrated(f)
    BY <2>2 DEF EmitIntegrated, ledger
  <2>3. CASE MergeFails(f)
    BY <2>3 DEF MergeFails
  <2> QED
    BY <2>1, <2>2, <2>3
<1>2. cut => cut'
  <2>1. Merge(f) \/ EmitIntegrated(f) => cut' = cut
    BY DEF Merge, EmitIntegrated
  <2>2. MergeFails(f) => cut' = cut \/ cut' = TRUE
    BY DEF MergeFails
  <2> QED
    BY <2>1, <2>2
<1>3. \A u \in Tasks : tasks'[u].run = tasks[u].run
  <2>1. \A u \in Tasks : tasks[u] \in TaskRecord
    BY DEF DeliveryInv, ObjectiveTyped
  <2>2. tasks \in [Tasks -> TaskRecord]
    BY DEF DeliveryInv, ObjectiveTyped
  <2>3. CASE \E cand : tasks' = [tasks EXCEPT ![t].cand = cand]
    BY <1>0, <2>1, <2>2, <2>3 DEF TaskRecord
  <2>4. CASE tasks' = [tasks EXCEPT ![t].st = "integrated"]
    BY <1>0, <2>1, <2>2, <2>4 DEF TaskRecord
  <2>5. CASE tasks' = tasks
    BY <2>5
  <2> QED
    BY <2>3, <2>4, <2>5 DEF Merge, EmitIntegrated, MergeFails
<1>4. PICK next \in {To(f, "merged"), To(f, "post"), Reacting(fibre[f].job), Again(f)} :
        Emits(f, next)
  <2>1. \/ Emits(f, To(f, "merged")) \/ Emits(f, To(f, "post"))
        \/ Emits(f, Reacting(fibre[f].job)) \/ Emits(f, Again(f))
    BY DEF Merge, EmitIntegrated, MergeFails
  <2> QED
    BY <2>1
<1>5. fibre'[f] = next
  BY <1>4 DEF Emits
<1>6. next \in Placed
  BY <1>0, <1>5 DEF DeliveryInv
<1>7. Blank(fibre[f].due)
  BY <1>0 DEF Labels, Labelled, Blank
<1>8. /\ next.job = fibre[f].job /\ next.at \in {"merged", "post", "sync", "plan"}
      /\ Blank(next.due) /\ (next.due # NoJob => next.at \in {"merged", "post"})
  BY <1>4, <1>7, NextJobs, BlankJobs
<1>9. Settled(next)
  BY <1>8 DEF Settled
<1> QED
  BY <1>0, <1>1, <1>2, <1>3, <1>4, <1>6, <1>7, <1>8, <1>9 DEF Plain

(* What a fibre does that has no job of a task: a control job, a validation, *)
(* a publication, a cancellation, a note.                                  *)
LEMMA PlainWork ==
  ASSUME DeliveryInv, Labels, DeliveryInv', NEW f \in Fibres,
         \/ Control(f) \/ Pass(f) \/ Check(f) \/ EndControl(f)
         \/ Validated(f) \/ Published(f) \/ Cancel(f) \/ Note(f) \/ CancelJobs(f)
  PROVE  \E next : Plain(f, next)
<1>0. fibre[f] \in Fibre /\ Idle \in Fibre /\ Blank(NoJob)
  BY BlankJobs, Small DEF DeliveryInv, Placed
<1>1. /\ fibre[f].at \notin {"post", "run", "merge", "merged"} /\ posted' = posted
      /\ runs' = runs /\ active' = active /\ tasks' = tasks /\ cut' = cut
  BY DEF Control, Pass, Check, EndControl, Validated, Published, Cancel, Note, CancelJobs,
         objective, ledger
<1>r. /\ Fits(f, Reacting(fibre[f].job)) /\ Fits(f, Reacting(NoJob)) /\ Fits(f, Idle)
      /\ Fits(f, To(f, "end")) /\ Fits(f, To(f, "pass"))
      /\ fibre[f].at = "idle" => Fits(f, To(f, "cancel"))
  <2>1. fibre[f].at = "idle" => fibre[f].job = NoJob
    BY DEF Labels, Settled
  <2> QED
    BY <1>0, <2>1, NextJobs DEF Fits
<1>c. ASSUME NEW pass
      PROVE  /\ Fits(f, [Idle EXCEPT !.at = "pass", !.job = J("control", 0, pass, 0)])
             /\ Fits(f, [To(f, "pass") EXCEPT !.job = J("control", 0, pass, 0)])
  BY <1>0, BlankJobs DEF Idle, To, Fibre, Fits
<1>2. \E next : (Moves(f, next) \/ Emits(f, next)) /\ Fits(f, next)
  <2>1. CASE Control(f)
    BY <1>c, <2>1 DEF Control
  <2>2. CASE Pass(f)
    BY <1>r, <2>2 DEF Pass, Retires
  <2>3. CASE Check(f)
    <3>1. \/ Moves(f, To(f, "end"))
          \/ Moves(f, [To(f, "pass") EXCEPT !.job = J("control", 0, 2, 0)])
      BY <2>3 DEF Check, Retires
    <3> QED
      BY <1>c, <1>r, <3>1
  <2>4. CASE EndControl(f) \/ Validated(f) \/ Published(f) \/ Cancel(f) \/ Note(f)
    BY <1>r, <2>4 DEF EndControl, Validated, Published, Cancel, Note
  <2>5. CASE CancelJobs(f)
    BY <1>r, <2>5 DEF CancelJobs
  <2> QED
    BY <2>1, <2>2, <2>3, <2>4, <2>5
<1>3. /\ queue' \subseteq queue /\ failed \subseteq failed'
      /\ \A j \in queue \ queue' : j.run \in failed' \cup {0}
  <2>1. CASE queue' = {} /\ failed' = failed \cup RunsOf(queue \cup Held)
    BY <2>1 DEF RunsOf
  <2>2. CASE queue' = queue /\ failed' = failed
    BY <2>2
  <2> QED
    BY <2>1, <2>2 DEF Control, Pass, Check, EndControl, Retires, Validated, Published, Cancel,
                      Note, CancelJobs, ledger
<1> QED
  BY <1>1, <1>2, <1>3, PlainMove

(* A validation or a publication is leased. *)
LEMMA PlainTake ==
  ASSUME DeliveryInv, Labels, DeliveryInv', NEW f \in Fibres, Take(f), fibre'[f].at # "run"
  PROVE  \E next : Plain(f, next)
<1>0. Idle \in Fibre /\ fibre[f].at = "idle" /\ fibre[f] \in Placed /\ Blank(NoJob)
  BY Small, BlankJobs DEF Take, Placed, DeliveryInv
<1>1. PICK j \in queue :
        /\ queue' = queue \ {j}
        /\ \/ /\ j.kind = "task"
              /\ Moves(f, [Idle EXCEPT !.at = "run", !.job = j])
           \/ /\ j.kind = "validate"
              /\ Emits(f, [Idle EXCEPT !.at = "validating", !.job = j,
                                       !.eff = [Nothing EXCEPT !.up = merged]])
           \/ /\ j.kind = "publish"
              /\ Moves(f, IF Terminal THEN Idle
                          ELSE [Idle EXCEPT !.at = "publishing", !.job = j])
  BY DEF Take
<1> DEFINE a == [Idle EXCEPT !.at = "run", !.job = j]
           b == [Idle EXCEPT !.at = "validating", !.job = j,
                             !.eff = [Nothing EXCEPT !.up = merged]]
           c == [Idle EXCEPT !.at = "publishing", !.job = j]
<1>2. a.at = "run" /\ b.at = "validating" /\ b.job = j /\ c.at = "publishing" /\ c.job = j
      /\ b.due = NoJob /\ c.due = NoJob
  BY DEF Idle
<1> HIDE DEF a, b, c
<1>3. \A next : Moves(f, next) \/ Emits(f, next) => fibre'[f] = next
  BY DEF Moves, Emits, DeliveryInv
<1>4. ~Moves(f, a)
  BY <1>2, <1>3
<1>5. /\ j.kind # "task"
      /\ Emits(f, b) \/ Moves(f, c) \/ Moves(f, Idle)
  BY <1>1, <1>4 DEF a, b, c
<1>6. Blank(j) /\ j.run = 0
  BY <1>1, <1>5 DEF Labels, Labelled, Blank
<1>7. /\ posted' = posted /\ failed' = failed
      /\ runs' = runs /\ active' = active /\ tasks' = tasks /\ cut' = cut
  BY DEF Take
<1>8. PICK next \in {b, c, Idle} : Emits(f, next) \/ Moves(f, next)
  BY <1>5
<1>9. Fits(f, next)
  <2>1. Idle.at = "idle" /\ Idle.job = NoJob /\ Idle.due = NoJob
    BY DEF Idle
  <2> QED
    BY <1>0, <1>2, <1>6, <1>8, <2>1 DEF Fits
<1> QED
  BY <1>0, <1>1, <1>6, <1>7, <1>8, <1>9, PlainMove

-----------------------------------------------------------------------------
(* A step that moves no job of a task keeps the labels. *)
LEMMA PlainFrame ==
  ASSUME DeliveryInv, NEW f \in Fibres, NEW next, Plain(f, next)
  PROVE  /\ fibre'[f] = next
         /\ \A g \in Fibres \ {f} : /\ fibre'[g].at = fibre[g].at /\ fibre'[g].job = fibre[g].job
                                    /\ fibre'[g].eff = fibre[g].eff /\ fibre'[g].due = fibre[g].due
                                    /\ fibre'[g].fresh => fibre[g].fresh
BY MovesPlaced DEF DeliveryInv, Plain

(* ... so each job keeps its label, and each run its one pair of hands.     *)
LEMMA PlainLabels ==
  ASSUME DeliveryInv, LabelInv, NEW f \in Fibres, NEW next, Plain(f, next)
  PROVE  LabelInv'
<1>1. /\ fibre'[f] = next
      /\ \A g \in Fibres \ {f} : /\ fibre'[g].at = fibre[g].at /\ fibre'[g].job = fibre[g].job
                                 /\ fibre'[g].due = fibre[g].due
  BY PlainFrame
<1>2. runs' = runs /\ runs \in Nat /\ \A t \in Tasks : tasks'[t].run = tasks[t].run
  BY DEF Plain, DeliveryInv, ObjectiveTyped
<1> DEFINE Now(j) == /\ j.run <= runs'
                     /\ j.kind # "task" => j.run = 0
                     /\ j.kind = "task" => \A t \in Tasks : tasks'[t].run = j.run => t = j.task
<1>3. \A j : Labelled(j) => Now(j)
  BY <1>2 DEF Labelled
<1>4. \A j : Blank(j) => Now(j)
  BY <1>2 DEF Blank
<1> HIDE DEF Now
<1>5. Labels'
  <2>1. \A t \in Tasks : tasks'[t].run <= runs'
    BY <1>2 DEF LabelInv, Labels
  <2>2. \A j \in queue' : Now(j)
    BY <1>3 DEF LabelInv, Labels, Plain
  <2>3. \A j \in posted' : j.kind # "task"
    BY DEF LabelInv, Labels, Plain
  <2>4. ASSUME NEW g \in Fibres
        PROVE  Now(fibre'[g].job) /\ Now(fibre'[g].due) /\ Settled(fibre'[g])
    <3>0. Labelled(fibre[g].job) /\ Labelled(fibre[g].due) /\ Settled(fibre[g])
      BY DEF LabelInv, Labels
    <3>1. CASE g = f
      <4>1. next.job = fibre[g].job \/ Blank(next.job)
        BY <3>1 DEF Plain
      <4>2. Blank(next.due) /\ Settled(next)
        BY DEF Plain
      <4> QED
        BY <1>1, <1>3, <1>4, <3>0, <3>1, <4>1, <4>2
    <3>2. CASE g # f
      <4>1. Settled(fibre'[g])
        BY <1>1, <3>0, <3>2 DEF Settled
      <4> QED
        BY <1>1, <1>3, <3>0, <3>2, <4>1
    <3> QED
      BY <3>1, <3>2
  <2> QED
    BY <2>1, <2>2, <2>3, <2>4 DEF Labels, Labelled, Now
<1>6. TaskJobs' \subseteq TaskJobs
  BY DEF TaskJobs, Plain
<1>7. \A g \in Fibres : Tokens(fibre'[g]) \subseteq Tokens(fibre[g])
  <2>1. Tokens(next) = {}
    BY DEF Plain, Tokens, Blank
  <2> QED
    BY <1>1, <2>1 DEF Tokens
<1>8. InOneHand'
  BY <1>6, <1>7 DEF LabelInv, InOneHand
<1> QED
  BY <1>5, <1>8 DEF LabelInv

(* ... and no active task loses its run: a job that was canceled is failed,  *)
(* one that was dropped has been reported.                                 *)
LEMMA PlainSeen ==
  ASSUME DeliveryInv, LabelInv, SeenInv, NEW f \in Fibres, NEW next, Plain(f, next)
  PROVE  SeenInv'
<1>1. /\ fibre'[f] = next
      /\ \A g \in Fibres \ {f} : /\ fibre'[g].at = fibre[g].at /\ fibre'[g].job = fibre[g].job
                                 /\ fibre'[g].due = fibre[g].due
  BY PlainFrame
<1>2. /\ active' \subseteq active /\ active \subseteq Tasks /\ failed \subseteq failed'
      /\ \A t \in Tasks : tasks'[t].run = tasks[t].run
  BY DEF Plain, DeliveryInv, ObjectiveTyped
<1>3. ASSUME NEW g \in Fibres PROVE Reported(fibre[g])'
  <2>0. Reported(fibre[g])
    BY DEF SeenInv
  <2>1. CASE g # f
    BY <1>1, <1>2, <2>0, <2>1 DEF Reported
  <2>2. CASE g = f
    <3>1. fibre[f].at # "run"
      BY DEF Plain
    <3>2. next.job = fibre[f].job \/ next.job.kind # "task"
      BY DEF Plain, Blank
    <3> QED
      BY <1>1, <1>2, <2>0, <2>2, <3>1, <3>2 DEF Reported
  <2> QED
    BY <2>1, <2>2
<1>4. ASSUME NEW t \in active', ~cut, tasks[t].run \notin failed'
      PROVE  Works(tasks[t].run)'
  <2> DEFINE r == tasks[t].run
  <2>0. t \in active /\ t \in Tasks /\ r \notin failed /\ tasks'[t].run = r
    BY <1>2, <1>4
  <2>1. r # 0 /\ (\/ \E j \in queue : j.run = r
                  \/ \E g \in Fibres : fibre[g].job.run = r \/ fibre[g].due.run = r)
    BY <1>4, <2>0 DEF SeenInv, Works
  <2>2. CASE \E j \in queue : j.run = r
    <3>1. PICK j \in queue : j.run = r
      BY <2>2
    <3>2. j \in queue'
      BY <1>4, <2>1, <3>1 DEF Plain
    <3> QED
      BY <2>0, <2>1, <3>1, <3>2 DEF Works
  <2>3. ASSUME NEW g \in Fibres, fibre[g].job.run = r
        PROVE  fibre'[g].job.run = r
    <3>1. CASE g # f
      BY <1>1, <2>3, <3>1
    <3>2. CASE g = f /\ next.job # fibre[f].job
      <4>1. Labelled(fibre[f].job) /\ fibre[f].at # "run" /\ Reported(fibre[f])
        BY DEF LabelInv, Labels, Plain, SeenInv
      <4>2. fibre[f].job.kind = "task"
        BY <2>1, <2>3, <3>2, <4>1 DEF Labelled
      <4>3. t = fibre[f].job.task
        BY <2>0, <2>3, <3>2, <4>1, <4>2 DEF Labelled
      <4> QED
        BY <2>0, <2>3, <3>2, <4>1, <4>2, <4>3 DEF Reported
    <3> QED
      BY <1>1, <2>3, <3>1, <3>2
  <2>4. ASSUME NEW g \in Fibres, fibre[g].due.run = r
        PROVE  fibre'[g].due.run = r
    <3>1. CASE g # f
      BY <1>1, <2>4, <3>1
    <3>2. CASE g = f
      <4>1. /\ fibre[f].at = "post" => fibre[f].due.run = 0
            /\ Labelled(fibre[f].due) /\ Settled(fibre[f]) /\ InPlace(fibre[f])
        BY DEF Plain, Blank, LabelInv, Labels, DeliveryInv, Placed
      <4>2. fibre[f].at = "post" \/ fibre[f].due = NoJob \/ fibre[f].due.kind = "validate"
        BY <4>1 DEF Settled, InPlace
      <4>3. fibre[f].due.run = 0
        BY <4>1, <4>2 DEF Labelled, NoJob, J
      <4> QED
        BY <2>1, <2>4, <3>2, <4>3
    <3> QED
      BY <3>1, <3>2
  <2> HIDE DEF r
  <2>5. CASE \E g \in Fibres : fibre[g].job.run = r \/ fibre[g].due.run = r
    <3>1. \E g \in Fibres : fibre'[g].job.run = r \/ fibre'[g].due.run = r
      BY <2>3, <2>4, <2>5
    <3>2. tasks'[t].run # 0 /\ \E g \in Fibres : fibre'[g].job.run = tasks'[t].run \/ fibre'[g].due.run = tasks'[t].run
      BY <2>0, <2>1, <3>1
    <3> QED
      BY <3>2 DEF Works
  <2> QED
    BY <2>1, <2>2, <2>5
<1>5. cut' \/ \A t \in active' : tasks'[t].run \in failed' \/ Works(tasks[t].run)'
  <2>1. cut => cut'
    BY DEF Plain
  <2>2. CASE cut
    BY <2>1, <2>2
  <2>3. CASE ~cut
    BY <1>2, <1>4, <2>3
  <2> QED
    BY <2>2, <2>3
<1> QED
  BY <1>3, <1>5 DEF SeenInv

(* A step that moves no job of a task leaves each job its task, if only tasks *)
(* whose run has failed are taken away.                                    *)
Calm(f, next) ==
  /\ \A t \in active \ active' : tasks[t].run \in failed'
  /\ \A t \in active' : tasks'[t].st = "running"
  /\ \A t \in Tasks : tasks[t].st \in Done => tasks'[t].st \in Done
  /\ next.at \in {"merge", "merged"} => tasks'[next.due.task].st \in Done
  /\ next.at = "emit" /\ next.eff.do = "split" /\ next.fresh
       => tasks'[next.eff.on].run \in failed' /\ tasks'[next.eff.on].st = "running"
  /\ tasks' = tasks \/ Emits(f, next)

(* Then each job of a task that was not canceled is still waited for.        *)
LEMMA PlainAwaited ==
  ASSUME DeliveryInv, LabelInv, AwaitedInv, NEW f \in Fibres, NEW next, Plain(f, next),
         Calm(f, next)
  PROVE  AwaitedInv'
<1>1. /\ fibre'[f] = next
      /\ \A g \in Fibres \ {f} : /\ fibre'[g].at = fibre[g].at /\ fibre'[g].job = fibre[g].job
                                 /\ fibre'[g].eff = fibre[g].eff /\ fibre'[g].due = fibre[g].due
                                 /\ fibre'[g].fresh => fibre[g].fresh
  BY PlainFrame
<1>2. /\ active \subseteq Tasks /\ failed \subseteq failed'
      /\ \A t \in Tasks : tasks'[t].run = tasks[t].run
  BY DEF Plain, DeliveryInv, ObjectiveTyped
<1>3. ASSUME NEW j, Waits(j)
      PROVE  j.run \in failed' \/ (j.task \in active' /\ tasks'[j.task].run = j.run)
  <2>1. CASE j.run \in failed
    BY <1>2, <2>1
  <2>2. CASE j.task \in active /\ tasks[j.task].run = j.run
    BY <1>2, <2>2 DEF Calm
  <2> QED
    BY <1>3, <2>1, <2>2 DEF Waits
<1>4. \A j \in TaskJobs' : j.run \in failed' \/ (j.task \in active' /\ tasks'[j.task].run = j.run)
  <2>1. TaskJobs' \subseteq TaskJobs
    BY DEF TaskJobs, Plain
  <2> QED
    BY <1>3, <2>1 DEF AwaitedInv
<1>5. \A g \in Fibres : \A j \in Tokens(fibre'[g]) :
        j.run \in failed' \/ (j.task \in active' /\ tasks'[j.task].run = j.run)
  <2>1. Tokens(next) = {}
    BY DEF Plain, Tokens, Blank
  <2>2. \A g \in Fibres : Tokens(fibre'[g]) \subseteq Tokens(fibre[g])
    BY <1>1, <2>1 DEF Tokens
  <2> QED
    BY <1>3, <2>2 DEF AwaitedInv
<1>6. ASSUME NEW g \in Fibres, fibre'[g].at \in {"merge", "merged"}
      PROVE  tasks'[fibre'[g].due.task].st \in Done
  <2>1. CASE g = f
    BY <1>1, <1>6, <2>1 DEF Calm
  <2>2. CASE g # f
    <3>1. fibre[g].at \in {"merge", "merged"} /\ fibre[g].due.task \in Tasks
      BY <1>1, <1>6, <2>2 DEF DeliveryInv, Placed, InPlace, TaskJob
    <3> QED
      BY <1>1, <2>2, <3>1 DEF AwaitedInv, Calm
  <2> QED
    BY <2>1, <2>2
<1>7. ASSUME NEW g \in Fibres, fibre'[g].at = "emit", fibre'[g].eff.do = "split", fibre'[g].fresh
      PROVE  tasks'[fibre'[g].eff.on].run \in failed' /\ tasks'[fibre'[g].eff.on].st = "running"
  <2>1. CASE g = f
    BY <1>1, <1>7, <2>1 DEF Calm
  <2>2. CASE g # f
    <3>1. ~Emits(f, next)
      <4>1. \A x \in Fibre : ~[x EXCEPT !.fresh = FALSE].fresh
        BY DEF Fibre
      <4>2. fibre[g] \in Fibre
        BY DEF DeliveryInv, Placed
      <4> QED
        BY <1>7, <2>2, <4>1, <4>2 DEF Emits
    <3>2. tasks' = tasks
      BY <3>1 DEF Calm
    <3>3. Lost(fibre[g])
      BY DEF AwaitedInv
    <3> QED
      BY <1>1, <1>2, <1>7, <2>2, <3>2, <3>3 DEF Lost
  <2> QED
    BY <2>1, <2>2
<1>8. \A t \in active' : tasks'[t].st = "running"
  BY DEF Calm
<1>9. \A j \in TaskJobs' : Waits(j)'
  BY <1>4 DEF Waits
<1>10. \A g \in Fibres : Lost(fibre[g])'
  BY <1>7 DEF Lost
<1>11. Done' = Done
  BY DEF Done
<1> QED
  BY <1>5, <1>6, <1>8, <1>9, <1>10, <1>11 DEF AwaitedInv, Waits

-----------------------------------------------------------------------------
(* Which tasks these steps touch, until an effect comes too late. *)
LEMMA QuietCalm ==
  ASSUME DeliveryInv, AwaitedInv, NEW f \in Fibres, NEW next, active' = active, tasks' = tasks,
         next.at \notin {"merge", "merged"}, next.at = "emit" /\ next.fresh => next.eff.do # "split"
  PROVE  Calm(f, next)
BY DEF AwaitedInv, Calm

(* What is planned, and the tasks it is planned for. *)
LEMMA PlannedFor ==
  /\ Planned.do = "add" => Added = {}
  /\ Planned.do = "follow" => active = {} /\ Planned.on = Latest /\ Planned.down \subseteq {Latest}
  /\ Planned.do = "prepare" => Planned.up = Prepares.up /\ Planned.down = Prepares.down
  /\ Planned.do = "next" => Planned.up = Retryable
  /\ Planned.do = "dispatch" => Ready # {} /\ Planned.on = Min(Ready)
  /\ Planned.do = "integrate" => Approved # {} /\ Planned.on = Min(Approved)
  /\ Unadvised.do = "add" => Added = {}
  /\ Unadvised.do = "follow" => active = {} /\ Unadvised.on = Latest
  /\ Unadvised.do = "prepare" => Unadvised.up = Prepares.up
  /\ Unadvised.do = "next" => Unadvised.up = Retryable
<1>1. \A do, on : /\ E(do, on).do = do /\ E(do, on).on = on
                  /\ \A set : /\ [E(do, on) EXCEPT !.up = set].do = do
                              /\ [E(do, on) EXCEPT !.up = set].up = set
                              /\ [E(do, on) EXCEPT !.pass = set].do = do
                              /\ [E(do, on) EXCEPT !.down = set].do = do
                              /\ [E(do, on) EXCEPT !.down = set].on = on
                              /\ [E(do, on) EXCEPT !.down = set].down = set
  BY DEF E
<1>2. /\ Nothing.do = "none" /\ Prepares.do = "prepare"
  BY <1>1 DEF Nothing, Prepares
<1>3. FollowUp.do = "follow" /\ FollowUp.on = Latest /\ FollowUp.down \subseteq {Latest}
  <2>1. \E set \in SUBSET {Latest} : FollowUp = [E("follow", Latest) EXCEPT !.down = set]
    BY DEF FollowUp
  <2> QED
    BY <1>1, <2>1
<1>4. /\ Final.do \notin {"add", "follow", "prepare"}
      /\ Final.do = "next" => Final.up = Retryable
      /\ Final.do = "dispatch" => Ready # {} /\ Final.on = Min(Ready)
      /\ Final.do = "integrate" => Approved # {} /\ Final.on = Min(Approved)
  <2> DEFINE Good(e) == /\ e.do \notin {"add", "follow", "prepare"}
                        /\ e.do = "next" => e.up = Retryable
                        /\ e.do = "dispatch" => Ready # {} /\ e.on = Min(Ready)
                        /\ e.do = "integrate" => Approved # {} /\ e.on = Min(Approved)
  <2>1. \A on : /\ Good(E("budget", on)) /\ Good(E("ready", on)) /\ Good(E("promote", on))
                /\ Good(E("complete", on)) /\ Good(E("block", on))
    BY <1>1
  <2>2. Good(Nothing) /\ Good([E("next", 0) EXCEPT !.up = Retryable])
    BY <1>1, <1>2
  <2>3. Ready # {} => Good(E("dispatch", Min(Ready)))
    BY <1>1
  <2>4. Approved # {} => Good(E("integrate", Min(Approved)))
    BY <1>1
  <2> HIDE DEF Good
  <2>5. Good(Final)
    BY <2>1, <2>2, <2>3, <2>4 DEF Final
  <2> QED
    BY <2>5 DEF Good
<1> DEFINE Good(e) == /\ e.do = "add" => Added = {}
                      /\ e.do = "follow" => active = {} /\ e.on = Latest /\ e.down \subseteq {Latest}
                      /\ e.do = "prepare" => e.up = Prepares.up /\ e.down = Prepares.down
                      /\ e.do = "next" => e.up = Retryable
                      /\ e.do = "dispatch" => Ready # {} /\ e.on = Min(Ready)
                      /\ e.do = "integrate" => Approved # {} /\ e.on = Min(Approved)
<1>5. Good(Unadvised)
  BY <1>1, <1>2, <1>3, <1>4 DEF Unadvised, FollowsUp
<1>6. Good(Planned)
  <2>1. [E("split", advice.task) EXCEPT !.pass = advice.pass].do = "split"
    BY <1>1
  <2> HIDE DEF Good
  <2>2. Good([E("split", advice.task) EXCEPT !.pass = advice.pass])
    BY <2>1 DEF Good
  <2> QED
    BY <1>5, <2>2 DEF Planned
<1> QED
  BY <1>5, <1>6

(* Before an effect is applied. *)
LEMMA CalmReact ==
  ASSUME DeliveryInv, AwaitedInv, NEW f \in Fibres,
         Sync(f) \/ Gate(f) \/ Plan(f) \/ Head(f) \/ HeadDispatch(f) \/ HeadSplit(f) \/ Refused(f)
  PROVE  Calm(f, fibre'[f])
<1>0. fibre[f] \in Fibre /\ fibre \in [Fibres -> Placed] /\ tasks \in [Tasks -> TaskRecord]
      /\ active \subseteq Tasks /\ failed \subseteq failed'
  <2>1. failed \subseteq failed'
    BY DEF Sync, Gate, Plan, Head, HeadDispatch, HeadSplit, Refused, ledger
  <2> QED
    BY <2>1 DEF DeliveryInv, Placed, ObjectiveTyped
<1>1. \A next : Moves(f, next) \/ Emits(f, next) => fibre'[f] = next
  BY <1>0 DEF Moves, Emits
<1> DEFINE Safe(x) == /\ x.at \notin {"merge", "merged"}
                      /\ x.at = "emit" /\ x.fresh => x.eff.do # "split"
<1>2. /\ Safe(Over(f)) /\ Safe(Again(f)) /\ Safe(Blocking(f)) /\ Safe(Idle) /\ Safe(To(f, "gate"))
  BY NextJobs
<1>3. CASE Sync(f)
  <2>1. CASE Terminal
    <3>1. fibre'[f] = Over(f) /\ active' = active /\ tasks' = tasks
      BY <1>1, <1>3, <2>1 DEF Sync
    <3> QED
      BY <1>2, <3>1, QuietCalm
  <2>2. CASE ~Terminal
    <3>1. /\ tasks' = [t \in Tasks |-> IF t \in Lapsed THEN Block(t, "blocked") ELSE tasks[t]]
          /\ active' = active \ Lapsed
          /\ IF Lapsed = {} THEN Moves(f, To(f, "gate")) ELSE Emits(f, To(f, "gate"))
      BY <1>3, <2>2 DEF Sync
    <3>2. fibre'[f] = To(f, "gate")
      BY <1>1, <3>1
    <3>3. tasks' = tasks \/ Emits(f, To(f, "gate"))
      BY <1>0, <3>1
    <3>4. \A t \in Lapsed : tasks[t].st = "running" /\ tasks[t].run \in failed
      BY DEF Lapsed
    <3>5. \A t \in active' : tasks'[t].st = "running"
      BY <1>0, <3>1 DEF AwaitedInv
    <3>6. \A t \in active \ active' : tasks[t].run \in failed'
      BY <1>0, <3>1, <3>4
    <3>7. \A t \in Tasks : tasks[t].st \in Done => tasks'[t].st \in Done
      BY <3>1, <3>4 DEF Done
    <3>8. Safe(To(f, "gate"))
      BY <1>2
    <3>9. To(f, "gate").at = "gate"
      BY NextJobs
    <3> QED
      BY <3>2, <3>3, <3>5, <3>6, <3>7, <3>9 DEF Calm
  <2> QED
    BY <2>1, <2>2
<1>4. CASE Gate(f)
  <2>1. Safe([fibre[f] EXCEPT !.at = "emit", !.eff = E("policy", 0)])
    BY <1>0 DEF Fibre, E
  <2>2. Safe([fibre[f] EXCEPT !.at = "plan", !.left = PlannerPasses])
    BY <1>0 DEF Fibre
  <2>3. active' = active /\ tasks' = tasks
    BY <1>4 DEF Gate, objective
  <2>4. \/ fibre'[f] = Over(f)
        \/ fibre'[f] = [fibre[f] EXCEPT !.at = "emit", !.eff = E("policy", 0)]
        \/ fibre'[f] = [fibre[f] EXCEPT !.at = "plan", !.left = PlannerPasses]
    BY <1>1, <1>4 DEF Gate
  <2>5. Safe(fibre'[f])
    BY <1>2, <2>1, <2>2, <2>4
  <2> QED
    BY <2>3, <2>5, QuietCalm
<1>5. CASE Plan(f)
  <2> DEFINE rest == IF Planned.do = "split" THEN Unadvised ELSE Nothing
             next == [fibre[f] EXCEPT !.at = Onto(Planned), !.eff = Planned, !.left = @ - 1,
                                      !.rest = rest]
  <2>1. Safe(next)
    BY <1>0 DEF Fibre, Onto, Conditional
  <2>2. Moves(f, Over(f)) \/ Moves(f, next)
    BY <1>5 DEF Plan
  <2>3. active' = active /\ tasks' = tasks
    BY <1>5 DEF Plan, objective
  <2> HIDE DEF next
  <2>4. Safe(fibre'[f])
    BY <1>1, <1>2, <2>1, <2>2
  <2> QED
    BY <2>3, <2>4, QuietCalm
<1>s. ASSUME NEW next \in Fibre, Signals(f, next)
      PROVE  fibre'[f] = next \/ fibre'[f] = Cold(next)
  BY <1>1, <1>s DEF Signals, Cold
<1> DEFINE fresh == [To(f, "emit") EXCEPT !.fresh = TRUE]
<1>6. fresh.at = "emit" /\ fresh.eff = fibre[f].eff
  BY <1>0 DEF To, Fibre
<1> HIDE DEF fresh
<1>7. CASE Head(f) \/ HeadDispatch(f)
  <2>1. active' = active /\ tasks' = tasks /\ fibre[f].eff.do # "split"
    BY <1>7 DEF Head, HeadDispatch, objective
  <2>2. Moves(f, fresh) \/ Moves(f, Idle) \/ Signals(f, Idle)
    BY <1>7 DEF Head, HeadDispatch, fresh
  <2>4. Idle \in Fibre /\ Safe(Cold(Idle))
    BY Small DEF Placed, Idle, Cold
  <2>3. Safe(fibre'[f])
    BY <1>1, <1>2, <1>6, <1>s, <2>1, <2>2, <2>4
  <2> QED
    BY <2>1, <2>3, QuietCalm
<1>8. CASE HeadSplit(f)
  <2> DEFINE t == fibre[f].eff.on
             rest == fibre[f].rest
             goes == [fibre[f] EXCEPT !.at = Onto(rest), !.eff = rest, !.rest = Nothing]
             splits == [To(f, "emit") EXCEPT !.fresh = TRUE, !.rest = Nothing]
  <2>1. active' = active /\ tasks' = tasks
    BY <1>8 DEF HeadSplit
  <2>2. CASE Emits(f, Over(f)) \/ Emits(f, goes)
    <3>1. Safe(goes)
      BY <1>0 DEF Fibre, Onto, Conditional
    <3> HIDE DEF goes
    <3>2. Safe(fibre'[f])
      BY <1>1, <1>2, <2>2, <3>1
    <3> QED
      BY <2>1, <3>2, QuietCalm
  <2>3. CASE /\ Signals(f, splits) /\ tasks[t].st = "running"
             /\ failed' = failed \cup {tasks[t].run}
    <3>1. splits \in Fibre /\ splits.at = "emit" /\ splits.eff = fibre[f].eff
      BY <1>0, Small DEF To, Fibre, Places
    <3> HIDE DEF splits
    <3>2. Cold(splits).at = "emit" /\ Cold(splits).eff = fibre[f].eff
      BY <3>1 DEF Fibre, Cold
    <3>3. fibre'[f].at = "emit" /\ fibre'[f].eff = fibre[f].eff
      BY <1>s, <2>3, <3>1, <3>2
    <3> QED
      BY <2>1, <2>3, <3>3 DEF AwaitedInv, Calm
  <2> QED
    BY <1>8, <2>2, <2>3 DEF HeadSplit
<1>9. CASE Refused(f)
  <2>1. active' = active /\ tasks' = tasks
    BY <1>9 DEF Refused, objective
  <2>2. \/ Moves(f, Again(f)) \/ Moves(f, Blocking(f)) \/ Moves(f, Over(f))
        \/ Emits(f, Over(f))
    BY <1>9 DEF Refused
  <2>3. Safe(fibre'[f])
    BY <1>1, <1>2, <2>2
  <2> QED
    BY <2>1, <2>3, QuietCalm
<1> QED
  BY <1>3, <1>4, <1>5, <1>7, <1>8, <1>9

(* An effect that the planner would still choose touches no task that runs,  *)
(* but for a split, which has canceled the task's job first.               *)
LEMMA EmitCalm ==
  ASSUME DeliveryInv, AwaitedInv, NEW f \in Fibres, NEW next, Emits(f, next),
         next.at \notin {"merge", "merged", "emit"},
         \A t \in active \ active' : tasks[t].run \in failed',
         active' \subseteq active,
         \A t \in active' : tasks'[t] = tasks[t],
         \A t \in Tasks : tasks[t].st \in Done => tasks'[t].st \in Done
  PROVE  Calm(f, fibre'[f])
<1>1. fibre'[f] = next
  BY DEF Emits
<1> QED
  BY <1>1 DEF Calm, AwaitedInv

(* The effects that are applied in time, one by one.                        *)
LEMMA CalmEmit ==
  ASSUME DeliveryInv, AwaitedInv, NEW f \in Fibres, Emit(f), ~EmitDispatch(f),
         "effect" \notin stale'
  PROVE  Calm(f, fibre'[f])
<1> DEFINE eff == fibre[f].eff
<1>0. /\ tasks \in [Tasks -> TaskRecord] /\ active \subseteq Tasks /\ ObjectiveTyped
      /\ fibre[f] \in Fibre /\ Tasks \subseteq Nat
      /\ \A t \in active : tasks[t].st = "running"
  BY Small DEF DeliveryInv, ObjectiveTyped, AwaitedInv, Placed
<1>1. /\ Again(f).at = "plan" /\ Over(f).at \in {"sync", "idle", "check"}
      /\ Reacting(fibre[f].job).at = "sync"
  BY NextJobs
<1>2. \A t \in Tasks : \A st : [tasks[t] EXCEPT !.st = st].st = st
  BY <1>0 DEF TaskRecord
<1>3. CASE EmitAdd(f)
  <2>1. /\ eff.do = "add" /\ Judged(f) /\ Emits(f, Again(f)) /\ active' = active
        /\ tasks' = Becomes({1}, "pending")
    BY <1>3 DEF EmitAdd, Appends
  <2>2. Added = {}
    BY <2>1, AppliedIsPlanned, PlannedFor
  <2>3. \A t \in Tasks : tasks[t].st = "absent"
    BY <2>2 DEF Added
  <2>4. active = {}
    BY <1>0, <2>3
  <2>5. \A t \in Tasks : tasks[t].st \notin Done
    BY <2>3 DEF Done
  <2> QED
    BY <1>1, <2>1, <2>4, <2>5, EmitCalm
<1>4. CASE EmitFollow(f)
  <2>1. /\ eff.do = "follow" /\ Judged(f) /\ Emits(f, Again(f)) /\ active' \subseteq active
        /\ tasks' = [t \in Tasks |-> IF t = eff.on + 1 THEN [tasks[t] EXCEPT !.st = "pending"]
                                     ELSE Becomes(eff.down, "superseded")[t]]
    BY <1>4 DEF EmitFollow, Appends
  <2>2. active = {} /\ eff.on = Latest
    BY <2>1, AppliedIsPlanned, PlannedFor
  <2>3. \A t \in Tasks : tasks[t].st \in Done => tasks'[t].st \in Done
    <3>1. Latest + 1 \notin Added
      BY <1>0, LatestTask, Small
    <3>2. \A t \in Tasks : t = Latest + 1 => tasks[t].st \notin Done
      BY <3>1 DEF Added, Done
    <3>3. \A t \in Tasks : \/ Becomes(eff.down, "superseded")[t] = tasks[t]
                           \/ Becomes(eff.down, "superseded")[t].st = "superseded"
      BY <1>2 DEF Becomes
    <3> QED
      BY <2>1, <2>2, <3>2, <3>3 DEF Done
  <2> QED
    BY <1>1, <2>1, <2>2, <2>3, EmitCalm
<1>5. CASE EmitSplit(f)
  <2> DEFINE on == eff.on
  <2>1. /\ eff.do = "split" /\ fibre[f].at = "emit" /\ fibre[f].fresh /\ Emits(f, Again(f))
        /\ active' = active \ {on} /\ failed' = failed
        /\ tasks' = [t \in Tasks |->
             IF t \in {Latest + 1, Latest + 2} THEN [tasks[t] EXCEPT !.st = "pending"]
             ELSE IF t = on /\ tasks[t].st # "integrated" THEN [tasks[t] EXCEPT !.st = "superseded"]
             ELSE tasks[t]]
    BY <1>5 DEF EmitSplit, Appends, Conditional, ledger
  <2>2. tasks[on].run \in failed /\ tasks[on].st = "running"
    BY <2>1 DEF AwaitedInv, Lost
  <2>3. \A t \in Tasks : t \in {Latest + 1, Latest + 2} => tasks[t].st = "absent"
    <3>1. Latest + 1 \notin Added /\ Latest + 2 \notin Added
      <4>1. Latest \in Nat /\ \A t \in Added : t <= Latest
        BY <1>0, LatestTask, Small
      <4> QED
        BY <4>1
    <3> QED
      BY <3>1 DEF Added
  <2>4. \A t \in active' : tasks'[t] = tasks[t]
    BY <1>0, <2>1, <2>3
  <2>5. \A t \in Tasks : tasks[t].st \in Done => tasks'[t].st \in Done
    <3>1. \A t \in Tasks : tasks[t].st \in Done => t # on /\ t \notin {Latest + 1, Latest + 2}
      BY <2>2, <2>3 DEF Done
    <3> QED
      BY <2>1, <3>1
  <2>6. \A t \in active \ active' : tasks[t].run \in failed'
    BY <2>1, <2>2
  <2> QED
    BY <1>1, <2>1, <2>4, <2>5, <2>6, EmitCalm
<1>6. CASE EmitPrepare(f)
  <2>1. /\ eff.do = "prepare" /\ Judged(f) /\ Emits(f, Again(f)) /\ active' = active \ eff.down
        /\ tasks' = [t \in Tasks |-> IF t \in eff.down THEN Block(t, "capped")
                                     ELSE Becomes(eff.up, "ready")[t]]
    BY <1>6 DEF EmitPrepare, Appends
  <2>2. eff.up = Prepares.up /\ eff.down = Prepares.down
    BY <2>1, AppliedIsPlanned, PlannedFor
  <2>3. \A t \in eff.up : t \notin active /\ tasks[t].st \notin Done
    BY <1>0, <2>2 DEF Prepares, Activatable, Done
  <2>4. \A t \in eff.down : t \notin active /\ tasks[t].st \notin Done
    BY <2>2 DEF Prepares, Ready, Done
  <2>5. \A t \in Tasks : t \notin eff.up \cup eff.down => tasks'[t] = tasks[t]
    BY <2>1 DEF Becomes
  <2>6. active' = active
    BY <2>1, <2>4
  <2> QED
    BY <1>0, <1>1, <2>1, <2>3, <2>4, <2>5, <2>6, EmitCalm
<1>7. CASE EmitIntegrate(f)
  <2> DEFINE t == eff.on
             next == [To(f, "merge") EXCEPT !.due = J("validate", t, tasks[t].passes, 0)]
  <2>1. /\ eff.do = "integrate" /\ Judged(f) /\ Emits(f, next)
        /\ tasks' = tasks /\ active' = active
    BY <1>7 DEF EmitIntegrate, EmitIntegration, Appends
  <2>2. t = Min(Approved) /\ Approved # {}
    BY <2>1, AppliedIsPlanned, PlannedFor
  <2>3. t \in Approved
    <3>1. Approved \subseteq Nat
      BY <1>0 DEF Approved
    <3> QED
      BY <2>2, <3>1, Least
  <2>4. next.at = "merge" /\ next.due.task = t
    BY <1>0 DEF To, Fibre, J
  <2> HIDE DEF next
  <2>5. tasks[t].st \in Done
    BY <2>3 DEF Approved, Done
  <2>6. fibre'[f] = next
    BY <2>1 DEF Emits
  <2> QED
    BY <2>1, <2>4, <2>5, <2>6 DEF Calm, AwaitedInv
<1>8. CASE EmitPromote(f)
  <2> DEFINE t == eff.on
             next == [To(f, "post") EXCEPT !.due = J("publish", t, tasks[t].passes, 0)]
  <2>1. Emits(f, next) /\ tasks' = tasks /\ active' = active
    BY <1>8 DEF EmitPromote, EmitIntegration
  <2>2. next.at = "post"
    BY <1>0 DEF To, Fibre
  <2> HIDE DEF next
  <2> QED
    BY <2>1, <2>2, EmitCalm
<1>9. CASE EmitReady(f) \/ EmitComplete(f) \/ EmitBlock(f)
  <2>1. /\ Emits(f, Again(f)) \/ Emits(f, Over(f))
        /\ tasks' = tasks /\ active' = active
    BY <1>9 DEF EmitReady, EmitComplete, EmitBlock
  <2> QED
    BY <1>1, <2>1, EmitCalm
<1>10. CASE EmitNext(f)
  <2>1. /\ eff.do = "next" /\ Judged(f) /\ active' = active
        /\ Emits(f, Over(f)) \/ Emits(f, Reacting(fibre[f].job))
        /\ tasks' = tasks \/ \E t \in eff.up : tasks' = Becomes({t}, "ready")
    BY <1>10 DEF EmitNext, Appends
  <2>2. eff.up = Retryable
    BY <2>1, AppliedIsPlanned, PlannedFor
  <2>3. \A t \in eff.up : t \in Tasks /\ tasks[t].st = "blocked"
    BY <2>2 DEF Retryable, Stuck
  <2>4. \A t \in Tasks : tasks'[t] = tasks[t] \/ tasks[t].st = "blocked"
    <3>1. CASE tasks' = tasks
      BY <3>1
    <3>2. ASSUME NEW u \in eff.up, tasks' = Becomes({u}, "ready")
          PROVE  \A t \in Tasks : tasks'[t] = tasks[t] \/ tasks[t].st = "blocked"
      BY <2>3, <3>2 DEF Becomes
    <3> QED
      BY <2>1, <3>1, <3>2
  <2>5. /\ \A t \in active' : tasks'[t] = tasks[t]
        /\ \A t \in Tasks : tasks[t].st \in Done => tasks'[t].st \in Done
    BY <1>0, <2>1, <2>4 DEF Done
  <2> QED
    BY <1>1, <2>1, <2>5, EmitCalm
<1> QED
  BY <1>3, <1>4, <1>5, <1>6, <1>7, <1>8, <1>9, <1>10 DEF Emit

(* A merge takes a candidate whose task is done with. *)
LEMMA CalmMerge ==
  ASSUME DeliveryInv, AwaitedInv, NEW f \in Fibres, Merge(f) \/ EmitIntegrated(f) \/ MergeFails(f)
  PROVE  Calm(f, fibre'[f])
<1> DEFINE t == fibre[f].due.task
<1>0. /\ tasks \in [Tasks -> TaskRecord] /\ active \subseteq Tasks
      /\ t \in Tasks /\ fibre[f].at \in {"merge", "merged", "post"}
      /\ \A u \in active : tasks[u].st = "running" /\ \A v \in Tasks : tasks[v] \in TaskRecord
  BY DEF DeliveryInv, ObjectiveTyped, AwaitedInv, Placed, InPlace, TaskJob, Merge,
         EmitIntegrated, MergeFails
<1>1. CASE Merge(f) \/ EmitIntegrated(f)
  <2>1. tasks[t].st \in Done /\ t \notin active
    BY <1>0, <1>1 DEF AwaitedInv, Done, Merge, EmitIntegrated
  <2>2. PICK next : Emits(f, next) /\ (next = To(f, "merged") \/ next = To(f, "post"))
    BY <1>1 DEF Merge, EmitIntegrated
  <2>3. next.at \in {"merged", "post"} /\ next.due.task = t
    BY <2>2, NextJobs
  <2>4. active' = active
    BY <1>1, <2>1 DEF Merge, EmitIntegrated
  <2>5. /\ \A u \in Tasks \ {t} : tasks'[u] = tasks[u]
        /\ tasks'[t].st = tasks[t].st \/ tasks'[t].st = "integrated"
    <3>1. CASE Merge(f)
      BY <1>0, <3>1 DEF TaskRecord, Merge
    <3>2. CASE EmitIntegrated(f)
      BY <1>0, <3>2 DEF TaskRecord, EmitIntegrated
    <3> QED
      BY <1>1, <3>1, <3>2
  <2>6. \A u \in Tasks : tasks[u].st \in Done => tasks'[u].st \in Done
    BY <2>1, <2>5 DEF Done
  <2>7. \A u \in active' : tasks'[u].st = "running"
    BY <1>0, <2>1, <2>4, <2>5
  <2>8. fibre'[f] = next
    BY <2>2 DEF Emits
  <2> HIDE DEF t
  <2> QED
    BY <1>0, <2>1, <2>2, <2>3, <2>4, <2>6, <2>7, <2>8 DEF Calm, t
<1>2. CASE MergeFails(f)
  <2>1. PICK next : Emits(f, next) /\ (next = Reacting(fibre[f].job) \/ next = Again(f))
    BY <1>2 DEF MergeFails
  <2>2. next.at \in {"sync", "plan"} /\ active' = active
    BY <1>2, <2>1, NextJobs DEF MergeFails
  <2>3. \A u \in Tasks : tasks'[u].st = tasks[u].st
    <3>1. CASE tasks' = [tasks EXCEPT ![t].cand = "conflicted"]
      BY <1>0, <3>1 DEF TaskRecord
    <3>2. CASE tasks' = tasks
      BY <3>2
    <3> QED
      BY <1>2, <3>1, <3>2 DEF MergeFails
  <2>4. fibre'[f] = next
    BY <2>1 DEF Emits
  <2> QED
    BY <1>0, <2>1, <2>2, <2>3, <2>4 DEF Calm
<1> QED
  BY <1>1, <1>2

-----------------------------------------------------------------------------
(* The steps that move the job of a task. *)

(* A dispatch gives the task a run that nothing else has. *)
LEMMA DispatchRuns ==
  ASSUME DeliveryInv, RunsInv, NEW f \in Fibres, EmitDispatch(f)
  PROVE  RunsInv'
<1>0. /\ fibre[f] \in Fibre /\ InPlace(fibre[f]) /\ DeliveryInv'
      /\ tasks \in [Tasks -> TaskRecord] /\ active \subseteq Tasks /\ runs \in Nat
      /\ queue \subseteq Job /\ \A g \in Fibres : fibre[g] \in Fibre
  BY EmitTyped DEF DeliveryInv, Placed, ObjectiveTyped, LedgerTyped, Emit
<1>t. PICK t \in Tasks : t = fibre[f].eff.on
  BY <1>0 DEF InPlace, Directed, EmitDispatch, Appends
<1>1. PICK pass : /\ fibre[f].at = "emit" /\ fibre[f].eff.do = "dispatch" /\ Judged(f)
                  /\ tasks' = [tasks EXCEPT ![t] = [st |-> "running", cand |-> "running",
                                                    passes |-> pass, run |-> runs + 1]]
                  /\ Emits(f, [To(f, "post") EXCEPT !.due = J("task", t, pass, runs + 1)])
  BY <1>t DEF EmitDispatch, Appends
<1>2. /\ runs' = runs + 1 /\ active' = active \cup {t} /\ queue' = queue /\ posted' = posted
      /\ failed' = failed /\ cut' = cut
  BY <1>t DEF EmitDispatch, ledger
<1> DEFINE due == J("task", t, pass, runs + 1)
           next == [To(f, "post") EXCEPT !.due = due]
<1>3. /\ t \in Tasks /\ tasks'[t].run = runs + 1 /\ tasks'[t].st = "running"
      /\ \A u \in Tasks \ {t} : tasks'[u] = tasks[u]
  BY <1>0, <1>1
<1>4. due.kind = "task" /\ due.task = t /\ due.run = runs + 1
  BY DEF J
<1>5. next.at = "post" /\ next.job = fibre[f].job /\ next.due = due
  BY <1>0 DEF To, Fibre
<1> HIDE DEF due
<1>6. /\ fibre'[f] = next
      /\ \A g \in Fibres \ {f} : /\ fibre'[g].at = fibre[g].at /\ fibre'[g].job = fibre[g].job
                                 /\ fibre'[g].eff = fibre[g].eff /\ fibre'[g].due = fibre[g].due
                                 /\ ~fibre'[g].fresh
  <2>1. \A x \in Fibre : LET y == [x EXCEPT !.fresh = FALSE] IN
          y.at = x.at /\ y.job = x.job /\ y.eff = x.eff /\ y.due = x.due /\ ~y.fresh
    BY DEF Fibre
  <2> QED
    BY <1>0, <1>1, <2>1 DEF Emits, due
<1> HIDE DEF next
<1>7. fibre[f].due = NoJob /\ NoJob.run = 0
  BY <1>1 DEF RunsInv, LabelInv, Labels, Settled, NoJob, J
<1>8. \A g \in Fibres : fibre[g].job \in Job /\ fibre[g].due \in Job
  BY <1>0 DEF Fibre
<1>9. \A j \in Job : Labelled(j) => j.run \in Nat /\ j.run # runs + 1
  BY <1>0 DEF Labelled, Job
<1>10. Labels'
  <2> DEFINE Now(j) == /\ j.run <= runs'
                       /\ j.kind # "task" => j.run = 0
                       /\ j.kind = "task" => \A u \in Tasks : tasks'[u].run = j.run => u = j.task
  <2>0. \A u \in Tasks : tasks[u].run \in Nat /\ tasks[u].run <= runs
    BY <1>0 DEF TaskRecord, RunsInv, LabelInv, Labels
  <2>1. \A j \in Job : Labelled(j) => Now(j)
    BY <1>0, <1>2, <1>3, <1>9 DEF Labelled
  <2>2. Now(due)
    BY <1>0, <1>2, <1>3, <1>4, <2>0
  <2> HIDE DEF Now
  <2>3. \A u \in Tasks : tasks'[u].run <= runs'
    BY <1>0, <1>2, <1>3, <2>0
  <2>4. \A j \in queue' : Now(j)
    BY <1>0, <1>2, <2>1 DEF RunsInv, LabelInv, Labels
  <2>5. \A j \in posted' : j.kind # "task"
    BY <1>2 DEF RunsInv, LabelInv, Labels
  <2>6. ASSUME NEW g \in Fibres
        PROVE  Now(fibre'[g].job) /\ Now(fibre'[g].due) /\ Settled(fibre'[g])
    <3>0. Labelled(fibre[g].job) /\ Labelled(fibre[g].due) /\ Settled(fibre[g])
      BY DEF RunsInv, LabelInv, Labels
    <3>1. CASE g = f
      <4>1. Settled(next)
        BY <1>5 DEF Settled
      <4> QED
        BY <1>5, <1>6, <1>8, <2>1, <2>2, <3>0, <3>1, <4>1
    <3>2. CASE g # f
      <4>1. Settled(fibre'[g])
        BY <1>6, <3>0, <3>2 DEF Settled
      <4> QED
        BY <1>6, <1>8, <2>1, <3>0, <3>2, <4>1
    <3> QED
      BY <3>1, <3>2
  <2> QED
    BY <2>3, <2>4, <2>5, <2>6 DEF Labels, Labelled, Now
<1>11. InOneHand'
  <2>1. TaskJobs' = TaskJobs /\ TaskJobs \subseteq queue
    BY <1>2 DEF TaskJobs
  <2>2. Tokens(next) \subseteq {due}
    BY <1>5 DEF Tokens
  <2>3. \A g \in Fibres \ {f} : Tokens(fibre'[g]) = Tokens(fibre[g])
    BY <1>6 DEF Tokens
  <2>4. \A k \in TaskJobs : k.run # due.run
    BY <1>0, <1>4, <1>9, <2>1 DEF RunsInv, LabelInv, Labels
  <2>5. ASSUME NEW g \in Fibres, NEW k \in Tokens(fibre[g]) PROVE k.run # due.run
    <3>1. k = fibre[g].job \/ k = fibre[g].due
      BY DEF Tokens
    <3>2. Labelled(fibre[g].job) /\ Labelled(fibre[g].due)
      BY DEF RunsInv, LabelInv, Labels
    <3> QED
      BY <1>4, <1>8, <1>9, <3>1, <3>2
  <2>6. \A g, h \in Fibres : \A j \in Tokens(fibre'[g]), k \in Tokens(fibre'[h]) :
          j.run = k.run => g = h
    BY <1>6, <2>2, <2>3, <2>5 DEF RunsInv, LabelInv, InOneHand
  <2>7. \A g \in Fibres : \A j \in Tokens(fibre'[g]), k \in TaskJobs : k.run # j.run
    BY <1>6, <2>2, <2>3, <2>4 DEF RunsInv, LabelInv, InOneHand
  <2> QED
    BY <2>1, <2>6, <2>7 DEF RunsInv, LabelInv, InOneHand
<1>12. SeenInv'
  <2>1. ASSUME NEW g \in Fibres PROVE Reported(fibre[g])'
    <3>1. /\ fibre'[g].job = fibre[g].job /\ Labelled(fibre[g].job) /\ Reported(fibre[g])
          /\ fibre'[g].at # "run" => fibre[g].at # "run"
      BY <1>1, <1>5, <1>6 DEF RunsInv, LabelInv, Labels, SeenInv
    <3>2. fibre[g].job.run # runs + 1
      BY <1>8, <1>9, <3>1
    <3> QED
      BY <1>0, <1>2, <1>3, <3>1, <3>2 DEF Reported
  <2>2. ASSUME NEW u \in active \ {t}, Works(tasks[u].run) PROVE Works(tasks[u].run)'
    <3>1. tasks'[u].run = tasks[u].run
      BY <1>0, <1>3
    <3>2. \A g \in Fibres : fibre'[g].job = fibre[g].job
      BY <1>5, <1>6
    <3>3. \A g \in Fibres : fibre'[g].due = fibre[g].due \/ fibre[g].due.run = 0
      BY <1>6, <1>7
    <3> QED
      BY <1>2, <2>2, <3>1, <3>2, <3>3 DEF Works
  <2>3. Works(tasks[t].run)'
    BY <1>0, <1>3, <1>4, <1>5, <1>6 DEF Works
  <2>4. ~cut => \A u \in active' : tasks'[u].run \in failed' \/ Works(tasks[u].run)'
    <3>1. ASSUME ~cut, NEW u \in active \ {t}
          PROVE  tasks'[u].run \in failed' \/ Works(tasks[u].run)'
      <4>1. tasks[u].run \in failed \/ Works(tasks[u].run)
        BY <3>1 DEF RunsInv, SeenInv
      <4> QED
        BY <1>0, <1>2, <1>3, <2>2, <4>1
    <3> QED
      BY <1>2, <2>3, <3>1
  <2>5. cut' \/ ~cut
    BY <1>2
  <2> QED
    BY <2>1, <2>4, <2>5 DEF SeenInv
<1>13. ASSUME stale' = {} PROVE AwaitedInv'
  <2>0. AwaitedInv /\ "effect" \notin stale'
    BY <1>1, <1>13 DEF Judged, RunsInv
  <2>1. t \in Ready
    <3>1. Ready # {} /\ t = Min(Ready)
      BY <1>t, <1>1, <2>0, AppliedIsPlanned, PlannedFor
    <3>2. Ready \subseteq Nat
      BY Small DEF Ready
    <3> QED
      BY <3>1, <3>2, Least
  <2>2. t \notin active /\ tasks[t].st \notin Done
    BY <2>1 DEF Ready, Done
  <2> DEFINE Now(j) == j.run \in failed' \/ (j.task \in active' /\ tasks'[j.task].run = j.run)
  <2>3. \A j : Waits(j) => Now(j)
    BY <1>0, <1>2, <1>3, <2>2 DEF Waits
  <2>4. Now(due)
    BY <1>2, <1>3, <1>4
  <2> HIDE DEF Now
  <2>5. \A j \in TaskJobs' : Now(j)
    BY <1>2, <2>0, <2>3 DEF AwaitedInv, TaskJobs
  <2>6. \A g \in Fibres : \A j \in Tokens(fibre'[g]) : Now(j)
    <3>1. Tokens(next) \subseteq {due}
      BY <1>5 DEF Tokens
    <3>2. \A g \in Fibres \ {f} : Tokens(fibre'[g]) = Tokens(fibre[g])
      BY <1>6 DEF Tokens
    <3> QED
      BY <1>6, <2>0, <2>3, <2>4, <3>1, <3>2 DEF AwaitedInv
  <2>7. \A u \in active' : tasks'[u].st = "running"
    BY <1>0, <1>2, <1>3, <2>0 DEF AwaitedInv
  <2>8. ASSUME NEW g \in Fibres, fibre'[g].at \in {"merge", "merged"}
        PROVE  tasks'[fibre'[g].due.task].st \in Done
    <3>1. g # f /\ fibre[g].at \in {"merge", "merged"} /\ fibre'[g].due = fibre[g].due
      BY <1>5, <1>6, <2>8
    <3>2. tasks[fibre[g].due.task].st \in Done /\ fibre[g].due.task \in Tasks
      BY <2>0, <3>1 DEF AwaitedInv, DeliveryInv, Placed, InPlace, TaskJob
    <3> QED
      BY <1>3, <2>2, <3>1, <3>2
  <2>9. \A g \in Fibres : Lost(fibre[g])'
    BY <1>5, <1>6 DEF Lost
  <2>10. Done' = Done
    BY DEF Done
  <2> QED
    BY <2>5, <2>6, <2>7, <2>8, <2>9, <2>10 DEF AwaitedInv, Waits, Now
<1> QED
  BY <1>10, <1>11, <1>12, <1>13 DEF RunsInv, LabelInv

(* A step that hands jobs on, and changes no task. *)
Known == {NoJob} \cup queue \cup Held \cup {fibre[g].due : g \in Fibres}
InHands == TaskJobs \cup UNION {Tokens(fibre[g]) : g \in Fibres}

(* Jobs that were known before keep their labels. *)
LEMMA KnownLabels ==
  ASSUME DeliveryInv, Labels, runs' = runs, \A t \in Tasks : tasks'[t].run = tasks[t].run,
         queue' \subseteq Known, \A j \in posted' : j.kind # "task",
         \A g \in Fibres : /\ fibre'[g].job \in Known /\ fibre'[g].due \in Known
                           /\ Settled(fibre'[g])
  PROVE  Labels'
<1> DEFINE Now(j) == /\ j.run <= runs'
                     /\ j.kind # "task" => j.run = 0
                     /\ j.kind = "task" => \A t \in Tasks : tasks'[t].run = j.run => t = j.task
<1>1. \A j : Labelled(j) => Now(j)
  BY DEF Labelled
<1>2. Labelled(NoJob)
  BY DEF Labelled, NoJob, J, DeliveryInv, ObjectiveTyped
<1> HIDE DEF Now
<1>3. \A j \in Known : Now(j)
  BY <1>1, <1>2 DEF Known, Held, Labels
<1>4. \A t \in Tasks : tasks'[t].run <= runs'
  BY DEF Labels
<1> QED
  BY <1>3, <1>4 DEF Labels, Labelled, Now

(* A step that hands jobs on keeps what is said of jobs and tasks, if each    *)
(* run stays in one pair of hands.                                         *)
LEMMA HandedOn ==
  ASSUME DeliveryInv, RunsInv, tasks' = tasks, active' = active, runs' = runs, stale' = stale,
         failed \subseteq failed', cut => cut',
         queue' \subseteq Known, \A j \in posted' : j.kind # "task",
         \A g \in Fibres : /\ fibre'[g].job \in Known /\ fibre'[g].due \in Known
                           /\ Settled(fibre'[g]) /\ Reported(fibre[g])',
         \A g \in Fibres : fibre'[g].at \in {"merge", "merged", "emit"} =>
           /\ fibre'[g].at = fibre[g].at /\ fibre'[g].due = fibre[g].due
           /\ fibre'[g].eff = fibre[g].eff
           /\ fibre'[g].fresh => fibre[g].fresh,
         \A t \in active : \/ cut' \/ tasks[t].run \in failed'
                           \/ ~Works(tasks[t].run) \/ Works(tasks[t].run)',
         InOneHand', TaskJobs' \subseteq InHands,
         \A g \in Fibres : Tokens(fibre'[g]) \subseteq InHands
  PROVE  RunsInv'
<1>1. Labels'
  BY KnownLabels DEF RunsInv, LabelInv
<1>2. SeenInv'
  <2>1. cut' \/ \A t \in active' : tasks'[t].run \in failed' \/ Works(tasks[t].run)'
    <3>1. CASE ~cut
      <4>1. \A t \in active : tasks[t].run \in failed \/ Works(tasks[t].run)
        BY <3>1 DEF RunsInv, SeenInv
      <4> QED
        BY <4>1
    <3> QED
      BY <3>1
  <2> QED
    BY <2>1 DEF SeenInv
<1>3. ASSUME stale' = {} PROVE AwaitedInv'
  <2>0. AwaitedInv
    BY <1>3 DEF RunsInv
  <2> DEFINE Now(j) == j.run \in failed' \/ (j.task \in active' /\ tasks'[j.task].run = j.run)
  <2>1. \A j \in InHands : Now(j)
    BY <2>0 DEF InHands, AwaitedInv, Waits
  <2> HIDE DEF Now
  <2>2. \A j \in TaskJobs' : Now(j)
    BY <2>1
  <2>3. \A g \in Fibres : \A j \in Tokens(fibre'[g]) : Now(j)
    BY <2>1
  <2>4. /\ \A t \in active' : tasks'[t].st = "running"
        /\ \A g \in Fibres : fibre'[g].at \in {"merge", "merged"}
                               => tasks'[fibre'[g].due.task].st \in Done
        /\ \A g \in Fibres : Lost(fibre[g])'
    BY <2>0 DEF AwaitedInv, Lost
  <2>5. Done' = Done
    BY DEF Done
  <2> QED
    BY <2>2, <2>3, <2>4, <2>5 DEF AwaitedInv, Waits, Now
<1> QED
  BY <1>1, <1>2, <1>3 DEF RunsInv, LabelInv

(* A job is enqueued. *)
LEMMA PostRuns ==
  ASSUME DeliveryInv, RunsInv, NEW f \in Fibres, Post(f) PROVE RunsInv'
<1> DEFINE due == fibre[f].due
<1>0. /\ fibre[f] \in Fibre /\ fibre[f].at = "post" /\ Moves(f, Again(f))
      /\ fibre \in [Fibres -> Placed] /\ queue \subseteq queue'
      /\ queue' \subseteq queue \cup {due}
      /\ posted' = IF due.kind = "task" THEN posted ELSE posted \cup {due}
  BY DEF Post, DeliveryInv, Placed
<1>1. /\ tasks' = tasks /\ active' = active /\ runs' = runs /\ failed' = failed
      /\ stale' = stale /\ cut' = cut
  BY DEF Post, objective
<1>2. /\ fibre'[f] = Again(f) /\ \A g \in Fibres \ {f} : fibre'[g] = fibre[g]
      /\ Again(f).at = "plan" /\ Again(f).job = fibre[f].job /\ Again(f).due = NoJob
  BY <1>0, NextJobs DEF Moves
<1>3. due \notin posted \/ due.kind # "task"
  BY DEF RunsInv, LabelInv, Labels
<1>4. due \in queue' \/ due.kind # "task"
  BY <1>3 DEF Post
<1>5. \A j \in posted' : j.kind # "task"
  BY <1>0 DEF RunsInv, LabelInv, Labels
<1>6. ASSUME NEW g \in Fibres
      PROVE  /\ fibre'[g].job \in Known /\ fibre'[g].due \in Known
             /\ Settled(fibre'[g]) /\ Reported(fibre[g])'
  <2>0. Settled(fibre[g]) /\ Reported(fibre[g])
    BY DEF RunsInv, LabelInv, Labels, SeenInv
  <2>1. CASE g = f
    BY <1>0, <1>1, <1>2, <2>0, <2>1 DEF Known, Held, Settled, Reported
  <2>2. CASE g # f
    BY <1>1, <1>2, <2>0, <2>2 DEF Known, Held, Reported
  <2> QED
    BY <2>1, <2>2
<1>7. \A t \in active : ~Works(tasks[t].run) \/ Works(tasks[t].run)'
  <2>1. ASSUME NEW t \in active, Works(tasks[t].run) PROVE Works(tasks[t].run)'
    <3>1. CASE \E j \in queue : j.run = tasks[t].run
      BY <1>0, <1>1, <2>1, <3>1 DEF Works
    <3>2. CASE \E g \in Fibres : fibre[g].job.run = tasks[t].run
      BY <1>1, <1>2, <2>1, <3>2 DEF Works
    <3>3. CASE \E g \in Fibres \ {f} : fibre[g].due.run = tasks[t].run
      BY <1>1, <1>2, <2>1, <3>3 DEF Works
    <3>4. CASE due.run = tasks[t].run
      <4>1. Labelled(due) /\ due.run # 0
        BY <2>1, <3>4 DEF RunsInv, LabelInv, Labels, Works
      <4>2. due \in queue'
        BY <1>4, <4>1 DEF Labelled
      <4> QED
        BY <1>1, <2>1, <3>4, <4>2 DEF Works
    <3> QED
      BY <2>1, <3>1, <3>2, <3>3, <3>4 DEF Works
  <2> QED
    BY <2>1
<1>8. /\ Tokens(fibre'[f]) = {} /\ \A g \in Fibres \ {f} : fibre'[g] = fibre[g]
      /\ due.kind = "task" => due \in Tokens(fibre[f])
      /\ TaskJobs \subseteq TaskJobs' /\ \A j \in TaskJobs' : j \in TaskJobs \/ (j = due /\ due.kind = "task")
  BY <1>0, <1>2 DEF Tokens, TaskJobs
<1> HIDE DEF due
<1>9. InOneHand'
  <2>1. \A j, k \in TaskJobs' : j.run = k.run => j = k
    BY <1>8 DEF RunsInv, LabelInv, InOneHand
  <2>2. \A g \in Fibres : \A j \in Tokens(fibre'[g]), k \in TaskJobs' : k.run # j.run
    BY <1>8 DEF RunsInv, LabelInv, InOneHand
  <2>3. \A g, h \in Fibres : \A j \in Tokens(fibre'[g]), k \in Tokens(fibre'[h]) :
          j.run = k.run => g = h
    BY <1>8 DEF RunsInv, LabelInv, InOneHand
  <2> QED
    BY <2>1, <2>2, <2>3 DEF InOneHand
<1>10. TaskJobs' \subseteq InHands /\ \A g \in Fibres : Tokens(fibre'[g]) \subseteq InHands
  BY <1>8 DEF InHands
<1>11. queue' \subseteq Known
  BY <1>0 DEF Known, due
<1>12. \A g \in Fibres : fibre'[g].at \in {"merge", "merged", "emit"} => fibre'[g] = fibre[g]
  BY <1>2
<1> QED
  BY <1>1, <1>5, <1>6, <1>7, <1>9, <1>10, <1>11, <1>12, HandedOn

(* A worker leases the job of a task. *)
LEMMA TakeRuns ==
  ASSUME DeliveryInv, RunsInv, NEW f \in Fibres, Take(f), fibre'[f].at = "run"
  PROVE  RunsInv'
<1>0. Idle \in Fibre /\ fibre[f].at = "idle" /\ fibre[f].job = NoJob /\ fibre[f].due = NoJob
      /\ fibre \in [Fibres -> Placed]
  BY Small DEF Take, Placed, DeliveryInv, RunsInv, LabelInv, Labels, Settled
<1>1. PICK j \in queue :
        /\ queue' = queue \ {j}
        /\ \/ j.kind = "task" /\ Moves(f, [Idle EXCEPT !.at = "run", !.job = j])
           \/ Emits(f, [Idle EXCEPT !.at = "validating", !.job = j,
                                    !.eff = [Nothing EXCEPT !.up = merged]])
           \/ Moves(f, Idle)
           \/ Moves(f, [Idle EXCEPT !.at = "publishing", !.job = j])
  BY DEF Take
<1> DEFINE next == [Idle EXCEPT !.at = "run", !.job = j]
<1>2. j.kind = "task" /\ Moves(f, next)
  <2>1. /\ Idle.at = "idle" /\ [Idle EXCEPT !.at = "publishing", !.job = j].at = "publishing"
        /\ [Idle EXCEPT !.at = "validating", !.job = j,
                        !.eff = [Nothing EXCEPT !.up = merged]].at = "validating"
    BY DEF Idle
  <2>2. \A x : Moves(f, x) \/ Emits(f, x) => fibre'[f] = x
    BY <1>0 DEF Moves, Emits
  <2> QED
    BY <1>1, <2>1, <2>2
<1>3. next.at = "run" /\ next.job = j /\ next.due = NoJob
  BY DEF Idle
<1> HIDE DEF next
<1>4. fibre'[f] = next /\ \A g \in Fibres \ {f} : fibre'[g] = fibre[g]
  BY <1>0, <1>2 DEF Moves
<1>5. /\ tasks' = tasks /\ active' = active /\ runs' = runs /\ failed' = failed
      /\ stale' = stale /\ cut' = cut /\ posted' = posted
  BY DEF Take
<1>6. ASSUME NEW g \in Fibres
      PROVE  /\ fibre'[g].job \in Known /\ fibre'[g].due \in Known
             /\ Settled(fibre'[g]) /\ Reported(fibre[g])'
  <2>0. Settled(fibre[g]) /\ Reported(fibre[g])
    BY DEF RunsInv, LabelInv, Labels, SeenInv
  <2>1. CASE g = f
    BY <1>3, <1>4, <2>1 DEF Known, Settled, Reported
  <2>2. CASE g # f
    BY <1>4, <1>5, <2>0, <2>2 DEF Known, Held, Reported
  <2> QED
    BY <2>1, <2>2
<1>7. \A t \in active : ~Works(tasks[t].run) \/ Works(tasks[t].run)'
  <2>1. ASSUME NEW t \in active, Works(tasks[t].run) PROVE Works(tasks[t].run)'
    <3>0. NoJob.run = 0
      BY DEF NoJob, J
    <3>1. CASE j.run = tasks[t].run
      BY <1>3, <1>4, <1>5, <2>1, <3>1 DEF Works
    <3>2. CASE \E k \in queue \ {j} : k.run = tasks[t].run
      BY <1>1, <1>5, <2>1, <3>2 DEF Works
    <3>3. CASE \E g \in Fibres \ {f} : fibre[g].job.run = tasks[t].run
                                       \/ fibre[g].due.run = tasks[t].run
      BY <1>4, <1>5, <2>1, <3>3 DEF Works
    <3> QED
      BY <1>0, <2>1, <3>0, <3>1, <3>2, <3>3 DEF Works
  <2> QED
    BY <2>1
<1>8. /\ Tokens(fibre'[f]) = {j} /\ j \in TaskJobs /\ TaskJobs' = TaskJobs \ {j}
      /\ \A g \in Fibres \ {f} : Tokens(fibre'[g]) = Tokens(fibre[g])
  BY <1>1, <1>2, <1>3, <1>4 DEF Tokens, TaskJobs
<1>9. InOneHand'
  <2>1. \A i, k \in TaskJobs' : i.run = k.run => i = k
    BY <1>8 DEF RunsInv, LabelInv, InOneHand
  <2>2. \A g \in Fibres : \A i \in Tokens(fibre'[g]), k \in TaskJobs' : k.run # i.run
    BY <1>8 DEF RunsInv, LabelInv, InOneHand
  <2>3. \A g, h \in Fibres : \A i \in Tokens(fibre'[g]), k \in Tokens(fibre'[h]) :
          i.run = k.run => g = h
    BY <1>8 DEF RunsInv, LabelInv, InOneHand
  <2> QED
    BY <2>1, <2>2, <2>3 DEF InOneHand
<1>10. TaskJobs' \subseteq InHands /\ \A g \in Fibres : Tokens(fibre'[g]) \subseteq InHands
  BY <1>8 DEF InHands
<1>11. queue' \subseteq Known /\ \A i \in posted' : i.kind # "task"
  BY <1>1, <1>5 DEF Known, RunsInv, LabelInv, Labels
<1>12. \A g \in Fibres : fibre'[g].at \in {"merge", "merged", "emit"} => fibre'[g] = fibre[g]
  BY <1>3, <1>4
<1> QED
  BY <1>5, <1>6, <1>7, <1>9, <1>10, <1>11, <1>12, HandedOn

(* A job of a task that is canceled, or fails. *)
LEMMA FailRuns ==
  ASSUME DeliveryInv, RunsInv, NEW f \in Fibres, Abort(f) \/ Fails(f)
  PROVE  RunsInv'
<1> DEFINE job == fibre[f].job
<1>0. /\ fibre[f].at = "run" /\ fibre[f].due = NoJob /\ job.kind = "task"
      /\ fibre \in [Fibres -> Placed]
  BY DEF Abort, Fails, DeliveryInv, Placed, InPlace, RunsInv, LabelInv, Labels, Settled
<1>1. /\ tasks' = tasks /\ active' = active /\ runs' = runs /\ failed \subseteq failed'
      /\ stale' = stale /\ cut' = cut /\ posted' = posted
      /\ queue' = queue \/ queue' = queue \cup {job}
      /\ job \in queue' \/ job.run \in failed'
  BY DEF Abort, Fails, objective, ledger
<1>2. /\ fibre'[f].at = "idle" /\ fibre'[f].job = NoJob /\ fibre'[f].due = NoJob
      /\ \A g \in Fibres \ {f} : /\ fibre'[g].at = fibre[g].at /\ fibre'[g].job = fibre[g].job
                                 /\ fibre'[g].eff = fibre[g].eff /\ fibre'[g].due = fibre[g].due
                                 /\ fibre'[g].fresh => fibre[g].fresh
  <2>1. PICK x \in {Idle, Cold(Idle)} : Moves(f, x) \/ Emits(f, x)
    <3>1. Moves(f, Idle) \/ Signals(f, Idle)
      BY DEF Abort, Fails
    <3>2. Moves(f, Idle) \/ Emits(f, Cold(Idle))
      BY <3>1 DEF Signals, Cold
    <3> QED
      BY <3>2
  <2>2. x \in Placed /\ x.at = "idle" /\ x.job = NoJob /\ x.due = NoJob
    BY <2>1, ColdPlaced, NextJobs, Small
  <2> QED
    BY <1>0, <2>1, <2>2, MovesPlaced
<1>3. ASSUME NEW g \in Fibres
      PROVE  /\ fibre'[g].job \in Known /\ fibre'[g].due \in Known
             /\ Settled(fibre'[g]) /\ Reported(fibre[g])'
  <2>0. Settled(fibre[g]) /\ Reported(fibre[g])
    BY DEF RunsInv, LabelInv, Labels, SeenInv
  <2>1. CASE g = f
    <3>1. NoJob.kind = "none"
      BY DEF NoJob, J
    <3> QED
      BY <1>2, <2>1, <3>1 DEF Known, Settled, Reported
  <2>2. CASE g # f
    BY <1>1, <1>2, <2>0, <2>2 DEF Known, Held, Settled, Reported
  <2> QED
    BY <2>1, <2>2
<1>4. \A t \in active : \/ tasks[t].run \in failed'
                        \/ ~Works(tasks[t].run) \/ Works(tasks[t].run)'
  <2>1. ASSUME NEW t \in active, Works(tasks[t].run), tasks[t].run \notin failed'
        PROVE  Works(tasks[t].run)'
    <3>0. NoJob.run = 0
      BY DEF NoJob, J
    <3>1. CASE job.run = tasks[t].run
      <4>1. job \in queue'
        BY <1>1, <2>1, <3>1
      <4> QED
        BY <1>1, <2>1, <3>1, <4>1 DEF Works
    <3>2. CASE \E k \in queue : k.run = tasks[t].run
      BY <1>1, <2>1, <3>2 DEF Works
    <3>3. CASE \E g \in Fibres \ {f} : fibre[g].job.run = tasks[t].run
                                       \/ fibre[g].due.run = tasks[t].run
      BY <1>1, <1>2, <2>1, <3>3 DEF Works
    <3> QED
      BY <1>0, <2>1, <3>0, <3>1, <3>2, <3>3 DEF Works
  <2> QED
    BY <2>1
<1>5. /\ Tokens(fibre'[f]) = {} /\ job \in Tokens(fibre[f])
      /\ TaskJobs \subseteq TaskJobs' /\ \A j \in TaskJobs' : j \in TaskJobs \/ j = job
      /\ \A g \in Fibres \ {f} : Tokens(fibre'[g]) = Tokens(fibre[g])
  BY <1>0, <1>1, <1>2 DEF Tokens, TaskJobs
<1> HIDE DEF job
<1>6. InOneHand'
  <2>1. \A j, k \in TaskJobs' : j.run = k.run => j = k
    BY <1>5 DEF RunsInv, LabelInv, InOneHand
  <2>2. \A g \in Fibres : \A j \in Tokens(fibre'[g]), k \in TaskJobs' : k.run # j.run
    BY <1>5 DEF RunsInv, LabelInv, InOneHand
  <2>3. \A g, h \in Fibres : \A j \in Tokens(fibre'[g]), k \in Tokens(fibre'[h]) :
          j.run = k.run => g = h
    BY <1>5 DEF RunsInv, LabelInv, InOneHand
  <2> QED
    BY <2>1, <2>2, <2>3 DEF InOneHand
<1>7. TaskJobs' \subseteq InHands /\ \A g \in Fibres : Tokens(fibre'[g]) \subseteq InHands
  BY <1>5 DEF InHands
<1>8. queue' \subseteq Known /\ \A i \in posted' : i.kind # "task"
  BY <1>1 DEF Known, Held, job, RunsInv, LabelInv, Labels
<1>9. \A g \in Fibres : fibre'[g].at \in {"merge", "merged", "emit"} =>
        /\ fibre'[g].at = fibre[g].at /\ fibre'[g].due = fibre[g].due
        /\ fibre'[g].eff = fibre[g].eff
        /\ fibre'[g].fresh => fibre[g].fresh
  BY <1>2
<1> QED
  BY <1>1, <1>3, <1>4, <1>6, <1>7, <1>8, <1>9, HandedOn

(* Advice takes the heads of the fibres away, and nothing else. *)
LEMMA AdviceRuns ==
  ASSUME DeliveryInv, RunsInv, NEW a \in Tasks, Advise(a) PROVE RunsInv'
<1>1. /\ tasks' = tasks /\ active' = active /\ runs' = runs /\ failed' = failed
      /\ stale' = stale /\ cut' = cut /\ posted' = posted /\ queue' = queue
  BY DEF Advise
<1>2. ASSUME NEW g \in Fibres
      PROVE  /\ fibre'[g].at = fibre[g].at /\ fibre'[g].job = fibre[g].job
             /\ fibre'[g].eff = fibre[g].eff /\ fibre'[g].due = fibre[g].due
             /\ ~fibre'[g].fresh
  <2>1. \A x \in Fibre : LET y == [x EXCEPT !.fresh = FALSE] IN
          y.at = x.at /\ y.job = x.job /\ y.eff = x.eff /\ y.due = x.due /\ ~y.fresh
    BY DEF Fibre
  <2> QED
    BY <2>1 DEF Advise, DeliveryInv, Placed
<1>3. ASSUME NEW g \in Fibres
      PROVE  /\ fibre'[g].job \in Known /\ fibre'[g].due \in Known
             /\ Settled(fibre'[g]) /\ Reported(fibre[g])'
  <2>0. Settled(fibre[g]) /\ Reported(fibre[g])
    BY DEF RunsInv, LabelInv, Labels, SeenInv
  <2> QED
    BY <1>1, <1>2, <2>0 DEF Known, Held, Settled, Reported
<1>4. \A t \in active : ~Works(tasks[t].run) \/ Works(tasks[t].run)'
  BY <1>1, <1>2 DEF Works
<1>5. TaskJobs' = TaskJobs /\ \A g \in Fibres : Tokens(fibre'[g]) = Tokens(fibre[g])
  BY <1>1, <1>2 DEF TaskJobs, Tokens
<1>6. InOneHand'
  BY <1>5 DEF RunsInv, LabelInv, InOneHand
<1>7. TaskJobs' \subseteq InHands /\ \A g \in Fibres : Tokens(fibre'[g]) \subseteq InHands
  BY <1>5 DEF InHands
<1>8. queue' \subseteq Known /\ \A i \in posted' : i.kind # "task"
  BY <1>1 DEF Known, RunsInv, LabelInv, Labels
<1> QED
  BY <1>1, <1>2, <1>3, <1>4, <1>6, <1>7, <1>8, HandedOn

(* The process dies: the runs that were at work are queued again. *)
LEMMA CrashRuns == ASSUME DeliveryInv, RunsInv, Crash PROVE RunsInv'
<1>1. /\ tasks' = tasks /\ active' = active /\ runs' = runs /\ failed' = failed
      /\ stale' = stale /\ posted' = posted
      /\ queue' = queue \cup {fibre[f].job : f \in {g \in Fibres : fibre[g].at = "run"}}
      /\ \A g \in Fibres : fibre'[g] = Idle \/ fibre'[g] = Reacting(NoJob)
  BY DEF Crash, objective
<1>2. cut => cut'
  BY DEF Crash
<1>3. (\E f \in Fibres : fibre[f].at \in {"post", "merge", "merged"}) => cut'
  BY DEF Crash
<1>4. /\ \A g \in Fibres : /\ fibre'[g].at \in {"idle", "sync"}
                           /\ fibre'[g].job = NoJob /\ fibre'[g].due = NoJob
      /\ NoJob.kind = "none" /\ NoJob.run = 0
  <2>1. /\ Idle.at = "idle" /\ Idle.job = NoJob /\ Idle.due = NoJob
        /\ Reacting(NoJob).at = "sync" /\ Reacting(NoJob).job = NoJob
        /\ Reacting(NoJob).due = NoJob
    BY DEF Idle, Reacting
  <2> QED
    BY <1>1, <2>1 DEF NoJob, J
<1>5. ASSUME NEW g \in Fibres
      PROVE  /\ fibre'[g].job \in Known /\ fibre'[g].due \in Known
             /\ Settled(fibre'[g]) /\ Reported(fibre[g])'
  BY <1>1, <1>4 DEF Known, Settled, Reported
<1>6. \A t \in active : cut' \/ tasks[t].run \in failed' \/ ~Works(tasks[t].run) \/ Works(tasks[t].run)'
  <2>1. ASSUME NEW t \in active, Works(tasks[t].run), ~cut'
        PROVE  Works(tasks[t].run)'
    <3>0. t \in Tasks
      BY DEF DeliveryInv, ObjectiveTyped
    <3>1. CASE \E k \in queue : k.run = tasks[t].run
      BY <1>1, <2>1, <3>1 DEF Works
    <3>2. ASSUME NEW g \in Fibres, fibre[g].job.run = tasks[t].run PROVE fibre[g].job \in queue'
      <4>1. Labelled(fibre[g].job) /\ Reported(fibre[g])
        BY DEF RunsInv, LabelInv, Labels, SeenInv
      <4>2. fibre[g].job.kind = "task" /\ fibre[g].job.task = t
        BY <2>1, <3>0, <3>2, <4>1 DEF Labelled, Works
      <4>3. fibre[g].at = "run"
        BY <3>2, <4>1, <4>2 DEF Reported
      <4> QED
        BY <1>1, <4>3
    <3>3. CASE \E g \in Fibres : fibre[g].job.run = tasks[t].run
      BY <1>1, <2>1, <3>2, <3>3 DEF Works
    <3>4. \A g \in Fibres : fibre[g].due = NoJob
      BY <1>3, <2>1 DEF RunsInv, LabelInv, Labels, Settled
    <3> QED
      BY <1>4, <2>1, <3>1, <3>3, <3>4 DEF Works
  <2> QED
    BY <2>1
<1>7. \A g \in Fibres : Tokens(fibre'[g]) = {}
  BY <1>1, <1>4 DEF Tokens
<1>8. \A j \in TaskJobs' : j \in TaskJobs \/ \E g \in Fibres : j \in Tokens(fibre[g])
  BY <1>1 DEF TaskJobs, Tokens
<1>9. InOneHand'
  <2>1. ASSUME NEW j \in TaskJobs', NEW k \in TaskJobs', j.run = k.run PROVE j = k
    <3>1. CASE j \in TaskJobs /\ k \in TaskJobs
      BY <2>1, <3>1 DEF RunsInv, LabelInv, InOneHand
    <3>2. CASE j \notin TaskJobs /\ k \notin TaskJobs
      <4>1. PICK g \in Fibres, h \in Fibres : /\ fibre[g].at = "run" /\ j = fibre[g].job
                                              /\ fibre[h].at = "run" /\ k = fibre[h].job
        BY <1>1, <3>2 DEF TaskJobs
      <4>2. j \in Tokens(fibre[g]) /\ k \in Tokens(fibre[h])
        BY <4>1 DEF Tokens
      <4>3. g = h
        BY <2>1, <4>2 DEF RunsInv, LabelInv, InOneHand
      <4> QED
        BY <4>1, <4>3
    <3>3. CASE j \in TaskJobs /\ k \notin TaskJobs
      BY <1>8, <2>1, <3>3 DEF RunsInv, LabelInv, InOneHand
    <3>4. CASE j \notin TaskJobs /\ k \in TaskJobs
      BY <1>8, <2>1, <3>4 DEF RunsInv, LabelInv, InOneHand
    <3> QED
      BY <3>1, <3>2, <3>3, <3>4
  <2> QED
    BY <1>7, <2>1 DEF InOneHand
<1>10. TaskJobs' \subseteq InHands /\ \A g \in Fibres : Tokens(fibre'[g]) \subseteq InHands
  BY <1>7, <1>8 DEF InHands
<1>11. queue' \subseteq Known /\ \A j \in posted' : j.kind # "task"
  BY <1>1 DEF Known, Held, RunsInv, LabelInv, Labels
<1>12. \A g \in Fibres : fibre'[g].at \notin {"merge", "merged", "emit"}
  BY <1>4
<1> QED
  BY <1>1, <1>2, <1>5, <1>6, <1>9, <1>10, <1>11, <1>12, HandedOn

(* A result takes its task out of the active ones; a job whose run was not   *)
(* canceled is the one that the task waits for.                            *)
LEMMA ResultRuns ==
  ASSUME DeliveryInv, RunsInv, NEW f \in Fibres, Result(f) PROVE RunsInv'
<1> DEFINE job == fibre[f].job
<1>0. /\ fibre[f].at = "run" /\ Emits(f, Reacting(job)) /\ job.kind = "task" /\ job.task \in Tasks
      /\ fibre \in [Fibres -> Placed] /\ fibre[f].due = NoJob /\ job \in Job
      /\ tasks \in [Tasks -> TaskRecord] /\ active \subseteq Tasks
  <2>1. fibre[f].at = "run" /\ Emits(f, Reacting(job))
    BY DEF Result
  <2>2. fibre[f] \in Fibre /\ InPlace(fibre[f]) /\ fibre \in [Fibres -> Placed]
    BY DEF DeliveryInv, Placed
  <2>3. job.kind = "task" /\ job.task \in Tasks /\ job \in Job
    BY <2>1, <2>2 DEF InPlace, TaskJob, Working, Fibre
  <2>4. fibre[f].due = NoJob
    BY <2>1 DEF RunsInv, LabelInv, Labels, Settled
  <2> QED
    BY <2>1, <2>2, <2>3, <2>4 DEF DeliveryInv, ObjectiveTyped
<1>1. /\ active' = active \ {job.task} /\ runs' = runs /\ queue' = queue /\ posted' = posted
      /\ failed' = failed /\ cut' = cut
      /\ stale' = stale \cup IF job.run \in failed THEN {"result"} ELSE {}
  BY DEF Result, ledger
<1>2. /\ fibre'[f] = Reacting(job)
      /\ \A g \in Fibres \ {f} : /\ fibre'[g].at = fibre[g].at /\ fibre'[g].job = fibre[g].job
                                 /\ fibre'[g].eff = fibre[g].eff /\ fibre'[g].due = fibre[g].due
                                 /\ ~fibre'[g].fresh
      /\ Reacting(job).at = "sync" /\ Reacting(job).job = job /\ Reacting(job).due = NoJob
  <2>1. \A x \in Fibre : LET y == [x EXCEPT !.fresh = FALSE] IN
          y.at = x.at /\ y.job = x.job /\ y.eff = x.eff /\ y.due = x.due /\ ~y.fresh
    BY DEF Fibre
  <2>2. \A g \in Fibres : fibre[g] \in Fibre
    BY <1>0 DEF Placed
  <2> QED
    BY <1>0, <2>1, <2>2, NextJobs DEF Emits
<1>3. \A t \in Tasks : /\ tasks'[t].run = tasks[t].run
                       /\ t # job.task => tasks'[t] = tasks[t]
  <2>1. PICK rec \in TaskRecord : /\ tasks' = [tasks EXCEPT ![job.task] = rec]
                                  /\ rec.run = tasks[job.task].run
    BY <1>0, Results DEF DeliveryInv
  <2> QED
    BY <1>0, <2>1
<1>4. Labels'
  <2>1. ASSUME NEW g \in Fibres
        PROVE  fibre'[g].job \in Known /\ fibre'[g].due \in Known /\ Settled(fibre'[g])
    <3>0. Settled(fibre[g])
      BY DEF RunsInv, LabelInv, Labels
    <3>1. CASE g = f
      BY <1>2, <3>1 DEF Known, Held, Settled
    <3>2. CASE g # f
      BY <1>2, <3>0, <3>2 DEF Known, Held, Settled
    <3> QED
      BY <3>1, <3>2
  <2>2. queue' \subseteq Known /\ \A j \in posted' : j.kind # "task"
    BY <1>1 DEF Known, RunsInv, LabelInv, Labels
  <2> QED
    BY <1>1, <1>3, <2>1, <2>2, KnownLabels DEF RunsInv, LabelInv
<1>5. /\ Tokens(fibre'[f]) = {} /\ job \in Tokens(fibre[f]) /\ TaskJobs' = TaskJobs
      /\ \A g \in Fibres \ {f} : Tokens(fibre'[g]) = Tokens(fibre[g])
  BY <1>0, <1>1, <1>2 DEF Tokens, TaskJobs
<1>6. InOneHand'
  BY <1>5 DEF RunsInv, LabelInv, InOneHand
<1>7. SeenInv'
  <2>1. ASSUME NEW g \in Fibres PROVE Reported(fibre[g])'
    <3>0. Reported(fibre[g])
      BY DEF RunsInv, SeenInv
    <3>1. CASE g = f
      BY <1>1, <1>2, <3>1 DEF Reported
    <3>2. CASE g # f
      BY <1>0, <1>1, <1>2, <1>3, <3>0, <3>2 DEF Reported
    <3> QED
      BY <3>1, <3>2
  <2>2. ASSUME NEW t \in active', Works(tasks[t].run) PROVE Works(tasks[t].run)'
    <3>1. tasks'[t].run = tasks[t].run
      BY <1>0, <1>1, <1>3
    <3>2. \A g \in Fibres : fibre'[g].job = fibre[g].job /\ fibre'[g].due = fibre[g].due
      BY <1>0, <1>2
    <3> QED
      BY <1>1, <2>2, <3>1, <3>2 DEF Works
  <2>3. ASSUME ~cut, NEW t \in active'
        PROVE  tasks'[t].run \in failed' \/ Works(tasks[t].run)'
    <3>1. tasks[t].run \in failed \/ Works(tasks[t].run)
      BY <1>1, <2>3 DEF RunsInv, SeenInv
    <3> QED
      BY <1>0, <1>1, <1>3, <2>2, <3>1
  <2>4. cut' \/ ~cut
    BY <1>1
  <2> QED
    BY <2>1, <2>3, <2>4 DEF SeenInv
<1>8. ASSUME stale' = {} PROVE AwaitedInv'
  <2>0. AwaitedInv /\ job.run \notin failed
    BY <1>1, <1>8 DEF RunsInv
  <2>1. job.task \in active /\ tasks[job.task].run = job.run /\ tasks[job.task].st \notin Done
    BY <1>5, <2>0 DEF AwaitedInv, Waits, Done
  <2> DEFINE Now(j) == j.run \in failed' \/ (j.task \in active' /\ tasks'[j.task].run = j.run)
  <2>2. \A j : Waits(j) /\ j.run # job.run => Now(j)
    BY <1>0, <1>1, <1>3, <2>1 DEF Waits
  <2> HIDE DEF Now
  <2>3. \A j \in TaskJobs' : Now(j)
    BY <1>5, <2>0, <2>2 DEF AwaitedInv, RunsInv, LabelInv, InOneHand
  <2>4. \A g \in Fibres : \A j \in Tokens(fibre'[g]) : Now(j)
    BY <1>5, <2>0, <2>2 DEF AwaitedInv, RunsInv, LabelInv, InOneHand
  <2>5. \A t \in active' : tasks'[t].st = "running"
    BY <1>0, <1>1, <1>3, <2>0 DEF AwaitedInv
  <2>6. ASSUME NEW g \in Fibres, fibre'[g].at \in {"merge", "merged"}
        PROVE  tasks'[fibre'[g].due.task].st \in Done
    <3>1. g # f /\ fibre[g].at \in {"merge", "merged"} /\ fibre'[g].due = fibre[g].due
      BY <1>2, <2>6
    <3>2. tasks[fibre[g].due.task].st \in Done /\ fibre[g].due.task \in Tasks
      BY <2>0, <3>1 DEF AwaitedInv, DeliveryInv, Placed, InPlace, TaskJob
    <3> QED
      BY <1>3, <2>1, <3>1, <3>2
  <2>7. \A g \in Fibres : Lost(fibre[g])'
    BY <1>2 DEF Lost
  <2>8. Done' = Done
    BY DEF Done
  <2> QED
    BY <2>3, <2>4, <2>5, <2>6, <2>7, <2>8 DEF AwaitedInv, Waits, Now
<1> QED
  BY <1>4, <1>6, <1>7, <1>8 DEF RunsInv, LabelInv

(* A step that moves no job of a task. *)
LEMMA PlainRuns ==
  ASSUME DeliveryInv, RunsInv, NEW f \in Fibres, \E next : Plain(f, next),
         stale \subseteq stale',
         AwaitedInv /\ stale' = {} => Calm(f, fibre'[f])
  PROVE  RunsInv'
<1>1. PICK next : Plain(f, next)
  OBVIOUS
<1>2. fibre'[f] = next
  BY <1>1, PlainFrame
<1>3. LabelInv'
  BY <1>1, PlainLabels DEF RunsInv
<1>4. SeenInv'
  BY <1>1, PlainSeen DEF RunsInv
<1>5. ASSUME stale' = {} PROVE AwaitedInv'
  <2>1. AwaitedInv
    BY <1>5 DEF RunsInv
  <2>2. Calm(f, next)
    BY <1>2, <1>5, <2>1
  <2> QED
    BY <1>1, <2>1, <2>2, PlainAwaited DEF RunsInv
<1> QED
  BY <1>3, <1>4, <1>5 DEF RunsInv

(* The jobs that are not of a task, requests and cancellations touch none. *)
LEMMA CalmWork ==
  ASSUME DeliveryInv, AwaitedInv, NEW f \in Fibres,
         \/ Control(f) \/ Pass(f) \/ Check(f) \/ EndControl(f)
         \/ Validated(f) \/ Published(f) \/ Cancel(f) \/ Note(f)
         \/ CancelJobs(f) \/ Take(f)
  PROVE  Calm(f, fibre'[f])
<1>1. active' = active /\ tasks' = tasks
  BY DEF Control, Pass, Check, EndControl, Validated, Published, Cancel, Note, CancelJobs, Take,
         objective
<1>2. \A next : Moves(f, next) \/ Emits(f, next) => fibre'[f] = next
  BY DEF Moves, Emits, DeliveryInv
<1>3. fibre'[f].at \notin {"merge", "merged", "emit"}
  <2>1. /\ Idle.at = "idle" /\ To(f, "cancel").at = "cancel" /\ \A job : Reacting(job).at = "sync"
        /\ To(f, "end").at = "end"
    BY NextJobs
  <2>c. \A job : [To(f, "pass") EXCEPT !.job = job].at = "pass"
    BY DEF To, DeliveryInv, Placed, Fibre
  <2>2. \A job, eff, at : /\ [Idle EXCEPT !.at = at, !.job = job].at = at
                          /\ [Idle EXCEPT !.at = at, !.job = job, !.eff = eff].at = at
    BY DEF Idle
  <2>3. CASE Control(f) \/ EndControl(f)
    <3>1. \/ Moves(f, Idle)
          \/ Moves(f, [Idle EXCEPT !.at = "pass", !.job = J("control", 0, 1, 0)])
      BY <2>3 DEF Control, EndControl
    <3>2. [Idle EXCEPT !.at = "pass", !.job = J("control", 0, 1, 0)].at = "pass"
      BY <2>2
    <3> QED
      BY <1>2, <2>1, <3>1, <3>2
  <2>8. CASE Pass(f)
    BY <1>2, <2>1, <2>8 DEF Pass, Retires
  <2>9. CASE Check(f)
    <3>1. \/ Moves(f, To(f, "end"))
          \/ Moves(f, [To(f, "pass") EXCEPT !.job = J("control", 0, 2, 0)])
      BY <2>9 DEF Check, Retires
    <3> QED
      BY <1>2, <2>1, <2>c, <3>1
  <2>4. CASE Validated(f)
    BY <1>2, <2>1, <2>4 DEF Validated
  <2>5. CASE Published(f)
    BY <1>2, <2>1, <2>5 DEF Published
  <2>6. CASE Cancel(f) \/ Note(f) \/ CancelJobs(f)
    BY <1>2, <2>1, <2>6 DEF Cancel, Note, CancelJobs
  <2>7. CASE Take(f)
    <3>1. PICK j :
            \/ Moves(f, [Idle EXCEPT !.at = "run", !.job = j])
            \/ Emits(f, [Idle EXCEPT !.at = "validating", !.job = j,
                                     !.eff = [Nothing EXCEPT !.up = merged]])
            \/ Moves(f, Idle)
            \/ Moves(f, [Idle EXCEPT !.at = "publishing", !.job = j])
      BY <2>7 DEF Take
    <3> DEFINE a == [Idle EXCEPT !.at = "run", !.job = j]
               b == [Idle EXCEPT !.at = "validating", !.job = j,
                                 !.eff = [Nothing EXCEPT !.up = merged]]
               c == [Idle EXCEPT !.at = "publishing", !.job = j]
    <3>2. a.at = "run" /\ b.at = "validating" /\ c.at = "publishing"
      BY <2>2
    <3>3. Moves(f, a) \/ Emits(f, b) \/ Moves(f, Idle) \/ Moves(f, c)
      BY <3>1
    <3> HIDE DEF a, b, c
    <3> QED
      BY <1>2, <2>1, <3>2, <3>3
  <2> QED
    BY <2>3, <2>4, <2>5, <2>6, <2>7, <2>8, <2>9
<1> QED
  BY <1>1, <1>3, QuietCalm

(* Each step keeps what is said of jobs and tasks. *)
LEMMA RunsStep == ASSUME DeliveryInv, RunsInv, DeliveryNext PROVE RunsInv'
<1>0. Labels
  BY DEF RunsInv, LabelInv
<1>1. ASSUME NEW f \in Fibres, React(f) PROVE RunsInv'
  <2>1. CASE Sync(f) \/ Gate(f) \/ Plan(f) \/ Head(f) \/ HeadDispatch(f) \/ HeadSplit(f)
             \/ Refused(f)
    <3>1. stale' = stale
      BY <2>1 DEF Sync, Gate, Plan, Head, HeadDispatch, HeadSplit, Refused
    <3>2. \E next : Plain(f, next)
      BY <1>0, <2>1, PlainReact
    <3>3. AwaitedInv => Calm(f, fibre'[f])
      BY <2>1, CalmReact
    <3> QED
      BY <3>1, <3>2, <3>3, PlainRuns
  <2>2. CASE Emit(f) /\ ~EmitDispatch(f)
    <3>1. stale \subseteq stale'
      BY <2>2 DEF Emit, EmitAdd, EmitFollow, EmitSplit, EmitPrepare, EmitIntegrate, EmitPromote,
                  EmitIntegration, EmitReady, EmitComplete, EmitBlock, EmitNext, Judged
    <3>2. \E next : Plain(f, next)
      BY <1>0, <2>2, PlainEmit
    <3>3. AwaitedInv /\ stale' = {} => Calm(f, fibre'[f])
      BY <2>2, CalmEmit
    <3> QED
      BY <3>1, <3>2, <3>3, PlainRuns
  <2>3. CASE EmitDispatch(f)
    BY <2>3, DispatchRuns
  <2>4. CASE Post(f)
    BY <2>4, PostRuns
  <2>5. CASE Merge(f) \/ EmitIntegrated(f) \/ MergeFails(f)
    <3>1. stale' = stale
      BY <2>5 DEF Merge, EmitIntegrated, MergeFails
    <3>2. \E next : Plain(f, next)
      BY <1>0, <2>5, PlainMerge
    <3>3. AwaitedInv => Calm(f, fibre'[f])
      BY <2>5, CalmMerge
    <3> QED
      BY <3>1, <3>2, <3>3, PlainRuns
  <2> QED
    BY <1>1, <2>1, <2>2, <2>3, <2>4, <2>5 DEF React
<1>2. ASSUME NEW f \in Fibres,
             \/ Control(f) \/ Pass(f) \/ Check(f) \/ EndControl(f) \/ Validated(f)
             \/ Published(f) \/ Cancel(f) \/ Note(f) \/ CancelJobs(f) \/ Take(f)
      PROVE  RunsInv'
  <2>0. DeliveryInv'
    BY <1>2, WorkTyped, OutsideTyped DEF Work, Outside
  <2>1. stale' = stale
    BY <1>2 DEF Control, Pass, Check, EndControl, Validated, Published, Cancel, Note, CancelJobs,
                Take
  <2>2. AwaitedInv => Calm(f, fibre'[f])
    BY <1>2, CalmWork
  <2>3. CASE Take(f) /\ fibre'[f].at = "run"
    BY <2>3, TakeRuns
  <2>4. CASE Take(f) /\ fibre'[f].at # "run"
    <3>1. \E next : Plain(f, next)
      BY <1>0, <2>0, <2>4, PlainTake
    <3> QED
      BY <2>1, <2>2, <3>1, PlainRuns
  <2>5. CASE ~Take(f)
    <3>1. \E next : Plain(f, next)
      BY <1>0, <1>2, <2>0, <2>5, PlainWork
    <3> QED
      BY <2>1, <2>2, <3>1, PlainRuns
  <2> QED
    BY <2>3, <2>4, <2>5
<1>3. ASSUME NEW f \in Fibres, Work(f) PROVE RunsInv'
  <2>1. CASE Result(f)
    BY <2>1, ResultRuns
  <2>2. CASE Abort(f)
    BY <2>2, FailRuns
  <2> QED
    BY <1>2, <1>3, <2>1, <2>2 DEF Work
<1>4. ASSUME Outside PROVE RunsInv'
  <2>1. ASSUME NEW f \in Fibres, Note(f) \/ CancelJobs(f) \/ Fails(f) PROVE RunsInv'
    BY <1>2, <2>1, FailRuns
  <2>2. ASSUME NEW t \in Tasks, Advise(t) PROVE RunsInv'
    BY <2>2, AdviceRuns
  <2>3. CASE Crash
    BY <2>3, CrashRuns
  <2> QED
    BY <1>4, <2>1, <2>2, <2>3 DEF Outside
<1> QED
  BY <1>1, <1>3, <1>4 DEF DeliveryNext, Inside

(* The labels, the reports and the waiting hold in every state that the     *)
(* objective and its jobs reach (dispatchTask numbers the runs).           *)
THEOREM RunsInvariant == DeliverySpec => []RunsInv
<1>1. DeliveryInit => RunsInv
  <2> SUFFICES ASSUME DeliveryInit PROVE RunsInv
    OBVIOUS
  <2>1. /\ \A f \in Fibres : fibre[f].at = "idle" /\ fibre[f].job = NoJob /\ fibre[f].due = NoJob
        /\ NoJob.kind = "none" /\ NoJob.run = 0
        /\ queue = {} /\ posted = {} /\ active = {} /\ runs = 0
        /\ \A t \in Tasks : tasks[t].run = 0
    BY DEF DeliveryInit, Idle, NoJob, J
  <2>2. TaskJobs = {} /\ \A f \in Fibres : Tokens(fibre[f]) = {}
    BY <2>1 DEF TaskJobs, Tokens
  <2>3. LabelInv
    BY <2>1, <2>2 DEF LabelInv, Labels, Labelled, Settled, InOneHand
  <2>4. SeenInv
    BY <2>1 DEF SeenInv, Reported
  <2>5. AwaitedInv
    BY <2>1, <2>2 DEF AwaitedInv, Lost
  <2> QED
    BY <2>3, <2>4, <2>5 DEF RunsInv
<1>2. DeliveryInv /\ RunsInv /\ [DeliveryNext]_vars => RunsInv'
  <2> SUFFICES ASSUME DeliveryInv, RunsInv, [DeliveryNext]_vars PROVE RunsInv'
    OBVIOUS
  <2>1. CASE DeliveryNext
    BY <2>1, RunsStep
  <2>2. CASE UNCHANGED vars
    BY <2>2 DEF vars, objective, ledger, workspace, RunsInv, LabelInv, Labels, Labelled, Settled,
                InOneHand, TaskJobs, Tokens, SeenInv, Reported, Works, AwaitedInv, Waits, Lost, Done
  <2> QED
    BY <2>1, <2>2
<1> QED
  BY <1>1, <1>2, DeliveryInvariant, PTL DEF DeliverySpec

(* Tasks and jobs stay in step, whatever the numbers of fibres, tasks, runs, *)
(* passes and calls: no active task is left without a run, and no run that *)
(* was not canceled works for a task that waits for another                *)
(* (applyTaskWorkerResult trusts that it is the one; service.ts:4920).     *)
THEOREM RunsStayInStep == DeliverySpec => []RunsMatchTasks
<1>1. DeliveryInv /\ RunsInv => RunsMatchTasks
  <2> SUFFICES ASSUME DeliveryInv, RunsInv PROVE RunsMatchTasks
    OBVIOUS
  <2>1. ASSUME ~cut, NEW t \in active PROVE tasks[t].run \in Underway \cup failed
    <3>1. tasks[t].run \in failed \/ Works(tasks[t].run)
      BY <2>1 DEF RunsInv, SeenInv
    <3> QED
      BY <3>1 DEF Works, Underway, RunsOf, Held
  <2>2. ASSUME stale = {}, NEW f \in Fibres, fibre[f].at = "run", fibre[f].job.run \notin failed
        PROVE  fibre[f].job.task \in active /\ tasks[fibre[f].job.task].run = fibre[f].job.run
    BY <2>2 DEF RunsInv, AwaitedInv, Tokens, Waits
  <2> QED
    BY <2>1, <2>2 DEF RunsMatchTasks
<1> QED
  BY <1>1, DeliveryInvariant, RunsInvariant, PTL

-----------------------------------------------------------------------------
(* Nothing is left to plan at rest.  While there is something to plan for a *)
(* live objective, a control job is queued, or some fibre reacts: it will  *)
(* plan on what it finds, or applies what was planned.  Not every busy     *)
(* fibre counts: a handler at work may stop, a control job after its last  *)
(* look ends, a dispatch without a free place throws, and a follow-up or a *)
(* split that is refused ends the react, with a wake left in the stream.   *)
(* Two things are followed side by side: what is planned, and what is      *)
(* planned but for the advice, since advice that is obsolete is put away   *)
(* and the rest of the plan it came with applied.                          *)
Obsolete(on) == tasks[on.task].st # "running" \/ Candidate(on.task) # on
Standing(on) == Planned.do = "split" /\ on = advice /\ ~Obsolete(on)
Fitting(eff) == /\ eff.do = "dispatch" => Cardinality(active) < MaxParallel
                /\ eff.do = "follow" => Unadvised.do = "follow"
Split(g) == [task |-> fibre[g].eff.on, pass |-> fibre[g].eff.pass]
SplitsNext(g) == fibre[g].at = "head" /\ fibre[g].eff.do = "split"

Spent == {"idle", "run", "check", "end"}
Covers(g) ==
  /\ fibre[g].at \notin Spent
  /\ fibre[g].at \in {"head", "emit"} =>
       IF fibre[g].eff.do = "split"
         THEN \/ Standing(Split(g))
              \/ /\ fibre[g].at = "head" /\ Obsolete(Split(g)) /\ fibre[g].rest # Nothing
                 /\ fibre[g].rest.do # "split" /\ Fitting(fibre[g].rest)
       ELSE Fitting(fibre[g].eff)
Reacts(g) == Covers(g) \/ (SplitsNext(g) /\ Planned.do = "split" /\ Split(g) = advice)

Dismissed == asked /\ (Unadvised.do = "follow" \/ Standing(advice))
PlannedAttended == wake \/ cut \/ Dropped \/ \E g \in Fibres : Reacts(g)
UnadvisedAttended == wake \/ cut \/ Dismissed \/ \E g \in Fibres : Covers(g)
AttendedInv ==
  status = "live" => /\ Planned # Nothing => PlannedAttended
                     /\ Unadvised # Nothing => UnadvisedAttended

(* The planner reads nothing but the objective, and the advice in one place. *)
LEMMA UnadvisedSame ==
  ASSUME status' = status, tasks' = tasks, chained' = chained, active' = active,
         integ' = integ, note' = note, runs' = runs
  PROVE  Unadvised' = Unadvised /\ Terminal' = Terminal /\ Added' = Added /\ FollowsUp' = FollowsUp
<1>2. /\ Added' = Added /\ Terminal' = Terminal /\ Halted' = Halted /\ Ready' = Ready
      /\ LiveActive' = LiveActive /\ LiveReady' = LiveReady
      /\ Integrated' = Integrated /\ Approved' = Approved /\ Stuck' = Stuck
      /\ Retryable' = Retryable
  BY DEF Added, Terminal, Halted, Ready, DepsSatisfied, LiveActive, LiveReady, Integrated,
         Approved, Candidate, Stuck, Retryable, Capped
<1>3. AllTerminal' = AllTerminal /\ Checked' = Checked
  BY <1>2 DEF AllTerminal, DeliveryTerminal, Noop, Checked
<1>4. NoRunnable' = NoRunnable
  BY <1>2, <1>3 DEF NoRunnable, DeliveryTerminal, Noop
<1>5. Final' = Final
  BY <1>2, <1>3, <1>4 DEF Final
<1>6. Prepares' = Prepares
  BY <1>2 DEF Prepares, Activatable, DepsSatisfied, Capped
<1>7. FollowUp' = FollowUp /\ FollowsUp' = FollowsUp
  BY <1>2 DEF FollowUp, FollowsUp, Latest
<1> QED
  BY <1>2, <1>5, <1>6, <1>7 DEF Unadvised

LEMMA PlannedSame ==
  ASSUME UNCHANGED objective
  PROVE  /\ Planned' = Planned /\ Unadvised' = Unadvised
         /\ status' = status /\ tasks' = tasks /\ active' = active /\ advice' = advice
<1>1. /\ status' = status /\ tasks' = tasks /\ chained' = chained /\ active' = active
      /\ integ' = integ /\ note' = note /\ advice' = advice /\ runs' = runs
  BY DEF objective
<1>2. /\ Unadvised' = Unadvised /\ Terminal' = Terminal /\ Added' = Added
      /\ FollowsUp' = FollowsUp
  BY <1>1, UnadvisedSame
<1> QED
  BY <1>1, <1>2 DEF Planned

(* A dispatch is planned with a place free, and a split is advised. *)
LEMMA UnadvisedFits ==
  /\ Unadvised.do # "split" /\ Fitting(Unadvised)
  /\ Unadvised.do = "follow" => FollowsUp
  /\ Nothing.do = "none" /\ \A do, on : E(do, on).do = do
<1> DEFINE Good(e) == /\ e.do = "dispatch" => Cardinality(active) < MaxParallel
                      /\ e.do # "split"
      Late(e) == e.do = "follow" => FollowsUp
<1>1. \A do, on : /\ E(do, on).do = do
                  /\ \A set : /\ [E(do, on) EXCEPT !.up = set].do = do
                              /\ [E(do, on) EXCEPT !.down = set].do = do
  BY DEF E
<1>2. Good(Nothing) /\ Good(Prepares) /\ Good(FollowUp) /\ Nothing.do = "none"
  <2>1. \E set \in SUBSET {Latest} : FollowUp = [E("follow", Latest) EXCEPT !.down = set]
    BY DEF FollowUp
  <2> QED
    BY <1>1, <2>1 DEF Nothing, Prepares
<1>3. \A on : /\ Good(E("budget", on)) /\ Good(E("ready", on)) /\ Good(E("promote", on))
              /\ Good(E("complete", on)) /\ Good(E("block", on)) /\ Good(E("add", on))
              /\ Good(E("integrate", on))
              /\ \A set : Good([E("next", on) EXCEPT !.up = set])
  BY <1>1
<1>4. Cardinality(active) < MaxParallel => \A on : Good(E("dispatch", on))
  BY <1>1
<1>5. \A on : /\ Late(E("budget", on)) /\ Late(E("ready", on)) /\ Late(E("promote", on))
              /\ Late(E("complete", on)) /\ Late(E("block", on)) /\ Late(E("add", on))
              /\ Late(E("integrate", on)) /\ Late(E("dispatch", on))
              /\ \A set : Late([E("next", on) EXCEPT !.up = set])
  BY <1>1
<1>6. Late(Nothing) /\ Late(Prepares) /\ (FollowsUp => Late(FollowUp))
  BY <1>1 DEF Nothing, Prepares
<1> HIDE DEF Good, Late
<1>7. Good(Final) /\ Late(Final)
  BY <1>2, <1>3, <1>4, <1>5, <1>6 DEF Final
<1>8. Good(Unadvised) /\ Late(Unadvised)
  BY <1>2, <1>3, <1>5, <1>6, <1>7 DEF Unadvised
<1> QED
  BY <1>1, <1>2, <1>8 DEF Good, Late, Fitting

LEMMA PlannedSplit ==
  ASSUME ObjectiveTyped
  PROVE  /\ Planned.do = "split" => [task |-> Planned.on, pass |-> Planned.pass] = advice
         /\ Planned.do # "split" => Planned = Unadvised
         /\ Planned = Nothing => Unadvised = Nothing
         /\ Unadvised.do = "follow" => Planned = Unadvised
         /\ advice = NoAdvice => Planned = Unadvised
<1> DEFINE split == [E("split", advice.task) EXCEPT !.pass = advice.pass]
<1>1. split.do = "split" /\ split.on = advice.task /\ split.pass = advice.pass
  BY DEF E
<1>2. [task |-> advice.task, pass |-> advice.pass] = advice
  BY DEF ObjectiveTyped
<1>3. (advice # NoAdvice /\ ~FollowsUp /\ Planned = split) \/ Planned = Unadvised
  BY DEF Planned
<1> HIDE DEF split
<1> QED
  BY <1>1, <1>2, <1>3, UnadvisedFits

(* The fibres beside the one that moves, and that one. *)
Steps(f, next) == Moves(f, next) \/ Emits(f, next)
LEMMA Others ==
  ASSUME DeliveryInv, NEW f \in Fibres, NEW next, Steps(f, next) \/ Signals(f, next)
  PROVE  /\ \A g \in Fibres \ {f} : /\ fibre'[g].at = fibre[g].at /\ fibre'[g].eff = fibre[g].eff
                                     /\ fibre'[g].rest = fibre[g].rest
         /\ Steps(f, next) => fibre'[f] = next
         /\ Signals(f, next) => fibre'[f] \in {next, [next EXCEPT !.fresh = FALSE]}
         /\ Signals(f, next) => (asked => asked') /\ (wake => wake')
<1>0. \A g \in Fibres : fibre[g] \in Fibre
  BY DEF DeliveryInv, Placed
<1>1. PICK x : Moves(f, x) \/ Emits(f, x)
  BY DEF Steps, Signals
<1>2. ASSUME NEW g \in Fibres \ {f}
      PROVE  /\ fibre'[g].at = fibre[g].at /\ fibre'[g].eff = fibre[g].eff
             /\ fibre'[g].rest = fibre[g].rest
  <2>1. fibre'[g] = fibre[g] \/ fibre'[g] = [fibre[g] EXCEPT !.fresh = FALSE]
    BY <1>1 DEF Moves, Emits, DeliveryInv
  <2> QED
    BY <1>0, <2>1 DEF Fibre
<1>3. \A y : Moves(f, y) \/ Emits(f, y) => fibre'[f] = y
  BY DEF Moves, Emits, DeliveryInv
<1>4. Signals(f, next) => (asked => asked') /\ (wake => wake')
  BY DEF Signals
<1> QED
  BY <1>2, <1>3, <1>4 DEF Steps, Signals

(* A fibre that goes on reacting attends to the objective. *)
LEMMA WillReact ==
  ASSUME NEW f \in Fibres, fibre'[f].at \notin Spent \cup {"head", "emit"}
  PROVE  AttendedInv'
<1>1. Covers(f)' /\ Reacts(f)'
  BY DEF Covers, Reacts
<1> QED
  BY <1>1 DEF AttendedInv, PlannedAttended, UnadvisedAttended

LEMMA WillApply ==
  ASSUME NEW f \in Fibres, fibre'[f].at = "emit",
         fibre'[f].eff.do \notin {"follow", "split", "dispatch"}
  PROVE  AttendedInv'
<1>1. Covers(f)' /\ Reacts(f)'
  BY DEF Covers, Reacts, Spent, Fitting
<1> QED
  BY <1>1 DEF AttendedInv, PlannedAttended, UnadvisedAttended

(* The objective is left as it is; the fibre reacted no more, or hands over *)
(* to what is attended still.                                              *)
LEMMA SameCovers ==
  ASSUME UNCHANGED objective, NEW g, fibre'[g].at = fibre[g].at, fibre'[g].eff = fibre[g].eff,
         fibre'[g].rest = fibre[g].rest
  PROVE  Covers(g)' = Covers(g) /\ Reacts(g)' = Reacts(g)
<1>1. /\ Planned' = Planned /\ Unadvised' = Unadvised
      /\ status' = status /\ tasks' = tasks /\ active' = active /\ advice' = advice
  BY PlannedSame
<1>2. Split(g)' = Split(g) /\ SplitsNext(g)' = SplitsNext(g)
  BY DEF Split, SplitsNext
<1> QED
  BY <1>1, <1>2 DEF Covers, Reacts, Standing, Obsolete, Candidate, Fitting

LEMMA HandsOver ==
  ASSUME AttendedInv, NEW f \in Fibres, UNCHANGED objective,
         \A g \in Fibres \ {f} : /\ fibre'[g].at = fibre[g].at /\ fibre'[g].eff = fibre[g].eff
                                 /\ fibre'[g].rest = fibre[g].rest,
         cut => cut', wake => wake', asked => asked',
         Reacts(f) => Reacts(f)' \/ Dropped', Covers(f) => Covers(f)' \/ Dismissed'
  PROVE  AttendedInv'
<1>1. /\ Planned' = Planned /\ Unadvised' = Unadvised
      /\ status' = status /\ tasks' = tasks /\ active' = active /\ advice' = advice
  BY PlannedSame
<1>2. \A g \in Fibres \ {f} : Covers(g)' = Covers(g) /\ Reacts(g)' = Reacts(g)
  BY SameCovers
<1>3. Dropped => Dropped'
  BY <1>1 DEF Dropped
<1>4. Dismissed => Dismissed'
  BY <1>1 DEF Dismissed, Standing, Obsolete, Candidate
<1>5. PlannedAttended => PlannedAttended'
  BY <1>2, <1>3 DEF PlannedAttended
<1>6. UnadvisedAttended => UnadvisedAttended'
  BY <1>2, <1>4 DEF UnadvisedAttended
<1>7. Nothing' = Nothing
  BY DEF Nothing, E
<1> QED
  BY <1>1, <1>5, <1>6, <1>7 DEF AttendedInv

(* Before an effect is applied. *)
LEMMA ReactAttended ==
  ASSUME DeliveryInv, AttendedInv, NEW f \in Fibres, Sync(f) \/ Gate(f) \/ Plan(f)
  PROVE  AttendedInv'
<1>0. fibre[f] \in Fibre /\ ObjectiveTyped
  BY DEF DeliveryInv, Placed
<1>1. CASE Sync(f)
  <2>1. CASE Terminal
    BY <1>1, <2>1 DEF Sync, Terminal, AttendedInv
  <2>2. CASE ~Terminal
    <3>1. Steps(f, To(f, "gate"))
      BY <1>1, <2>2 DEF Sync, Steps
    <3>2. fibre'[f].at = "gate"
      BY <3>1, Others, NextJobs
    <3> QED
      BY <3>2, WillReact DEF Spent
  <2> QED
    BY <2>1, <2>2
<1>2. CASE Gate(f)
  <2>1. CASE Terminal
    BY <1>2, <2>1 DEF Gate, Terminal, AttendedInv, objective
  <2>2. CASE ~Terminal
    <3>1. PICK next : /\ Steps(f, next)
                      /\ \/ next = [fibre[f] EXCEPT !.at = "emit", !.eff = E("policy", 0)]
                         \/ next = [fibre[f] EXCEPT !.at = "plan", !.left = PlannerPasses]
      BY <1>2, <2>2 DEF Gate, Steps
    <3>2. fibre'[f] = next
      BY <3>1, Others
    <3>3. (next.at = "emit" /\ next.eff = E("policy", 0)) \/ next.at = "plan"
      BY <1>0, <3>1 DEF Fibre
    <3> QED
      BY <3>2, <3>3, UnadvisedFits, WillReact, WillApply DEF Spent
  <2> QED
    BY <2>1, <2>2
<1>3. CASE Plan(f)
  <2>0. UNCHANGED objective
    BY <1>3 DEF Plan
  <2>1. CASE Planned = Nothing
    BY <1>0, <2>0, <2>1, PlannedSame, PlannedSplit DEF AttendedInv, Nothing, E
  <2>2. CASE Planned # Nothing /\ fibre[f].left = 0
    BY <1>3, <2>2 DEF Plan, AttendedInv, PlannedAttended, UnadvisedAttended
  <2>3. CASE Planned # Nothing /\ fibre[f].left # 0
    <3> DEFINE next == [fibre[f] EXCEPT !.at = Onto(Planned), !.eff = Planned, !.left = @ - 1,
                                        !.rest = IF Planned.do = "split" THEN Unadvised ELSE Nothing]
    <3>1. Steps(f, next)
      BY <1>3, <2>3 DEF Plan, Steps
    <3>2. /\ next.at = Onto(Planned) /\ next.eff = Planned
          /\ Planned.do = "split" => next.rest = Unadvised
      BY <1>0 DEF Fibre
    <3>3. fibre'[f] = next
      BY <3>1, Others
    <3> HIDE DEF next
    <3>4. /\ Planned' = Planned /\ Unadvised' = Unadvised /\ tasks' = tasks
          /\ active' = active /\ advice' = advice
      BY <2>0, PlannedSame
    <3>5. fibre'[f].at \in {"head", "emit"} /\ fibre'[f].eff = Planned
      BY <3>2, <3>3 DEF Onto
    <3>6. CASE Planned.do # "split"
      <4>1. Fitting(fibre[f].eff)'
        BY <1>0, <3>4, <3>5, <3>6, PlannedSplit, UnadvisedFits DEF Fitting
      <4>2. Covers(f)' /\ Reacts(f)'
        BY <3>5, <3>6, <4>1 DEF Covers, Reacts, Spent
      <4> QED
        BY <4>2 DEF AttendedInv, PlannedAttended, UnadvisedAttended
    <3>7. CASE Planned.do = "split"
      <4>1. fibre'[f].at = "head" /\ fibre'[f].rest = Unadvised
        BY <3>2, <3>3, <3>7 DEF Onto, Conditional
      <4>2. Split(f)' = advice /\ SplitsNext(f)'
        BY <1>0, <3>5, <3>7, <4>1, PlannedSplit DEF Split, SplitsNext
      <4>3. Reacts(f)'
        BY <3>4, <3>7, <4>2 DEF Reacts
      <4>4. Fitting(fibre[f].rest)' /\ fibre'[f].rest.do # "split"
        BY <3>4, <4>1, UnadvisedFits DEF Fitting
      <4>5. Unadvised # Nothing => Covers(f)'
        BY <3>4, <3>5, <3>7, <4>1, <4>2, <4>4 DEF Covers, Spent, Standing
      <4> QED
        BY <3>4, <4>3, <4>5 DEF AttendedInv, PlannedAttended, UnadvisedAttended, Nothing, E
    <3> QED
      BY <3>6, <3>7
  <2> QED
    BY <2>1, <2>2, <2>3
<1> QED
  BY <1>1, <1>2, <1>3

(* A dispatch that finds its place taken throws: who planned it no more     *)
(* reacts.                                                                 *)
LEMMA HeadAttended ==
  ASSUME DeliveryInv, AttendedInv, NEW f \in Fibres, Head(f) \/ HeadDispatch(f)
  PROVE  AttendedInv'
<1> DEFINE next == [To(f, "emit") EXCEPT !.fresh = TRUE]
<1>0. /\ UNCHANGED objective /\ cut' = cut
      /\ fibre[f].at = "head" /\ fibre[f].eff.do # "split"
  BY DEF Head, HeadDispatch
<1>1. CASE Head(f) \/ Cardinality(active) < MaxParallel
  <2>1. Steps(f, next) /\ wake' = wake /\ asked' = asked
    BY <1>1 DEF Head, HeadDispatch, Steps, ledger
  <2>2. next.at = "emit" /\ next.eff = fibre[f].eff
    BY DEF To, DeliveryInv, Placed, Fibre
  <2>3. fibre'[f].at = "emit" /\ fibre'[f].eff = fibre[f].eff
    BY <2>1, <2>2, Others
  <2>4. Covers(f) => Covers(f)'
    BY <1>0, <2>3, PlannedSame DEF Covers, Spent, Fitting
  <2>5. Reacts(f) => Reacts(f)'
    BY <1>0, <2>4 DEF Reacts, SplitsNext
  <2> HIDE DEF next
  <2> QED
    BY <1>0, <2>1, <2>4, <2>5, Others, HandsOver
<1>2. CASE HeadDispatch(f) /\ ~(Cardinality(active) < MaxParallel)
  <2>1. /\ Steps(f, Idle) \/ Signals(f, Idle)
        /\ (wake => wake') /\ (asked => asked')
    BY <1>2, Others DEF HeadDispatch, Steps
  <2>2. ~Covers(f) /\ ~Reacts(f)
    BY <1>0, <1>2 DEF HeadDispatch, Covers, Reacts, SplitsNext, Fitting
  <2> QED
    BY <1>0, <2>1, <2>2, Others, HandsOver
<1> QED
  BY <1>1, <1>2

(* Advice that is obsolete is put away, and what was planned beside it is   *)
(* applied; a split that is still due goes on.                             *)
LEMMA HeadSplitAttended ==
  ASSUME DeliveryInv, AttendedInv, NEW f \in Fibres, HeadSplit(f)
  PROVE  AttendedInv'
<1> DEFINE rest == fibre[f].rest
           on == Split(f)
<1>0. /\ fibre[f] \in Fibre /\ ObjectiveTyped /\ cut' = cut /\ status' = status
      /\ fibre[f].at = "head" /\ fibre[f].eff.do = "split"
      /\ status' = status /\ tasks' = tasks /\ chained' = chained /\ active' = active
      /\ integ' = integ /\ note' = note /\ runs' = runs
  BY DEF HeadSplit, DeliveryInv, Placed
<1>1. /\ Unadvised' = Unadvised /\ Terminal' = Terminal /\ Added' = Added
      /\ FollowsUp' = FollowsUp
  BY <1>0, UnadvisedSame
<1>2. CASE Obsolete(on)
  <2> DEFINE next == IF rest = Nothing THEN Over(f)
                     ELSE [fibre[f] EXCEPT !.at = Onto(rest), !.eff = rest, !.rest = Nothing]
  <2>1. /\ advice' = (IF advice = on THEN NoAdvice ELSE advice)
        /\ Steps(f, next) /\ asked' = asked /\ wake' = wake
    BY <1>2 DEF HeadSplit, Obsolete, Split, Steps
  <2>2. rest # Nothing => next.at = Onto(rest) /\ next.eff = rest
    BY <1>0 DEF Fibre
  <2>3. fibre'[f] = next
    BY <2>1, Others
  <2> HIDE DEF next
  <2>4. Covers(f) => Covers(f)'
    <3> SUFFICES ASSUME Covers(f) PROVE Covers(f)'
      OBVIOUS
    <3>1. rest # Nothing /\ rest.do # "split" /\ Fitting(rest)
      BY <1>0, <1>2 DEF Covers, Standing
    <3>2. fibre'[f].at \in {"head", "emit"} /\ fibre'[f].eff = rest
      BY <2>2, <2>3, <3>1 DEF Onto
    <3>3. Fitting(fibre[f].eff)'
      BY <1>0, <1>1, <3>1, <3>2 DEF Fitting
    <3> QED
      BY <3>1, <3>2, <3>3 DEF Covers, Spent
  <2>5. CASE advice = on
    <3>1. Planned' = Unadvised
      BY <1>1, <2>1, <2>5 DEF Planned
    <3>2. ASSUME NEW g \in Fibres, Covers(g) PROVE Covers(g)'
      <4>1. CASE g = f
        BY <2>4, <3>2, <4>1
      <4>2. CASE g # f
        <5>1. /\ fibre'[g].at = fibre[g].at /\ fibre'[g].eff = fibre[g].eff
              /\ fibre'[g].rest = fibre[g].rest
          BY <2>1, <4>2, Others
        <5>2. ~Standing(Split(g)) /\ Split(g)' = Split(g)
          BY <1>2, <2>5, <5>1 DEF Standing, Split
        <5> QED
          BY <1>0, <1>1, <3>2, <5>1, <5>2 DEF Covers, Obsolete, Candidate, Fitting
      <4> QED
        BY <4>1, <4>2
    <3>3. Dismissed => Dropped' /\ Dismissed'
      BY <1>1, <1>2, <2>1, <2>5, <3>1 DEF Dismissed, Dropped, Standing
    <3>4. ASSUME UnadvisedAttended PROVE PlannedAttended' /\ UnadvisedAttended'
      <4>1. (\E g \in Fibres : Covers(g)) => \E g \in Fibres : Covers(g)'
        BY <3>2
      <4> QED
        BY <1>0, <2>1, <3>3, <3>4, <4>1 DEF PlannedAttended, UnadvisedAttended, Reacts
    <3>5. Nothing' = Nothing
      BY DEF Nothing, E
    <3> QED
      BY <1>0, <1>1, <3>1, <3>4, <3>5 DEF AttendedInv
  <2>6. CASE advice # on
    <3>1. UNCHANGED objective
      BY <1>0, <2>1, <2>6 DEF HeadSplit, objective
    <3>2. Reacts(f) => Reacts(f)'
      BY <2>4, <2>6 DEF Reacts
    <3> QED
      BY <1>0, <2>1, <2>4, <3>1, <3>2, Others, HandsOver
  <2> QED
    BY <2>5, <2>6
<1>3. CASE ~Obsolete(on)
  <2> DEFINE next == [To(f, "emit") EXCEPT !.fresh = TRUE, !.rest = Nothing]
  <2>1. Signals(f, next) /\ UNCHANGED objective
    BY <1>3 DEF HeadSplit, Obsolete, Split, objective
  <2>2. /\ next.at = "emit" /\ next.eff = fibre[f].eff
        /\ [next EXCEPT !.fresh = FALSE].at = "emit"
        /\ [next EXCEPT !.fresh = FALSE].eff = fibre[f].eff
    BY <1>0 DEF To, Fibre
  <2>3. fibre'[f].at = "emit" /\ fibre'[f].eff = fibre[f].eff
    BY <2>1, <2>2, Others
  <2>4. Split(f)' = on /\ (Standing(on) => Standing(Split(f))')
    BY <2>1, <2>3, PlannedSame DEF Split, Standing, Obsolete, Candidate
  <2>5. Standing(on) => Covers(f)'
    BY <1>0, <2>3, <2>4 DEF Covers, Spent
  <2>6. Reacts(f) => Standing(on)
    BY <1>0, <1>3 DEF Reacts, Covers, Standing
  <2>7. (Covers(f) => Covers(f)') /\ (Reacts(f) => Reacts(f)')
    BY <2>5, <2>6 DEF Reacts
  <2> HIDE DEF next
  <2> QED
    BY <1>0, <2>1, <2>7, Others, HandsOver
<1> QED
  BY <1>2, <1>3

(* An effect is followed by another pass, or ends what was live. *)
LEMMA EmitAttended ==
  ASSUME DeliveryInv, AttendedInv, NEW f \in Fibres, Emit(f)
  PROVE  AttendedInv'
<1>1. CASE \/ EmitAdd(f) \/ EmitFollow(f) \/ EmitSplit(f) \/ EmitPrepare(f) \/ EmitReady(f)
           \/ EmitComplete(f)
  <2>1. Steps(f, Again(f))
    BY <1>1 DEF EmitAdd, EmitFollow, EmitSplit, EmitPrepare, EmitReady, EmitComplete, Steps
  <2>2. fibre'[f].at = "plan"
    BY <2>1, NextJobs, Others
  <2> QED
    BY <2>2, WillReact DEF Spent
<1>2. CASE EmitDispatch(f) \/ EmitIntegrate(f) \/ EmitPromote(f)
  <2>0. PICK at \in {"post", "merge"} : \E due : Emits(f, [To(f, at) EXCEPT !.due = due])
    BY <1>2 DEF EmitDispatch, EmitIntegrate, EmitPromote, EmitIntegration
  <2>1. PICK due : Emits(f, [To(f, at) EXCEPT !.due = due])
    BY <2>0
  <2> DEFINE next == [To(f, at) EXCEPT !.due = due]
  <2>2. next.at = at
    BY DEF To, DeliveryInv, Placed, Fibre
  <2>3. fibre'[f] = next
    BY <2>1, Others DEF Steps
  <2> QED
    BY <2>2, <2>3, WillReact DEF Spent
<1>3. CASE EmitBlock(f)
  BY <1>3 DEF EmitBlock, AttendedInv
<1>4. CASE EmitNext(f)
  <2>1. status' = "blocked" \/ Steps(f, Reacting(fibre[f].job))
    BY <1>4 DEF EmitNext, Steps
  <2>2. status' # "blocked" => fibre'[f].at = "sync"
    BY <2>1, NextJobs, Others
  <2> QED
    BY <2>2, WillReact DEF AttendedInv, Spent
<1> QED
  BY <1>1, <1>2, <1>3, <1>4 DEF Emit

(* An effect that is dropped, a job that is enqueued and the merge.  After  *)
(* a follow-up or a split that is dropped there is a wake in the stream.   *)
LEMMA RefusedAttended ==
  ASSUME DeliveryInv, AttendedInv, NEW f \in Fibres, Refused(f)
  PROVE  AttendedInv'
<1>0. UNCHANGED objective /\ cut' = cut /\ fibre[f].at = "emit" /\ ObjectiveTyped
  BY DEF Refused, DeliveryInv
<1>1. CASE Moves(f, Again(f)) \/ Moves(f, Blocking(f))
  <2>1. \/ fibre'[f].at = "plan"
        \/ fibre'[f].at = "emit" /\ fibre'[f].eff.do = "block"
    BY <1>1, NextJobs, Others DEF Steps
  <2> QED
    BY <2>1, WillReact, WillApply DEF Spent
<1>2. CASE fibre[f].eff.do \in {"follow", "split"}
  <2>1. Steps(f, Over(f)) /\ Asks
    BY <1>2 DEF Refused, Steps
  <2>2. asked' /\ (wake => wake')
    BY <2>1 DEF Asks
  <2>3. /\ Planned' = Planned /\ Unadvised' = Unadvised /\ tasks' = tasks /\ advice' = advice
    BY <1>0, PlannedSame
  <2>4. Covers(f) => Unadvised.do = "follow" \/ Standing(Split(f))
    BY <1>0, <1>2 DEF Covers, Fitting
  <2>5. Covers(f) => Dismissed'
    BY <2>2, <2>3, <2>4 DEF Dismissed, Standing, Obsolete, Candidate
  <2>6. Reacts(f) => Dropped'
    BY <1>0, <2>2, <2>3, <2>4, PlannedSplit DEF Reacts, SplitsNext, Dropped, Standing
  <2> QED
    BY <1>0, <2>1, <2>2, <2>5, <2>6, Others, HandsOver
<1> QED
  BY <1>1, <1>2 DEF Refused, Conditional

LEMMA RestAttended ==
  ASSUME DeliveryInv, AttendedInv, NEW f \in Fibres,
         Post(f) \/ Merge(f) \/ EmitIntegrated(f) \/ MergeFails(f)
  PROVE  AttendedInv'
<1>1. \/ Steps(f, Again(f)) \/ Steps(f, To(f, "merged")) \/ Steps(f, To(f, "post"))
      \/ Steps(f, Reacting(fibre[f].job))
  BY DEF Post, Merge, EmitIntegrated, MergeFails, Steps
<1>2. fibre'[f].at \in {"plan", "merged", "post", "sync"}
  BY <1>1, NextJobs, Others
<1> QED
  BY <1>2, WillReact DEF Spent

(* The jobs. *)
LEMMA WorkAttended ==
  ASSUME DeliveryInv, AttendedInv, NEW f \in Fibres, Work(f)
  PROVE  AttendedInv'
<1>1. CASE Control(f)
  <2> DEFINE next == [Idle EXCEPT !.at = "pass", !.job = J("control", 0, 1, 0)]
  <2>1. Steps(f, next) /\ next.at = "pass"
    BY <1>1 DEF Control, Steps, Idle
  <2>2. fibre'[f].at = "pass"
    BY <2>1, Others
  <2> QED
    BY <2>2, WillReact DEF Spent
<1>2. CASE Pass(f)
  <2>1. CASE Terminal
    BY <1>2, <2>1 DEF Pass, AttendedInv, Terminal, objective
  <2>2. CASE ~Terminal
    <3>1. Steps(f, Reacting(fibre[f].job))
      BY <1>2, <2>2 DEF Pass, Steps
    <3>2. fibre'[f].at = "sync"
      BY <3>1, NextJobs, Others
    <3> QED
      BY <3>2, WillReact DEF Spent
  <2> QED
    BY <2>1, <2>2
<1>3. CASE Check(f)
  <2>1. CASE Terminal
    BY <1>3, <2>1 DEF Check, AttendedInv, Terminal, objective
  <2>2. CASE ~Terminal
    <3>1. PICK next : Moves(f, next)
      BY <1>3, <2>2 DEF Check
    <3>2. ~Covers(f) /\ ~Reacts(f)
      BY <1>3 DEF Check, Covers, Reacts, SplitsNext, Spent
    <3> QED
      BY <1>3, <2>2, <3>1, <3>2, Others, HandsOver DEF Check, Steps
  <2> QED
    BY <2>1, <2>2
<1>4. CASE EndControl(f) \/ Abort(f)
  <2>1. Steps(f, Idle) /\ UNCHANGED <<objective, cut, wake, asked>>
    BY <1>4 DEF EndControl, Abort, Steps, ledger
  <2>2. ~Covers(f) /\ ~Reacts(f)
    BY <1>4 DEF EndControl, Abort, Covers, Reacts, SplitsNext, Spent
  <2> QED
    BY <2>1, <2>2, Others, HandsOver
<1>5. CASE Take(f)
  <2>1. \E next : Steps(f, next) /\ (UNCHANGED objective \/ next.at = "validating")
    <3>1. PICK j \in queue :
            /\ queue' = queue \ {j}
            /\ \/ /\ j.kind = "task"
                  /\ Moves(f, [Idle EXCEPT !.at = "run", !.job = j])
                  /\ UNCHANGED <<integ, status>>
               \/ Emits(f, [Idle EXCEPT !.at = "validating", !.job = j,
                                        !.eff = [Nothing EXCEPT !.up = merged]])
               \/ /\ Moves(f, IF Terminal THEN Idle
                              ELSE [Idle EXCEPT !.at = "publishing", !.job = j])
                  /\ UNCHANGED <<integ, status>>
      BY <1>5 DEF Take
    <3> DEFINE task == [Idle EXCEPT !.at = "run", !.job = j]
               check == [Idle EXCEPT !.at = "validating", !.job = j,
                                     !.eff = [Nothing EXCEPT !.up = merged]]
               publish == IF Terminal THEN Idle ELSE [Idle EXCEPT !.at = "publishing", !.job = j]
    <3>2. check.at = "validating"
      BY DEF Idle
    <3>3. UNCHANGED <<integ, status>> => UNCHANGED objective
      BY <1>5 DEF Take, objective
    <3>4. \/ Steps(f, task) /\ UNCHANGED objective
          \/ Steps(f, check)
          \/ Steps(f, publish) /\ UNCHANGED objective
      BY <3>1, <3>3 DEF Steps
    <3> HIDE DEF task, check, publish
    <3> QED
      BY <3>2, <3>4
  <2> PICK next : Steps(f, next) /\ (UNCHANGED objective \/ next.at = "validating")
    BY <2>1
  <2>2. CASE next.at = "validating"
    BY <2>1, <2>2, Others, WillReact DEF Spent
  <2>3. CASE UNCHANGED objective
    <3>1. ~Covers(f) /\ ~Reacts(f) /\ UNCHANGED <<cut, wake, asked>>
      BY <1>5 DEF Take, Covers, Reacts, SplitsNext, Spent
    <3> QED
      BY <2>1, <2>3, <3>1, Others, HandsOver
  <2> QED
    BY <2>1, <2>2, <2>3
<1>6. CASE Result(f) \/ Validated(f) \/ Published(f)
  <2>1. Steps(f, Reacting(fibre[f].job)) \/ Steps(f, Reacting(NoJob))
    BY <1>6 DEF Result, Validated, Published, Steps
  <2>2. fibre'[f].at = "sync"
    BY <2>1, NextJobs, Others
  <2> QED
    BY <2>2, WillReact DEF Spent
<1>7. CASE Cancel(f)
  BY <1>7 DEF Cancel, AttendedInv
<1> QED
  BY <1>1, <1>2, <1>3, <1>4, <1>5, <1>6, <1>7 DEF Work

(* Advice is left with a wake in the stream. *)
LEMMA AdviceAttended ==
  ASSUME DeliveryInv, AttendedInv, NEW t \in Tasks, Advise(t)
  PROVE  AttendedInv'
<1>0. /\ ObjectiveTyped /\ cut' = cut /\ asked' /\ (wake => wake') /\ advice = NoAdvice
      /\ status' = status /\ tasks' = tasks /\ chained' = chained /\ active' = active
      /\ integ' = integ /\ note' = note /\ runs' = runs
  BY DEF Advise, Asks, DeliveryInv
<1>1. /\ Unadvised' = Unadvised /\ Terminal' = Terminal /\ Added' = Added
      /\ FollowsUp' = FollowsUp
  BY <1>0, UnadvisedSame
<1>2. Planned = Unadvised /\ Planned.do # "split"
  BY <1>0, PlannedSplit, UnadvisedFits
<1>3. Planned'.do = "split" \/ Planned' = Unadvised
  <2> DEFINE split == [E("split", advice.task) EXCEPT !.pass = advice.pass]
  <2>1. split'.do = "split"
    BY DEF E
  <2>2. Planned' = split' \/ Planned' = Unadvised'
    BY DEF Planned
  <2> QED
    BY <1>1, <2>1, <2>2
<1>4. ASSUME NEW g \in Fibres, Covers(g) PROVE Covers(g)'
  <2>1. fibre'[g] = [fibre[g] EXCEPT !.fresh = FALSE] /\ fibre[g] \in Fibre
    BY DEF Advise, DeliveryInv, Placed
  <2>2. /\ fibre'[g].at = fibre[g].at /\ fibre'[g].eff = fibre[g].eff
        /\ fibre'[g].rest = fibre[g].rest
    BY <2>1 DEF Fibre
  <2>3. ~Standing(Split(g)) /\ Split(g)' = Split(g)
    BY <1>2, <2>2 DEF Standing, Split
  <2> QED
    BY <1>0, <1>1, <1>4, <2>2, <2>3 DEF Covers, Obsolete, Candidate, Fitting
<1>5. (\E g \in Fibres : Covers(g)) => \E g \in Fibres : Covers(g)'
  BY <1>4
<1>6. (\E g \in Fibres : Reacts(g)) => \E g \in Fibres : Covers(g)
  BY <1>2 DEF Reacts
<1>7. Dismissed => Dismissed'
  BY <1>0, <1>1, <1>2 DEF Dismissed, Standing
<1>8. UnadvisedAttended => UnadvisedAttended'
  BY <1>0, <1>5, <1>7 DEF UnadvisedAttended
<1>9. PlannedAttended => PlannedAttended' \/ Planned' # Unadvised
  <2>1. (\E g \in Fibres : Reacts(g)) => \E g \in Fibres : Reacts(g)'
    BY <1>5, <1>6 DEF Reacts
  <2> QED
    BY <1>0, <1>2, <2>1 DEF PlannedAttended, Dropped
<1>10. Planned'.do = "split" => PlannedAttended'
  BY <1>0 DEF PlannedAttended, Dropped
<1>11. Nothing' = Nothing
  BY DEF Nothing, E
<1> QED
  BY <1>0, <1>1, <1>2, <1>3, <1>8, <1>9, <1>10, <1>11 DEF AttendedInv

(* Requests, failures, advice and crashes. *)
LEMMA OutsideAttended ==
  ASSUME DeliveryInv, AttendedInv, Outside
  PROVE  AttendedInv'
<1>1. ASSUME NEW f \in Fibres, Note(f) PROVE AttendedInv'
  <2>1. Steps(f, Reacting(NoJob))
    BY <1>1 DEF Note, Steps
  <2>2. fibre'[f].at = "sync"
    BY <2>1, NextJobs, Others
  <2> QED
    BY <2>2, WillReact DEF Spent
<1>2. ASSUME NEW f \in Fibres, CancelJobs(f) PROVE AttendedInv'
  <2>1. Steps(f, To(f, "cancel"))
    BY <1>2 DEF CancelJobs, Steps
  <2>2. fibre'[f].at = "cancel"
    BY <2>1, NextJobs, Others
  <2> QED
    BY <2>2, WillReact DEF Spent
<1>3. ASSUME NEW f \in Fibres, Fails(f) PROVE AttendedInv'
  <2>1. UNCHANGED objective /\ cut' = cut /\ ~Covers(f) /\ ~Reacts(f)
    BY <1>3 DEF Fails, Covers, Reacts, SplitsNext, Spent
  <2>2. (Steps(f, Idle) /\ UNCHANGED <<asked, wake>>) \/ Signals(f, Idle)
    BY <1>3 DEF Fails, Steps
  <2> QED
    BY <2>1, <2>2, Others, HandsOver
<1>4. ASSUME NEW t \in Tasks, Advise(t) PROVE AttendedInv'
  BY <1>4, AdviceAttended
<1>5. CASE Crash
  <2>1. CASE Terminal
    BY <1>5, <2>1 DEF Crash, AttendedInv, Terminal, objective
  <2>2. CASE ~Terminal
    <3>1. PICK boot \in Fibres : fibre'[boot] = Reacting(NoJob)
      BY <1>5, <2>2 DEF Crash
    <3>2. fibre'[boot].at = "sync"
      BY <3>1, NextJobs
    <3> QED
      BY <3>2, WillReact DEF Spent
  <2> QED
    BY <2>1, <2>2
<1> QED
  BY <1>1, <1>2, <1>3, <1>4, <1>5 DEF Outside

(* No result is lost and no request passed over in silence, whatever the    *)
(* numbers of fibres, tasks, runs, passes and calls: when a live objective *)
(* for which there is something to plan is left to itself, it is a follow- *)
(* up or a split, and its wake lies in the stream, where the control job   *)
(* that it was left to did not look for it any more (reactFactoryObjective,*)
(* the reaction after each job, the two passes of a control job).          *)
THEOREM NothingIsLeftUnplanned == DeliverySpec => []NothingUnplanned
<1>1. DeliveryInit => AttendedInv
  BY DEF DeliveryInit, AttendedInv, PlannedAttended, UnadvisedAttended
<1>2. DeliveryInv /\ AttendedInv /\ [DeliveryNext]_vars => AttendedInv'
  <2> SUFFICES ASSUME DeliveryInv, AttendedInv, [DeliveryNext]_vars PROVE AttendedInv'
    OBVIOUS
  <2>1. CASE Inside
    BY <2>1, HeadAttended, HeadSplitAttended, ReactAttended, EmitAttended, RefusedAttended,
       RestAttended, WorkAttended DEF Inside, React
  <2>2. CASE Outside
    BY <2>2, OutsideAttended
  <2>3. CASE UNCHANGED vars
    <3>1. UNCHANGED objective /\ UNCHANGED <<ledger, fibre, cut>>
      BY <2>3 DEF vars
    <3>2. \A g \in Fibres : Covers(g)' = Covers(g) /\ Reacts(g)' = Reacts(g)
      BY <3>1, SameCovers
    <3>3. Dropped' = Dropped /\ Dismissed' = Dismissed
      BY <3>1, PlannedSame DEF Dropped, Dismissed, Standing, Obsolete, Candidate, ledger
    <3>4. PlannedAttended' = PlannedAttended /\ UnadvisedAttended' = UnadvisedAttended
      BY <3>1, <3>2, <3>3 DEF PlannedAttended, UnadvisedAttended, ledger
    <3> QED
      BY <3>1, <3>4, PlannedSame DEF AttendedInv, Nothing, E
  <2> QED
    BY <2>1, <2>2, <2>3 DEF DeliveryNext
<1>3. AttendedInv => NothingUnplanned
  BY DEF AttendedInv, PlannedAttended, Reacts, Covers, SplitsNext, Spent, NothingUnplanned,
         Resting, Quiet
<1> QED
  BY <1>1, <1>2, <1>3, DeliveryInvariant, PTL DEF DeliverySpec

-----------------------------------------------------------------------------
(* With one fibre neither a failure nor a request is lost.  Runs are        *)
(* numbered by the dispatch, a run belongs to one task and only one that   *)
(* was dispatched can have failed.                                         *)
Numbered ==
  /\ \A r \in failed : r <= runs
  /\ \A t \in active : tasks[t].run # 0
  /\ \A t, u \in Tasks : tasks[t].run = tasks[u].run /\ tasks[t].run # 0 => t = u

(* No step but a dispatch numbers a run or makes a task active. *)
LEMMA RunsUntouched ==
  ASSUME DeliveryInv, Labels, DeliveryNext, \A f \in Fibres : ~EmitDispatch(f)
  PROVE  /\ runs' = runs /\ active' \subseteq active
         /\ \A t \in Tasks : tasks'[t].run = tasks[t].run
<1> DEFINE Same == /\ runs' = runs /\ active' \subseteq active
                   /\ \A t \in Tasks : tasks'[t].run = tasks[t].run
<1>1. ASSUME NEW f \in Fibres, NEW next, Plain(f, next) PROVE Same
  BY <1>1 DEF Plain
<1>2. ASSUME UNCHANGED <<tasks, active, runs>> PROVE Same
  BY <1>2
<1> HIDE DEF Same
<1>3. ASSUME NEW f \in Fibres, React(f) PROVE Same
  <2>1. CASE Post(f)
    BY <1>2, <2>1 DEF Post, objective
  <2>2. CASE Emit(f)
    BY <1>1, <2>2, PlainEmit
  <2>3. CASE Merge(f) \/ EmitIntegrated(f) \/ MergeFails(f)
    BY <1>1, <2>3, PlainMerge
  <2>4. CASE \/ Sync(f) \/ Gate(f) \/ Plan(f) \/ Head(f) \/ HeadDispatch(f) \/ HeadSplit(f)
             \/ Refused(f)
    BY <1>1, <2>4, PlainReact
  <2> QED
    BY <1>3, <2>1, <2>2, <2>3, <2>4 DEF React
<1>4. ASSUME NEW f \in Fibres, Result(f) PROVE Same
  <2>0. ObjectiveTyped /\ fibre[f].job.task \in Tasks
    BY <1>4 DEF Result, DeliveryInv, Placed, InPlace, Working, TaskJob
  <2>1. PICK rec \in TaskRecord : /\ tasks' = [tasks EXCEPT ![fibre[f].job.task] = rec]
                                  /\ rec.run = tasks[fibre[f].job.task].run
    BY <1>4, <2>0, Results
  <2>2. \A t \in Tasks : tasks'[t].run = tasks[t].run
    BY <2>0, <2>1 DEF ObjectiveTyped
  <2>3. runs' = runs /\ active' \subseteq active
    BY <1>4 DEF Result
  <2> QED
    BY <2>2, <2>3 DEF Same
<1>5. ASSUME NEW f \in Fibres, Work(f), ~Result(f) PROVE Same
  BY <1>2, <1>5 DEF Work, Control, Pass, Check, EndControl, Take, Abort, Validated, Published,
                    Cancel, objective
<1>6. ASSUME Outside PROVE Same
  BY <1>2, <1>6 DEF Outside, Note, CancelJobs, Fails, Advise, Crash, objective
<1>7. Same
  BY <1>3, <1>4, <1>5, <1>6 DEF DeliveryNext, Inside
<1> QED
  BY <1>7 DEF Same

(* A run that fails was dispatched. *)
LEMMA FailuresKnown ==
  ASSUME DeliveryInv, Labels, DeliveryNext
  PROVE  \A r \in failed' : r \in failed \/ r <= runs
<1> DEFINE Fine == \A r \in failed' : r \in failed \/ r <= runs
<1>0. \A f \in Fibres : fibre[f].job.run <= runs
  BY DEF Labels, Labelled
<1>1. ASSUME failed' = failed PROVE Fine
  BY <1>1
<1>2. ASSUME failed' = failed \cup RunsOf(queue \cup Held) PROVE Fine
  <2>1. \A r \in RunsOf(queue \cup Held) : r <= runs
    BY <1>0 DEF RunsOf, Held, Labels, Labelled
  <2> QED
    BY <1>2, <2>1
<1>3. ASSUME NEW f \in Fibres, failed' \subseteq failed \cup {fibre[f].job.run} PROVE Fine
  BY <1>0, <1>3
<1>4. ASSUME NEW t \in Tasks, failed' = failed \cup {tasks[t].run} PROVE Fine
  BY <1>4 DEF Labels
<1> HIDE DEF Fine
<1>5. ASSUME NEW f \in Fibres, React(f) PROVE Fine
  <2>1. CASE Sync(f)
    BY <1>1, <2>1 DEF Sync, ledger
  <2>2. CASE HeadDispatch(f)
    <3>1. failed' \subseteq failed \cup {fibre[f].job.run}
      BY <2>2 DEF HeadDispatch, RunsOf
    <3> QED
      BY <1>3, <3>1
  <2>3. CASE HeadSplit(f)
    <3>1. fibre[f].eff.on \in Tasks
      BY <2>3 DEF HeadSplit, DeliveryInv, Placed, InPlace, Directed
    <3> QED
      BY <1>1, <1>4, <2>3, <3>1 DEF HeadSplit
  <2>4. CASE \/ Gate(f) \/ Plan(f) \/ Head(f) \/ Refused(f) \/ Post(f)
             \/ Merge(f) \/ EmitIntegrated(f) \/ MergeFails(f)
    BY <1>1, <2>4 DEF Gate, Plan, Head, Refused, Post, Merge, EmitIntegrated, MergeFails, ledger
  <2>5. CASE Emit(f)
    BY <1>1, <2>5 DEF Emit, EmitAdd, EmitFollow, EmitSplit, EmitPrepare, EmitDispatch,
         EmitIntegrate, EmitPromote, EmitIntegration, EmitReady, EmitComplete, EmitBlock,
         EmitNext, ledger
  <2> QED
    BY <1>5, <2>1, <2>2, <2>3, <2>4, <2>5 DEF React
<1>6. ASSUME NEW f \in Fibres, Work(f) PROVE Fine
  <2>1. failed' = failed \/ failed' = failed \cup RunsOf(queue \cup Held)
    BY <1>6 DEF Work, Control, Pass, Check, Retires, EndControl, Take, Result, Abort, Validated,
                Published, Cancel, ledger
  <2> QED
    BY <1>1, <1>2, <2>1
<1>7. ASSUME Outside PROVE Fine
  <2>1. ASSUME NEW f \in Fibres, Note(f) \/ CancelJobs(f) \/ Fails(f) PROVE Fine
    <3>1. \/ failed' = failed \/ failed' = failed \cup RunsOf(queue \cup Held)
          \/ failed' = failed \cup {fibre[f].job.run}
      BY <2>1 DEF Note, CancelJobs, Fails, ledger
    <3> QED
      BY <1>1, <1>2, <1>3, <3>1
  <2>2. ASSUME Crash \/ \E t \in Tasks : Advise(t) PROVE Fine
    BY <1>1, <2>2 DEF Advise, Crash
  <2> QED
    BY <1>7, <2>1, <2>2 DEF Outside
<1>8. Fine
  BY <1>5, <1>6, <1>7 DEF DeliveryNext, Inside
<1> QED
  BY <1>8 DEF Fine

(* Runs stay numbered. *)
LEMMA NumberedStep ==
  ASSUME DeliveryInv, Labels, Numbered, DeliveryNext
  PROVE  Numbered'
<1>0. /\ runs \in Nat /\ failed \subseteq Nat /\ failed' \subseteq Nat
      /\ \A t \in Tasks : tasks[t].run \in Nat /\ tasks[t].run <= runs
  <2>1. DeliveryInv'
    BY ReactTyped, EmitTyped, RestTypedToo, WorkTyped, OutsideTyped DEF DeliveryNext, Inside, React
  <2> QED
    BY <2>1 DEF DeliveryInv, ObjectiveTyped, LedgerTyped, TaskRecord, Labels
<1>1. \A r \in failed' : r <= runs
  BY FailuresKnown DEF Numbered
<1>2. CASE \A f \in Fibres : ~EmitDispatch(f)
  <2>1. /\ runs' = runs /\ active' \subseteq active
        /\ \A t \in Tasks : tasks'[t].run = tasks[t].run
    BY <1>2, RunsUntouched
  <2> QED
    BY <1>1, <2>1 DEF Numbered, DeliveryInv, ObjectiveTyped
<1>3. ASSUME NEW f \in Fibres, EmitDispatch(f) PROVE Numbered'
  <2>1. PICK t, pass :
          /\ t \in Tasks /\ runs' = runs + 1 /\ active' = active \cup {t} /\ failed' = failed
          /\ tasks' = [tasks EXCEPT ![t] = [st |-> "running", cand |-> "running",
                                            passes |-> pass, run |-> runs + 1]]
    BY <1>3 DEF EmitDispatch, Appends, ledger, DeliveryInv, Placed, InPlace, Directed
  <2>2. \A u \in Tasks : tasks'[u].run = IF u = t THEN runs + 1 ELSE tasks[u].run
    BY <2>1 DEF DeliveryInv, ObjectiveTyped
  <2>3. \A r \in failed' : r <= runs'
    BY <1>0, <1>1, <2>1
  <2>4. \A u \in active' : tasks'[u].run # 0
    BY <1>0, <2>1, <2>2 DEF Numbered, DeliveryInv, ObjectiveTyped
  <2>5. \A u, v \in Tasks : tasks'[u].run = tasks'[v].run /\ tasks'[u].run # 0 => u = v
    BY <1>0, <2>2 DEF Numbered
  <2> QED
    BY <2>3, <2>4, <2>5 DEF Numbered
<1> QED
  BY <1>2, <1>3

(* An active task is running.  One whose job failed is noticed: the fibre   *)
(* has a look at the failed jobs before it, a control job is queued for it, *)
(* or the split that canceled the job is about to replace the task.  What   *)
(* the fibre is about to apply makes nothing active and spares the active   *)
(* tasks.                                                                  *)
Heard(f) ==
  /\ fibre[f].at \in Spent /\ Lapsed # {} => wake \/ status # "live"
  /\ fibre[f].at \in {"gate", "plan", "head", "post", "merge", "merged"} => Lapsed = {}
  /\ fibre[f].at = "emit"
       => \A t \in Lapsed : fibre[f].eff.do = "split" /\ t = fibre[f].eff.on
Spares(x, set) ==
  /\ x.at = "emit" /\ x.eff.do = "add" => 1 \notin set
  /\ x.at \in {"head", "emit"} /\ x.eff.do = "follow" => x.eff.on + 1 \notin set
  /\ x.at \in {"head", "emit"} /\ x.eff.do \in {"prepare", "next"} => x.eff.up \cap set = {}
  /\ x.at = "head" /\ x.eff.do = "dispatch" => Cardinality(set) < MaxParallel
AloneInv(f) == /\ Heard(f) /\ Spares(fibre[f], active)
               /\ \A t \in active : tasks[t].st = "running"

(* A follow-up is planned and applied while nothing is active, so that no  *)
(* advice comes between; the one piece of advice there is stays until the  *)
(* fibre has dealt with it, and comes of a task that is active.            *)
Kept(f) ==
  /\ SplitsNext(f) => /\ Planned.do = "split" /\ Split(f) = advice
                      /\ fibre[f].rest = Unadvised
  /\ fibre[f].at \in {"head", "emit"} /\ fibre[f].eff.do = "follow"
       => active = {} /\ (fibre[f].at = "emit" => fibre[f].fresh)
  /\ fibre[f].at = "emit" /\ fibre[f].eff.do = "split"
       => advice # NoAdvice /\ (fibre[f].fresh \/ wake)
Told(f) ==
  status = "live" /\ fibre[f].at \in Spent
    => \/ wake \/ cut
       \/ Planned.do # "follow" /\ (Planned.do = "split" => advice.task \in active)
MindedInv(f) == Kept(f) /\ Told(f)

(* A step that touches no task that stays active lets nothing lapse. *)
LEMMA LapsedKept ==
  ASSUME NEW f, AloneInv(f), failed' = failed, active' \subseteq active, active \subseteq Tasks,
         \A t \in active' : tasks'[t].st = tasks[t].st /\ tasks'[t].run = tasks[t].run
  PROVE  Lapsed' = Lapsed \cap active' /\ \A t \in active' : tasks'[t].st = "running"
BY DEF AloneInv, Lapsed

(* A fibre that moves to a place where it has nothing in hand. *)
LEMMA HearsOn ==
  ASSUME NEW f, fibre'[f].at \notin {"head", "emit"},
         \A t \in active' : tasks'[t].st = "running",
         \/ Lapsed' = {}
         \/ fibre'[f].at \notin {"gate", "plan", "post", "merge", "merged"} /\ (wake' \/ status' # "live")
         \/ fibre'[f].at \notin {"gate", "plan", "post", "merge", "merged"} \cup Spent
  PROVE  AloneInv(f)'
<1>1. Spares(fibre'[f], active')
  BY DEF Spares
<1>2. Heard(f)'
  BY DEF Heard
<1> QED
  BY <1>1, <1>2 DEF AloneInv

(* What is planned spares the active tasks. *)
LEMMA PlanSpares ==
  ASSUME DeliveryInv, \A t \in active : tasks[t].st = "running",
         NEW x, x.eff \in {Planned, Unadvised}
  PROVE  Spares(x, active)
<1>0. ObjectiveTyped /\ active \subseteq Tasks
  BY DEF DeliveryInv, ObjectiveTyped
<1>1. active \subseteq Added
  BY <1>0 DEF Added
<1>2. x.eff.do = "add" => 1 \notin active
  BY <1>1, PlannedFor
<1>3. x.eff.do = "follow" => x.eff.on + 1 \notin active
  BY PlannedFor
<1>4. Prepares.up \cap active = {}
  BY DEF Prepares, Activatable
<1>5. Retryable \cap active = {}
  BY DEF Retryable, Stuck
<1>6. x.eff.do \in {"prepare", "next"} => x.eff.up \cap active = {}
  BY <1>4, <1>5, PlannedFor
<1>7. x.eff.do = "dispatch" => Cardinality(active) < MaxParallel
  BY <1>0, UnadvisedFits, PlannedSplit DEF Fitting
<1> QED
  BY <1>2, <1>3, <1>6, <1>7 DEF Spares

-----------------------------------------------------------------------------
(* Before an effect is applied. *)
LEMMA ReactHeard ==
  ASSUME DeliveryInv, NEW f \in Fibres, AloneInv(f), Sync(f) \/ Gate(f) \/ Plan(f) \/ Head(f)
  PROVE  AloneInv(f)'
<1>0. fibre[f] \in Fibre /\ active \subseteq Tasks /\ tasks \in [Tasks -> TaskRecord]
  BY DEF DeliveryInv, Placed, ObjectiveTyped
<1>1. CASE Sync(f)
  <2>1. CASE Terminal
    <3>1. /\ Steps(f, Over(f)) /\ UNCHANGED <<tasks, active>> /\ status' # "live"
      BY <1>1, <2>1 DEF Sync, Terminal, Steps
    <3>2. fibre'[f].at \in {"sync", "idle", "check"}
      BY <3>1, NextJobs, Others
    <3> QED
      BY <3>1, <3>2, HearsOn DEF AloneInv
  <2>2. CASE ~Terminal
    <3>1. /\ active' = active \ Lapsed /\ failed' = failed
          /\ \A t \in active' : tasks'[t] = tasks[t]
          /\ Steps(f, To(f, "gate"))
      BY <1>0, <1>1, <2>2 DEF Sync, Steps, ledger
    <3>2. Lapsed' = {} /\ \A t \in active' : tasks'[t].st = "running"
      BY <1>0, <3>1, LapsedKept
    <3>3. fibre'[f].at = "gate"
      BY <3>1, NextJobs, Others
    <3> QED
      BY <3>2, <3>3, HearsOn
  <2> QED
    BY <2>1, <2>2
<1>2. CASE ~Sync(f)
  <2>1. /\ UNCHANGED objective /\ failed' = failed /\ tasks' = tasks /\ active' = active
        /\ fibre[f].at \in {"gate", "plan", "head"}
    BY <1>2 DEF Gate, Plan, Head, objective, ledger
  <2>2. Lapsed' = {} /\ \A t \in active' : tasks'[t].st = "running"
    BY <1>0, <2>1, LapsedKept DEF AloneInv, Heard
  <2>3. ASSUME NEW next, Moves(f, next), next.at \in {"sync", "idle", "check", "plan"}
        PROVE  AloneInv(f)'
    <3>1. fibre'[f] = next
      BY <2>3, Others DEF Steps
    <3> QED
      BY <2>2, <2>3, <3>1, HearsOn
  <2>4. ASSUME NEW next, Moves(f, next), next.at \in {"head", "emit"}, Spares(next, active)
        PROVE  AloneInv(f)'
    <3>1. fibre'[f] = next
      BY <2>4, Others DEF Steps
    <3> QED
      BY <2>1, <2>2, <2>4, <3>1 DEF AloneInv, Heard, Spent
  <2>5. CASE Gate(f)
    <3> DEFINE next == [fibre[f] EXCEPT !.at = "emit", !.eff = E("policy", 0)]
               pass == [fibre[f] EXCEPT !.at = "plan", !.left = PlannerPasses]
    <3>1. next.at = "emit" /\ next.eff.do = "policy" /\ pass.at = "plan"
      BY <1>0 DEF Fibre, E
    <3>2. Spares(next, active)
      BY <3>1 DEF Spares
    <3>3. Moves(f, Over(f)) \/ Moves(f, next) \/ Moves(f, pass)
      BY <2>5 DEF Gate
    <3> HIDE DEF next, pass
    <3> QED
      BY <2>3, <2>4, <3>1, <3>2, <3>3, NextJobs
  <2>6. CASE Plan(f)
    <3> DEFINE next == [fibre[f] EXCEPT !.at = Onto(Planned), !.eff = Planned, !.left = @ - 1,
                                        !.rest = IF Planned.do = "split" THEN Unadvised ELSE Nothing]
    <3>1. Moves(f, Over(f)) \/ Moves(f, next)
      BY <2>6 DEF Plan
    <3>2. next.at \in {"head", "emit"} /\ next.eff = Planned
      BY <1>0 DEF Fibre, Onto
    <3> HIDE DEF next
    <3>3. Spares(next, active)
      BY <3>2, PlanSpares DEF AloneInv
    <3> QED
      BY <2>3, <2>4, <3>1, <3>2, <3>3, NextJobs
  <2>7. CASE Head(f)
    <3> DEFINE next == [To(f, "emit") EXCEPT !.fresh = TRUE]
    <3>1. Moves(f, next) /\ next.at = "emit" /\ next.eff = fibre[f].eff
      BY <1>0, <2>7 DEF Head, To, Fibre
    <3>2. Spares(fibre[f], active) /\ fibre[f].at = "head" /\ fibre[f].eff.do # "add"
      BY <2>7 DEF AloneInv, Head, DeliveryInv, Placed, InPlace, Conditional
    <3>3. Spares(next, active)
      BY <3>1, <3>2 DEF Spares
    <3> HIDE DEF next
    <3> QED
      BY <2>4, <3>1, <3>3
  <2> QED
    BY <1>2, <2>5, <2>6, <2>7
<1> QED
  BY <1>1, <1>2

(* A dispatch finds its place free, a split cancels the job of its task    *)
(* only, and what was planned beside it spares the active tasks too.       *)
LEMMA HeadHeard ==
  ASSUME DeliveryInv, Numbered, NEW f \in Fibres, AloneInv(f), Kept(f),
         HeadDispatch(f) \/ HeadSplit(f)
  PROVE  AloneInv(f)'
<1>0. fibre[f] \in Fibre /\ active \subseteq Tasks /\ tasks \in [Tasks -> TaskRecord]
  BY DEF DeliveryInv, Placed, ObjectiveTyped
<1>2. fibre[f].at = "head" /\ Lapsed = {} /\ fibre[f].eff.do \in {"dispatch", "split"}
  BY DEF HeadDispatch, HeadSplit, AloneInv, Heard
<1>3. ASSUME NEW x, x.at = "emit", x.eff = fibre[f].eff PROVE Spares(x, active)
  BY <1>2, <1>3 DEF Spares
<1>5. CASE HeadDispatch(f)
  <2> DEFINE next == [To(f, "emit") EXCEPT !.fresh = TRUE]
  <2>1. next.at = "emit" /\ next.eff = fibre[f].eff
    BY <1>0 DEF To, Fibre
  <2>2. Cardinality(active) < MaxParallel
    BY <1>5 DEF HeadDispatch, AloneInv, Spares
  <2>3. Steps(f, next) /\ failed' = failed /\ tasks' = tasks /\ active' = active
    BY <1>5, <2>2 DEF HeadDispatch, objective, Steps
  <2>4. Lapsed' = {} /\ \A t \in active' : tasks'[t].st = "running"
    BY <1>0, <1>2, <2>3, LapsedKept
  <2>5. fibre'[f] = next
    BY <2>3, Others
  <2> HIDE DEF next
  <2> QED
    BY <1>3, <2>1, <2>3, <2>4, <2>5 DEF AloneInv, Heard, Spent
<1>6. CASE HeadSplit(f) /\ Obsolete(Split(f))
  <2> DEFINE rest == fibre[f].rest
             next == [fibre[f] EXCEPT !.at = Onto(rest), !.eff = rest, !.rest = Nothing]
  <2>1. /\ rest = Nothing => Steps(f, Over(f))
        /\ rest # Nothing => Steps(f, next)
        /\ failed' = failed /\ tasks' = tasks /\ active' = active
    BY <1>6 DEF HeadSplit, Obsolete, Split, Steps
  <2>2. Lapsed' = {} /\ \A t \in active' : tasks'[t].st = "running"
    BY <1>0, <1>2, <2>1, LapsedKept
  <2>3. next.at \in {"head", "emit"} /\ next.eff = rest
    BY <1>0 DEF Fibre, Onto
  <2>4. rest = Unadvised
    BY <1>6 DEF HeadSplit, Kept, SplitsNext
  <2> HIDE DEF next, rest
  <2>5. Spares(next, active)
    BY <2>3, <2>4, PlanSpares DEF AloneInv
  <2>6. CASE rest = Nothing
    <3>1. fibre'[f].at \in {"sync", "idle", "check"}
      BY <2>1, <2>6, NextJobs, Others
    <3> QED
      BY <2>2, <3>1, HearsOn
  <2>7. CASE rest # Nothing
    <3>1. fibre'[f] = next
      BY <2>1, <2>7, Others
    <3> QED
      BY <2>1, <2>2, <2>3, <2>5, <3>1 DEF AloneInv, Heard, Spent
  <2> QED
    BY <2>6, <2>7
<1>7. CASE HeadSplit(f) /\ ~Obsolete(Split(f))
  <2> DEFINE next == [To(f, "emit") EXCEPT !.fresh = TRUE, !.rest = Nothing]
  <2>1. PICK t \in Tasks : t = fibre[f].eff.on
    BY <1>7 DEF HeadSplit, DeliveryInv, Placed, InPlace, Directed
  <2>2. /\ Signals(f, next) /\ failed' = failed \cup {tasks[t].run}
        /\ tasks' = tasks /\ active' = active
    BY <1>7, <2>1 DEF HeadSplit, Obsolete, Split
  <2>3. \A u \in Lapsed' : u = t
    BY <1>0, <1>2, <2>2 DEF Lapsed, Numbered
  <2>4. /\ next.at = "emit" /\ next.eff = fibre[f].eff
        /\ [next EXCEPT !.fresh = FALSE].at = "emit"
        /\ [next EXCEPT !.fresh = FALSE].eff = fibre[f].eff
    BY <1>0 DEF To, Fibre
  <2>5. fibre'[f].at = "emit" /\ fibre'[f].eff = fibre[f].eff
    BY <2>2, <2>4, Others
  <2>6. Heard(f)'
    BY <1>7, <2>1, <2>3, <2>5 DEF Heard, Spent, HeadSplit
  <2> QED
    BY <1>3, <2>2, <2>5, <2>6 DEF AloneInv
<1> QED
  BY <1>5, <1>6, <1>7

(* An effect touches no active task but those that it takes out, and the    *)
(* one it makes active, whose run is new.                                  *)
LEMMA EmitHeard ==
  ASSUME DeliveryInv, Numbered, NEW f \in Fibres, AloneInv(f), Emit(f)
  PROVE  AloneInv(f)'
<1>0. /\ fibre[f] \in Fibre /\ active \subseteq Tasks /\ tasks \in [Tasks -> TaskRecord]
      /\ fibre[f].at = "emit" /\ \A t \in active : tasks[t].st = "running"
  BY DEF DeliveryInv, Placed, ObjectiveTyped, Emit, EmitAdd, EmitFollow, EmitSplit, EmitPrepare,
         EmitDispatch, EmitIntegrate, EmitPromote, EmitIntegration, EmitReady, EmitComplete,
         EmitBlock, EmitNext, Appends, AloneInv
<1>1. failed' = failed
  BY DEF Emit, EmitAdd, EmitFollow, EmitSplit, EmitPrepare, EmitDispatch,
         EmitIntegrate, EmitPromote, EmitIntegration, EmitReady, EmitComplete,
         EmitBlock, EmitNext, ledger
<1>2. ASSUME active' \subseteq active, Lapsed \cap active' = {},
             \A t \in active' : tasks'[t] = tasks[t],
             NEW next, Emits(f, next), next.at \notin {"head", "emit"}
      PROVE  AloneInv(f)'
  <2>1. Lapsed' = {} /\ \A t \in active' : tasks'[t].st = "running"
    BY <1>0, <1>1, <1>2, LapsedKept
  <2>2. fibre'[f] = next
    BY <1>2, Others DEF Steps
  <2> QED
    BY <1>2, <2>1, <2>2, HearsOn
<1>3. fibre[f].eff.do # "split" => Lapsed = {}
  BY <1>0 DEF AloneInv, Heard
<1>4. \A set, st : \A t \in Tasks \ set : Becomes(set, st)[t] = tasks[t]
  BY DEF Becomes
<1>5. CASE EmitAdd(f) \/ EmitFollow(f) \/ EmitSplit(f) \/ EmitPrepare(f)
  <2>1. Emits(f, Again(f)) /\ Again(f).at = "plan"
    BY <1>5, NextJobs DEF EmitAdd, EmitFollow, EmitSplit, EmitPrepare
  <2>2. active' \subseteq active /\ Lapsed \cap active' = {}
    <3>1. CASE EmitSplit(f)
      BY <1>0, <3>1 DEF EmitSplit, AloneInv, Heard
    <3>2. CASE EmitAdd(f) \/ EmitFollow(f) \/ EmitPrepare(f)
      BY <1>3, <3>2 DEF EmitAdd, EmitFollow, EmitPrepare, Appends
    <3> QED
      BY <1>5, <3>1, <3>2
  <2>3. \A t \in active' : tasks'[t] = tasks[t]
    <3>1. CASE EmitAdd(f)
      <4>1. 1 \notin active /\ tasks' = Becomes({1}, "pending") /\ active' = active
        BY <1>0, <3>1 DEF EmitAdd, Appends, AloneInv, Spares
      <4> QED
        BY <1>0, <1>4, <4>1
    <3>2. CASE EmitFollow(f)
      <4> DEFINE e == fibre[f].eff
      <4>1. /\ e.on + 1 \notin active /\ active' = active \ e.down
            /\ tasks' = [t \in Tasks |-> IF t = e.on + 1 THEN [tasks[t] EXCEPT !.st = "pending"]
                                         ELSE Becomes(e.down, "superseded")[t]]
        BY <1>0, <3>2 DEF EmitFollow, Appends, AloneInv, Spares
      <4> HIDE DEF e
      <4>2. \A t \in active' : tasks'[t] = Becomes(e.down, "superseded")[t]
        BY <1>0, <4>1
      <4> QED
        BY <1>0, <1>4, <4>1, <4>2
    <3>3. CASE EmitSplit(f)
      <4> DEFINE on == fibre[f].eff.on
      <4>1. /\ active' = active \ {on}
            /\ tasks' = [t \in Tasks |->
                 IF t \in {Latest + 1, Latest + 2} THEN [tasks[t] EXCEPT !.st = "pending"]
                 ELSE IF t = on /\ tasks[t].st # "integrated"
                   THEN [tasks[t] EXCEPT !.st = "superseded"]
                 ELSE tasks[t]]
        BY <3>3 DEF EmitSplit
      <4>2. Latest \in Nat /\ \A t \in active : t \in Nat /\ t <= Latest
        <5>1. active \subseteq Added
          BY <1>0 DEF Added
        <5>2. Latest \in 0..MaxTasks /\ \A t \in Added : t <= Latest
          BY LatestTask DEF DeliveryInv
        <5> QED
          BY <1>0, <5>1, <5>2, Small
      <4>3. \A t \in active : t \notin {Latest + 1, Latest + 2}
        BY <4>2
      <4> HIDE DEF on
      <4> QED
        BY <1>0, <4>1, <4>3
    <3>4. CASE EmitPrepare(f)
      <4> DEFINE e == fibre[f].eff
      <4>1. /\ e.up \cap active = {} /\ active' = active \ e.down
            /\ tasks' = [t \in Tasks |-> IF t \in e.down THEN Block(t, "capped")
                                         ELSE Becomes(e.up, "ready")[t]]
        BY <1>0, <3>4 DEF EmitPrepare, Appends, AloneInv, Spares
      <4> HIDE DEF e
      <4>2. \A t \in active' : tasks'[t] = Becomes(e.up, "ready")[t]
        BY <1>0, <4>1
      <4> QED
        BY <1>0, <1>4, <4>1, <4>2
    <3> QED
      BY <1>5, <3>1, <3>2, <3>3, <3>4
  <2> QED
    BY <1>2, <2>1, <2>2, <2>3
<1>6. CASE EmitDispatch(f)
  <2>1. PICK t, pass, due :
          /\ t \in Tasks /\ active' = active \cup {t} /\ Emits(f, [To(f, "post") EXCEPT !.due = due])
          /\ tasks' = [tasks EXCEPT ![t] = [st |-> "running", cand |-> "running",
                                            passes |-> pass, run |-> runs + 1]]
    BY <1>6 DEF EmitDispatch, Appends, DeliveryInv, Placed, InPlace, Directed
  <2>2. fibre[f].eff.do = "dispatch"
    BY <1>6 DEF EmitDispatch, Appends
  <2>3. \A u \in Tasks : /\ u # t => tasks'[u] = tasks[u]
                         /\ tasks'[t].st = "running" /\ tasks'[t].run = runs + 1
    BY <1>0, <2>1
  <2>4. runs + 1 \notin failed'
    BY <1>1 DEF Numbered, DeliveryInv, ObjectiveTyped, LedgerTyped
  <2>5. \A u \in active' : tasks'[u].st = "running"
    BY <1>0, <2>1, <2>3
  <2>6. Lapsed' = {}
    BY <1>0, <1>1, <1>3, <2>1, <2>2, <2>3, <2>4 DEF Lapsed
  <2> DEFINE next == [To(f, "post") EXCEPT !.due = due]
  <2>7. next.at = "post"
    BY <1>0 DEF To, Fibre
  <2>8. fibre'[f] = next
    BY <2>1, Others DEF Steps
  <2> HIDE DEF next
  <2> QED
    BY <2>5, <2>6, <2>7, <2>8, HearsOn
<1>7. CASE EmitIntegrate(f) \/ EmitPromote(f)
  <2>0. PICK at \in {"post", "merge"} : \E due : Emits(f, [To(f, at) EXCEPT !.due = due])
    BY <1>7 DEF EmitIntegrate, EmitPromote, EmitIntegration
  <2>1. PICK due : Emits(f, [To(f, at) EXCEPT !.due = due])
    BY <2>0
  <2>2. [To(f, at) EXCEPT !.due = due].at = at
    BY <1>0 DEF To, Fibre
  <2>3. tasks' = tasks /\ active' = active /\ Lapsed = {}
    BY <1>3, <1>7 DEF EmitIntegrate, EmitPromote, EmitIntegration, Appends
  <2> QED
    BY <1>2, <2>1, <2>2, <2>3
<1>8. CASE EmitReady(f) \/ EmitComplete(f) \/ EmitBlock(f)
  <2>1. tasks' = tasks /\ active' = active /\ Lapsed = {}
    BY <1>3, <1>8 DEF EmitReady, EmitComplete, EmitBlock, Appends
  <2>2. Emits(f, Again(f)) \/ Emits(f, Over(f))
    BY <1>8 DEF EmitReady, EmitComplete, EmitBlock
  <2> QED
    BY <1>2, <2>1, <2>2, NextJobs
<1>9. CASE EmitNext(f)
  <2>1. fibre[f].eff.up \cap active = {} /\ active' = active /\ Lapsed = {}
    BY <1>0, <1>3, <1>9 DEF EmitNext, Appends, AloneInv, Spares
  <2>2. tasks' = tasks \/ \E t \in fibre[f].eff.up : tasks' = Becomes({t}, "ready")
    BY <1>9 DEF EmitNext
  <2>3. ASSUME NEW u \in active' PROVE tasks'[u] = tasks[u]
    <3>1. ASSUME NEW t \in fibre[f].eff.up, tasks' = Becomes({t}, "ready")
          PROVE  tasks'[u] = tasks[u]
      <4>1. u \in Tasks \ {t}
        BY <1>0, <2>1, <3>1
      <4> QED
        BY <1>4, <3>1, <4>1
    <3> QED
      BY <2>2, <3>1
  <2>4. Emits(f, Reacting(fibre[f].job)) \/ Emits(f, Over(f))
    BY <1>9 DEF EmitNext
  <2> QED
    BY <1>2, <2>1, <2>3, <2>4, NextJobs
<1> QED
  BY <1>5, <1>6, <1>7, <1>8, <1>9 DEF Emit

(* An effect that is dropped, a job that is enqueued and the merge. *)
LEMMA RestHeard ==
  ASSUME DeliveryInv, NEW f \in Fibres, AloneInv(f), Kept(f),
         Refused(f) \/ Post(f) \/ Merge(f) \/ EmitIntegrated(f) \/ MergeFails(f)
  PROVE  AloneInv(f)'
<1>0. /\ fibre[f] \in Fibre /\ active \subseteq Tasks /\ tasks \in [Tasks -> TaskRecord]
      /\ \A t \in active : tasks[t].st = "running"
  BY DEF DeliveryInv, Placed, ObjectiveTyped, AloneInv
<1>1. CASE Refused(f)
  <2>0. UNCHANGED wake \/ Asks
    BY <1>1 DEF Refused
  <2>7. wake => wake'
    BY <2>0, Zenon DEF Asks
  <2>8. /\ tasks' = tasks /\ active' = active /\ failed' = failed
        /\ fibre[f].at = "emit" /\ ~fibre[f].fresh
    BY <1>1 DEF Refused, objective
  <2>1. /\ tasks' = tasks /\ active' = active /\ failed' = failed /\ fibre[f].at = "emit"
        /\ (wake => wake') /\ ~fibre[f].fresh
    BY <2>7, <2>8
  <2>2. Lapsed' = Lapsed /\ \A t \in active' : tasks'[t].st = "running"
    BY <1>0, <2>1 DEF Lapsed
  <2>3. CASE fibre[f].eff.do = "split"
    <3>1. Steps(f, Over(f)) /\ wake'
      BY <1>1, <2>1, <2>3 DEF Refused, Steps, Kept
    <3>2. fibre'[f].at \in {"idle", "sync", "check"}
      BY <3>1, NextJobs, Others
    <3> QED
      BY <2>2, <3>1, <3>2, HearsOn
  <2>4. CASE fibre[f].eff.do \in {"dispatch", "integrate", "promote"}
    <3>1. Steps(f, Again(f)) /\ Lapsed = {}
      BY <1>1, <2>1, <2>4 DEF Refused, AloneInv, Heard, Steps
    <3>2. fibre'[f].at = "plan"
      BY <3>1, NextJobs, Others
    <3> QED
      BY <2>2, <3>1, <3>2, HearsOn
  <2>5. CASE fibre[f].eff.do = "next"
    <3>1. fibre'[f] = Blocking(f) /\ Lapsed = {}
      BY <1>1, <2>1, <2>5 DEF Refused, Moves, DeliveryInv, AloneInv, Heard
    <3>2. Blocking(f).at = "emit" /\ Blocking(f).eff.do = "block"
      BY NextJobs
    <3> QED
      BY <2>2, <3>1, <3>2 DEF AloneInv, Heard, Spares, Spent
  <2>6. fibre[f].eff.do # "follow"
    BY <2>1 DEF Kept
  <2> QED
    BY <1>1, <2>3, <2>4, <2>5, <2>6 DEF Refused, Conditional
<1>2. CASE ~Refused(f)
  <2>1. failed' = failed /\ active' \subseteq active /\ Lapsed = {}
    BY <1>2 DEF Post, Merge, EmitIntegrated, MergeFails, AloneInv, Heard, objective, ledger
  <2>2. \A t \in active' : tasks'[t].st = tasks[t].st /\ tasks'[t].run = tasks[t].run
    <3> DEFINE u == fibre[f].due.task
    <3>1. \/ /\ tasks' = [tasks EXCEPT ![u].st = "integrated"] /\ active' = active \ {u}
          \/ \E cand : tasks' = [tasks EXCEPT ![u].cand = cand]
          \/ tasks' = tasks
      BY <1>2 DEF Post, Merge, EmitIntegrated, MergeFails, objective
    <3> HIDE DEF u
    <3> QED
      BY <1>0, <2>1, <3>1 DEF TaskRecord
  <2>3. Lapsed' = {} /\ \A t \in active' : tasks'[t].st = "running"
    BY <1>0, <2>1, <2>2, LapsedKept
  <2>4. \/ Steps(f, Again(f)) \/ Steps(f, To(f, "merged")) \/ Steps(f, To(f, "post"))
        \/ Steps(f, Reacting(fibre[f].job))
    BY <1>2 DEF Post, Merge, EmitIntegrated, MergeFails, Steps
  <2>5. fibre'[f].at \in {"plan", "merged", "post", "sync"}
    BY <2>4, NextJobs, Others
  <2> QED
    BY <2>3, <2>5, HearsOn
<1> QED
  BY <1>1, <1>2

(* The jobs: one that is taken passes on the signal there is. *)
LEMMA WorkHeard ==
  ASSUME DeliveryInv, NEW f \in Fibres, AloneInv(f), Work(f)
  PROVE  AloneInv(f)'
<1>0. /\ fibre[f] \in Fibre /\ active \subseteq Tasks /\ tasks \in [Tasks -> TaskRecord]
      /\ \A t \in active : tasks[t].st = "running"
  BY DEF DeliveryInv, Placed, ObjectiveTyped, AloneInv
<1>1. ASSUME UNCHANGED <<tasks, active, failed, wake, status>>, NEW next, Steps(f, next),
             fibre[f].at \in Spent, next.at \in Spent \cup {"pass"}
      PROVE  AloneInv(f)'
  <2>1. Lapsed' = Lapsed /\ \A t \in active' : tasks'[t].st = "running"
    BY <1>0, <1>1 DEF Lapsed
  <2>2. Lapsed = {} \/ wake' \/ status' # "live"
    BY <1>1 DEF AloneInv, Heard
  <2>3. fibre'[f] = next
    BY <1>1, Others
  <2> QED
    BY <1>1, <2>1, <2>2, <2>3, HearsOn DEF Spent
<1>2. ASSUME active' \subseteq active, \A t \in active' : tasks'[t].st = "running",
             NEW next, Steps(f, next),
             next.at \in {"sync", "pass", "validating", "publishing"}
      PROVE  AloneInv(f)'
  <2>1. fibre'[f] = next
    BY <1>2, Others
  <2> QED
    BY <1>2, <2>1, HearsOn DEF Spent
<1>r. \A job : Reacting(job).at = "sync"
  BY NextJobs
<1>3. CASE Take(f)
  <2>1. PICK j \in queue :
          /\ queue' = queue \ {j}
          /\ \/ /\ j.kind = "task"
                /\ Moves(f, [Idle EXCEPT !.at = "run", !.job = j])
                /\ UNCHANGED <<integ, status>>
             \/ Emits(f, [Idle EXCEPT !.at = "validating", !.job = j,
                                      !.eff = [Nothing EXCEPT !.up = merged]])
             \/ /\ Moves(f, IF Terminal THEN Idle
                            ELSE [Idle EXCEPT !.at = "publishing", !.job = j])
                /\ UNCHANGED <<integ, status>>
    BY <1>3 DEF Take
  <2> DEFINE task == [Idle EXCEPT !.at = "run", !.job = j]
             check == [Idle EXCEPT !.at = "validating", !.job = j,
                                   !.eff = [Nothing EXCEPT !.up = merged]]
             publish == [Idle EXCEPT !.at = "publishing", !.job = j]
  <2>2. /\ Idle.at = "idle" /\ task.at = "run" /\ check.at = "validating"
        /\ publish.at = "publishing"
    BY DEF Idle
  <2>3. UNCHANGED <<tasks, active, failed, wake>> /\ fibre[f].at = "idle"
    BY <1>3 DEF Take
  <2>4. active' \subseteq active /\ \A t \in active' : tasks'[t].st = "running"
    BY <1>0, <2>3
  <2>5. \/ Steps(f, task) /\ status' = status
        \/ Steps(f, check)
        \/ Steps(f, Idle) /\ status' = status
        \/ Steps(f, publish)
    BY <2>1 DEF Steps
  <2> HIDE DEF task, check, publish
  <2> QED
    BY <1>1, <1>2, <2>2, <2>3, <2>4, <2>5 DEF Spent
<1>4. CASE Result(f)
  <2>0. ObjectiveTyped /\ fibre[f].job.task \in Tasks
    BY <1>4 DEF Result, DeliveryInv, Placed, InPlace, Working, TaskJob
  <2>1. PICK rec : tasks' = [tasks EXCEPT ![fibre[f].job.task] = rec]
    BY <1>4, <2>0, Results
  <2>2. active' = active \ {fibre[f].job.task} /\ Steps(f, Reacting(fibre[f].job))
    BY <1>4 DEF Result, Steps
  <2>3. \A t \in active' : tasks'[t] = tasks[t]
    BY <1>0, <2>1, <2>2
  <2> QED
    BY <1>0, <1>2, <1>r, <2>2, <2>3
<1>5. CASE Abort(f) \/ EndControl(f)
  <2>1. /\ UNCHANGED <<tasks, active, failed, wake, status>> /\ Steps(f, Idle)
        /\ fibre[f].at \in Spent /\ Idle.at \in Spent
    BY <1>5, NextJobs DEF Abort, EndControl, objective, ledger, Steps, Spent
  <2> QED
    BY <1>1, <2>1
<1>6. CASE Validated(f) \/ Published(f)
  <2>1. Steps(f, Reacting(NoJob)) \/ Steps(f, Reacting(fibre[f].job))
    BY <1>6 DEF Validated, Published, Steps
  <2>2. active' = active /\ tasks' = tasks
    BY <1>6 DEF Validated, Published
  <2> QED
    BY <1>0, <1>2, <1>r, <2>1, <2>2
<1>7. CASE Control(f)
  <2> DEFINE next == [Idle EXCEPT !.at = "pass", !.job = J("control", 0, 1, 0)]
  <2>1. Steps(f, next) /\ next.at = "pass" /\ active' = active /\ tasks' = tasks
    BY <1>7 DEF Control, Steps, Idle, objective
  <2> HIDE DEF next
  <2> QED
    BY <1>0, <1>2, <2>1
<1>8. CASE (Pass(f) \/ Check(f)) /\ Terminal
  <2>1. /\ Steps(f, To(f, "end")) /\ status' # "live" /\ active' = active /\ tasks' = tasks
    BY <1>8 DEF Pass, Check, Retires, Terminal, objective, Steps
  <2>2. fibre'[f].at = "end"
    BY <2>1, NextJobs, Others
  <2> QED
    BY <1>0, <2>1, <2>2, HearsOn
<1>9. CASE Pass(f) /\ ~Terminal
  <2>1. Steps(f, Reacting(fibre[f].job)) /\ active' = active /\ tasks' = tasks
    BY <1>9 DEF Pass, objective, Steps
  <2> QED
    BY <1>0, <1>2, <1>r, <2>1
<1>10. CASE Check(f) /\ ~Terminal
  <2> DEFINE again == [To(f, "pass") EXCEPT !.job = J("control", 0, 2, 0)]
  <2>1. /\ UNCHANGED <<tasks, active, failed, wake, status>>
        /\ Steps(f, again) \/ Steps(f, To(f, "end"))
        /\ fibre[f].at \in Spent
    BY <1>10 DEF Check, objective, Steps, Spent
  <2>2. again.at = "pass" /\ To(f, "end").at = "end"
    BY <1>0 DEF To, Fibre
  <2> HIDE DEF again
  <2> QED
    BY <1>1, <2>1, <2>2 DEF Spent
<1>11. CASE Cancel(f)
  <2>1. Steps(f, Idle) /\ status' = "canceled" /\ \A t \in active' : tasks'[t].st = "running"
    BY <1>0, <1>11 DEF Cancel, Steps
  <2>2. fibre'[f].at = "idle"
    BY <2>1, NextJobs, Others
  <2> QED
    BY <2>1, <2>2, HearsOn
<1> QED
  BY <1>3, <1>4, <1>5, <1>6, <1>7, <1>8, <1>9, <1>10, <1>11 DEF Work

(* Requests, failures, advice and crashes.  The only fibre does not react   *)
(* for a control job when its job fails, so that the failure is signaled.  *)
LEMMA OutsideHeard ==
  ASSUME DeliveryInv, NEW f, Fibres = {f}, AloneInv(f), Outside
  PROVE  AloneInv(f)'
<1>0. /\ f \in Fibres /\ fibre[f] \in Fibre /\ InPlace(fibre[f])
      /\ active \subseteq Tasks /\ tasks \in [Tasks -> TaskRecord]
      /\ \A t \in active : tasks[t].st = "running"
  BY DEF DeliveryInv, Placed, ObjectiveTyped, AloneInv
<1>1. CASE Note(f) \/ CancelJobs(f)
  <2>1. tasks' = tasks /\ active' = active
    BY <1>1 DEF Note, CancelJobs, objective
  <2>2. Steps(f, Reacting(NoJob)) \/ Steps(f, To(f, "cancel"))
    BY <1>1 DEF Note, CancelJobs, Steps
  <2>3. \A t \in active' : tasks'[t].st = "running"
    BY <1>0, <2>1
  <2>4. fibre'[f].at \in {"sync", "cancel"}
    BY <1>0, <2>2, NextJobs, Others
  <2> QED
    BY <2>3, <2>4, HearsOn DEF Spent
<1>2. CASE Fails(f)
  <2>1. /\ tasks' = tasks /\ active' = active /\ status' = status /\ fibre[f].at = "run"
        /\ (Steps(f, Idle) /\ UNCHANGED <<failed, wake>>) \/ Signals(f, Idle)
    BY <1>2 DEF Fails, objective, Steps
  <2>2. \A t \in active' : tasks'[t].st = "running"
    BY <1>0, <2>1
  <2>3. fibre'[f].at = "idle"
    <3>1. Idle.at = "idle" /\ [Idle EXCEPT !.fresh = FALSE].at = "idle"
      BY DEF Idle
    <3> QED
      BY <1>0, <2>1, <3>1, Others
  <2>4. CASE UNCHANGED <<failed, wake>>
    <3>1. Lapsed' = Lapsed
      BY <2>1, <2>4 DEF Lapsed
    <3>2. Lapsed = {} \/ wake' \/ status' # "live"
      BY <2>1, <2>4 DEF AloneInv, Heard, Spent
    <3> QED
      BY <2>2, <2>3, <3>1, <3>2, HearsOn
  <2>5. CASE Signals(f, Idle)
    <3>1. ~AtWork
      BY <1>0, <2>1 DEF InPlace, AtWork
    <3>2. wake' \/ status' # "live"
      BY <2>1, <2>5, <3>1 DEF Signals, Heeded
    <3> QED
      BY <2>2, <2>3, <3>2, HearsOn
  <2> QED
    BY <2>1, <2>4, <2>5
<1>3. ASSUME NEW t \in Tasks, Advise(t) PROVE AloneInv(f)'
  <2>1. UNCHANGED <<tasks, active, failed, status>> /\ (wake => wake')
    BY <1>3 DEF Advise, Asks
  <2>2. fibre'[f].at = fibre[f].at /\ fibre'[f].eff = fibre[f].eff
    BY <1>0, <1>3 DEF Advise, Fibre
  <2>3. Lapsed' = Lapsed /\ \A u \in active' : tasks'[u].st = "running"
    BY <1>0, <2>1 DEF Lapsed
  <2>4. Heard(f)'
    BY <2>1, <2>2, <2>3 DEF AloneInv, Heard
  <2>5. Spares(fibre'[f], active')
    BY <2>1, <2>2 DEF AloneInv, Spares
  <2> QED
    BY <2>3, <2>4, <2>5 DEF AloneInv
<1>4. CASE Crash
  <2>1. /\ UNCHANGED <<tasks, active, status>>
        /\ fibre'[f] = IF ~Terminal THEN Reacting(NoJob) ELSE Idle
    BY <1>0, <1>4 DEF Crash, objective
  <2>2. \A t \in active' : tasks'[t].st = "running"
    BY <1>0, <2>1
  <2>3. fibre'[f].at = "sync" \/ (fibre'[f].at = "idle" /\ status' # "live")
    BY <1>0, <2>1, NextJobs DEF Terminal
  <2> QED
    BY <2>2, <2>3, HearsOn DEF Spent
<1> QED
  BY <1>1, <1>2, <1>3, <1>4 DEF Outside

-----------------------------------------------------------------------------
(* The requests.  What the fibre moves to when it has nothing in hand. *)
LEMMA MindsOn ==
  ASSUME NEW f, fibre'[f].at \notin {"head", "emit"},
         fibre'[f].at \in Spent => Told(f)'
  PROVE  MindedInv(f)'
BY DEF MindedInv, Kept, Told, SplitsNext

(* A fibre that is not at work, and does not get to work. *)
LEMMA StaysTold ==
  ASSUME NEW f, Told(f), UNCHANGED objective, fibre[f].at \in Spent, wake => wake', cut => cut'
  PROVE  Told(f)'
BY PlannedSame DEF Told

(* Before an effect is applied: nothing comes between the plan, the head   *)
(* and the effect but what the fibre does itself.                          *)
LEMMA ReactMinded ==
  ASSUME DeliveryInv, NEW f \in Fibres, MindedInv(f), AloneInv(f),
         Sync(f) \/ Gate(f) \/ Plan(f) \/ Head(f) \/ HeadDispatch(f)
  PROVE  MindedInv(f)'
<1>0. fibre[f] \in Fibre /\ ObjectiveTyped
  BY DEF DeliveryInv, Placed
<1>1. CASE Sync(f)
  <2>1. CASE Terminal
    <3>1. Steps(f, Over(f)) /\ status' # "live"
      BY <1>1, <2>1 DEF Sync, Terminal, Steps
    <3>2. fibre'[f].at \in {"sync", "idle", "check"}
      BY <3>1, NextJobs, Others
    <3> QED
      BY <3>1, <3>2, MindsOn DEF Told
  <2>2. CASE ~Terminal
    <3>1. Steps(f, To(f, "gate"))
      BY <1>1, <2>2 DEF Sync, Steps
    <3>2. fibre'[f].at = "gate"
      BY <3>1, NextJobs, Others
    <3> QED
      BY <3>2, MindsOn DEF Spent
  <2> QED
    BY <2>1, <2>2
<1>2. CASE Gate(f)
  <2> DEFINE next == [fibre[f] EXCEPT !.at = "emit", !.eff = E("policy", 0)]
             pass == [fibre[f] EXCEPT !.at = "plan", !.left = PlannerPasses]
  <2>1. next.at = "emit" /\ next.eff.do = "policy" /\ pass.at = "plan"
    BY <1>0 DEF Fibre, E
  <2>2. \/ Steps(f, Over(f)) /\ status' # "live"
        \/ Steps(f, next) \/ Steps(f, pass)
    BY <1>2 DEF Gate, Steps, Terminal, objective
  <2> HIDE DEF next, pass
  <2>3. CASE Steps(f, Over(f)) /\ status' # "live"
    <3>1. fibre'[f].at \in {"sync", "idle", "check"}
      BY <2>3, NextJobs, Others
    <3> QED
      BY <2>3, <3>1, MindsOn DEF Told
  <2>4. CASE Steps(f, next)
    <3>1. fibre'[f].at = "emit" /\ fibre'[f].eff.do = "policy"
      BY <2>1, <2>4, Others
    <3> QED
      BY <3>1 DEF MindedInv, Kept, Told, SplitsNext, Spent
  <2>5. CASE Steps(f, pass)
    <3>1. fibre'[f].at = "plan"
      BY <2>1, <2>5, Others
    <3> QED
      BY <3>1, MindsOn DEF Spent
  <2> QED
    BY <2>2, <2>3, <2>4, <2>5
<1>3. CASE Plan(f)
  <2>0. /\ Planned' = Planned /\ Unadvised' = Unadvised /\ active' = active /\ advice' = advice
    BY <1>3, PlannedSame DEF Plan
  <2>1. CASE Planned = Nothing \/ fibre[f].left = 0
    <3>1. Steps(f, Over(f)) /\ (cut' \/ Planned.do = "none")
      BY <1>3, <2>1, UnadvisedFits DEF Plan, Steps
    <3>2. fibre'[f].at \in {"sync", "idle", "check"}
      BY <3>1, NextJobs, Others
    <3>3. Told(f)'
      BY <2>0, <3>1 DEF Told
    <3> QED
      BY <3>2, <3>3, MindsOn
  <2>2. CASE Planned # Nothing /\ fibre[f].left # 0
    <3> DEFINE next == [fibre[f] EXCEPT !.at = Onto(Planned), !.eff = Planned, !.left = @ - 1,
                                        !.rest = IF Planned.do = "split" THEN Unadvised ELSE Nothing]
    <3>1. Steps(f, next)
      BY <1>3, <2>2 DEF Plan, Steps
    <3>2. /\ next.at = Onto(Planned) /\ next.eff = Planned
          /\ Planned.do = "split" => next.rest = Unadvised
      BY <1>0 DEF Fibre
    <3>3. fibre'[f] = next
      BY <3>1, Others
    <3> HIDE DEF next
    <3>4. /\ fibre'[f].at \in {"head", "emit"} /\ fibre'[f].eff = Planned
          /\ Planned.do \in {"follow", "split"} => fibre'[f].at = "head"
          /\ Planned.do = "split" => fibre'[f].rest = Unadvised
      BY <3>2, <3>3 DEF Onto, Conditional
    <3>5. Planned.do = "follow" => active = {}
      BY PlannedFor
    <3>6. Planned.do = "split" => Split(f)' = advice
      BY <1>0, <3>4, PlannedSplit DEF Split
    <3>7. Kept(f)'
      BY <2>0, <3>4, <3>5, <3>6 DEF Kept, SplitsNext
    <3> QED
      BY <3>4, <3>7 DEF MindedInv, Told, Spent
  <2> QED
    BY <2>1, <2>2
<1>4. CASE \/ Head(f)
           \/ HeadDispatch(f) /\ Cardinality(active) < MaxParallel
  <2> DEFINE next == [To(f, "emit") EXCEPT !.fresh = TRUE]
  <2>1. /\ Steps(f, next) /\ fibre[f].at = "head" /\ fibre[f].eff.do # "split"
        /\ active' = active
    BY <1>4 DEF Head, HeadDispatch, Steps, objective
  <2>2. next.at = "emit" /\ next.eff = fibre[f].eff /\ next.fresh
    BY <1>0 DEF To, Fibre
  <2>3. fibre'[f] = next
    BY <2>1, Others
  <2> HIDE DEF next
  <2> QED
    BY <2>1, <2>2, <2>3 DEF MindedInv, Kept, Told, SplitsNext, Spent
<1>5. CASE HeadDispatch(f) /\ ~(Cardinality(active) < MaxParallel)
  BY <1>5 DEF HeadDispatch, AloneInv, Spares
<1> QED
  BY <1>1, <1>2, <1>3, <1>4, <1>5

(* Advice that is obsolete is put away when there was nothing else planned. *)
LEMMA HeadSplitMinded ==
  ASSUME DeliveryInv, NEW f \in Fibres, MindedInv(f), HeadSplit(f)
  PROVE  MindedInv(f)'
<1> DEFINE rest == fibre[f].rest
           on == Split(f)
<1>0. /\ fibre[f] \in Fibre /\ ObjectiveTyped /\ fibre[f].at = "head" /\ fibre[f].eff.do = "split"
      /\ Planned.do = "split" /\ on = advice /\ rest = Unadvised
      /\ status' = status /\ tasks' = tasks /\ chained' = chained /\ active' = active
      /\ integ' = integ /\ note' = note /\ runs' = runs
  BY DEF HeadSplit, DeliveryInv, Placed, MindedInv, Kept, SplitsNext
<1>1. advice # NoAdvice
  BY <1>0, PlannedSplit, UnadvisedFits
<1>2. CASE Obsolete(on)
  <2> DEFINE next == [fibre[f] EXCEPT !.at = Onto(rest), !.eff = rest, !.rest = Nothing]
  <2>1. /\ rest = Nothing => Steps(f, Over(f))
        /\ rest # Nothing => Steps(f, next)
        /\ advice' = NoAdvice
    BY <1>0, <1>2 DEF HeadSplit, Obsolete, Split, Steps
  <2>2. next.at = Onto(rest) /\ next.eff = rest
    BY <1>0 DEF Fibre
  <2>3. Planned' = Unadvised
    <3>1. Unadvised' = Unadvised
      BY <1>0, UnadvisedSame
    <3>2. Planned' = Unadvised'
      BY <2>1 DEF Planned
    <3> QED
      BY <3>1, <3>2
  <2> HIDE DEF next, rest
  <2>4. CASE rest = Nothing
    <3>1. fibre'[f].at \in {"sync", "idle", "check"}
      BY <2>1, <2>4, NextJobs, Others
    <3>2. Planned'.do = "none"
      BY <1>0, <2>3, <2>4, UnadvisedFits
    <3> QED
      BY <3>1, <3>2, MindsOn DEF Told
  <2>5. CASE rest # Nothing
    <3>1. fibre'[f] = next
      BY <2>1, <2>5, Others
    <3>2. /\ fibre'[f].at \in {"head", "emit"} /\ fibre'[f].eff = Unadvised
          /\ Unadvised.do = "follow" => fibre'[f].at = "head"
      BY <1>0, <2>2, <3>1 DEF Onto, Conditional
    <3>3. Unadvised.do # "split" /\ (Unadvised.do = "follow" => active = {})
      BY UnadvisedFits, PlannedFor
    <3> QED
      BY <1>0, <3>2, <3>3 DEF MindedInv, Kept, Told, SplitsNext, Spent
  <2> QED
    BY <2>4, <2>5
<1>3. CASE ~Obsolete(on)
  <2> DEFINE next == [To(f, "emit") EXCEPT !.fresh = TRUE, !.rest = Nothing]
  <2>1. Signals(f, next) /\ advice' = advice
    BY <1>3 DEF HeadSplit, Obsolete, Split
  <2>2. /\ next.at = "emit" /\ next.eff = fibre[f].eff /\ next.fresh
        /\ [next EXCEPT !.fresh = FALSE].at = "emit"
        /\ [next EXCEPT !.fresh = FALSE].eff = fibre[f].eff
    BY <1>0 DEF To, Fibre
  <2>3. fibre'[f].at = "emit" /\ fibre'[f].eff = fibre[f].eff
    BY <2>1, <2>2, Others
  <2>4. wake' \/ fibre'[f] = next
    BY <2>1, Others DEF Signals, Steps
  <2> HIDE DEF next
  <2> QED
    BY <1>0, <1>1, <2>1, <2>2, <2>3, <2>4 DEF MindedInv, Kept, Told, SplitsNext, Spent
<1> QED
  BY <1>2, <1>3

(* An effect is followed by another pass, or ends what was live; one that  *)
(* is dropped has been overtaken by the fibre's own signal.                *)
LEMMA EmitMinded ==
  ASSUME DeliveryInv, NEW f \in Fibres, MindedInv(f), Emit(f)
  PROVE  MindedInv(f)'
<1>0. fibre[f] \in Fibre
  BY DEF DeliveryInv, Placed
<1>1. CASE \/ EmitAdd(f) \/ EmitFollow(f) \/ EmitSplit(f) \/ EmitPrepare(f) \/ EmitReady(f)
           \/ EmitComplete(f)
  <2>1. Steps(f, Again(f))
    BY <1>1 DEF EmitAdd, EmitFollow, EmitSplit, EmitPrepare, EmitReady, EmitComplete, Steps
  <2>2. fibre'[f].at = "plan"
    BY <2>1, NextJobs, Others
  <2> QED
    BY <2>2, MindsOn DEF Spent
<1>2. CASE EmitDispatch(f) \/ EmitIntegrate(f) \/ EmitPromote(f)
  <2>0. PICK at \in {"post", "merge"} : \E due : Emits(f, [To(f, at) EXCEPT !.due = due])
    BY <1>2 DEF EmitDispatch, EmitIntegrate, EmitPromote, EmitIntegration
  <2>1. PICK due : Emits(f, [To(f, at) EXCEPT !.due = due])
    BY <2>0
  <2> DEFINE next == [To(f, at) EXCEPT !.due = due]
  <2>2. next.at = at
    BY <1>0 DEF To, Fibre
  <2>3. fibre'[f] = next
    BY <2>1, Others DEF Steps
  <2> QED
    BY <2>2, <2>3, MindsOn DEF Spent
<1>3. CASE EmitBlock(f) \/ EmitNext(f)
  <2>1. /\ Steps(f, Over(f)) \/ Steps(f, Again(f)) \/ Steps(f, Reacting(fibre[f].job))
        /\ status' # "live" \/ Steps(f, Reacting(fibre[f].job))
    BY <1>3 DEF EmitBlock, EmitNext, Steps
  <2>2. /\ fibre'[f].at \in {"sync", "idle", "check", "plan"}
        /\ status' # "live" \/ fibre'[f].at = "sync"
    BY <2>1, NextJobs, Others
  <2> QED
    BY <2>2, MindsOn DEF Told, Spent
<1> QED
  BY <1>1, <1>2, <1>3 DEF Emit

LEMMA RestMinded ==
  ASSUME DeliveryInv, NEW f \in Fibres, MindedInv(f),
         Refused(f) \/ Post(f) \/ Merge(f) \/ EmitIntegrated(f) \/ MergeFails(f)
  PROVE  MindedInv(f)'
<1>1. CASE Refused(f) /\ fibre[f].eff.do \notin {"follow", "split"}
  <2>1. Steps(f, Again(f)) \/ Steps(f, Blocking(f))
    BY <1>1 DEF Refused, Conditional, Steps
  <2>2. \/ fibre'[f].at = "plan"
        \/ fibre'[f].at = "emit" /\ fibre'[f].eff.do = "block"
    BY <2>1, NextJobs, Others
  <2> QED
    BY <2>2 DEF MindedInv, Kept, Told, SplitsNext, Spent
<1>2. CASE Refused(f) /\ fibre[f].eff.do \in {"follow", "split"}
  <2>1. /\ Steps(f, Over(f)) /\ Asks /\ fibre[f].at = "emit" /\ ~fibre[f].fresh
    BY <1>2 DEF Refused, Steps
  <2>2. wake'
    BY <1>2, <2>1 DEF MindedInv, Kept, Asks
  <2>3. fibre'[f].at \in {"sync", "idle", "check"}
    BY <2>1, NextJobs, Others
  <2> QED
    BY <2>2, <2>3, MindsOn DEF Told
<1>3. CASE ~Refused(f)
  <2>1. \/ Steps(f, Again(f)) \/ Steps(f, To(f, "merged")) \/ Steps(f, To(f, "post"))
        \/ Steps(f, Reacting(fibre[f].job))
    BY <1>3 DEF Post, Merge, EmitIntegrated, MergeFails, Steps
  <2>2. fibre'[f].at \in {"plan", "merged", "post", "sync"}
    BY <2>1, NextJobs, Others
  <2> QED
    BY <2>2, MindsOn DEF Spent
<1> QED
  BY <1>1, <1>2, <1>3

(* The jobs. *)
LEMMA WorkMinded ==
  ASSUME DeliveryInv, NEW f \in Fibres, MindedInv(f), Work(f)
  PROVE  MindedInv(f)'
<1>0. fibre[f] \in Fibre
  BY DEF DeliveryInv, Placed
<1>1. ASSUME NEW next, Steps(f, next), UNCHANGED objective, UNCHANGED <<wake, cut>>,
             fibre[f].at \in Spent, next.at \notin {"head", "emit"}
      PROVE  MindedInv(f)'
  <2>1. Told(f)'
    BY <1>1, StaysTold DEF MindedInv
  <2>2. fibre'[f] = next
    BY <1>1, Others
  <2> QED
    BY <1>1, <2>1, <2>2, MindsOn
<1>2. ASSUME NEW next, Steps(f, next), next.at \in {"pass", "sync", "validating"}
      PROVE  MindedInv(f)'
  <2>1. fibre'[f] = next
    BY <1>2, Others
  <2> QED
    BY <1>2, <2>1, MindsOn DEF Spent
<1>3. CASE Control(f)
  <2> DEFINE next == [Idle EXCEPT !.at = "pass", !.job = J("control", 0, 1, 0)]
  <2>1. Steps(f, next) /\ next.at = "pass"
    BY <1>3 DEF Control, Steps, Idle
  <2> HIDE DEF next
  <2> QED
    BY <1>2, <2>1
<1>4. CASE (Pass(f) /\ ~Terminal) \/ Result(f) \/ Validated(f) \/ Published(f)
  <2>1. \E job : Steps(f, Reacting(job))
    BY <1>4 DEF Pass, Result, Validated, Published, Steps
  <2> QED
    BY <1>2, <2>1, NextJobs
<1>5. CASE (Pass(f) \/ Check(f)) /\ Terminal
  <2>1. Steps(f, To(f, "end")) /\ status' # "live"
    BY <1>5 DEF Pass, Check, Retires, Terminal, objective, Steps
  <2>2. fibre'[f].at = "end"
    BY <2>1, NextJobs, Others
  <2> QED
    BY <2>1, <2>2, MindsOn DEF Told
<1>6. CASE Check(f) /\ ~Terminal
  <2> DEFINE again == [To(f, "pass") EXCEPT !.job = J("control", 0, 2, 0)]
  <2>1. /\ UNCHANGED objective /\ UNCHANGED <<wake, cut>> /\ fibre[f].at \in Spent
        /\ Steps(f, again) \/ Steps(f, To(f, "end"))
    BY <1>6 DEF Check, Steps, Spent
  <2>2. again.at = "pass" /\ To(f, "end").at = "end"
    BY <1>0 DEF To, Fibre
  <2> HIDE DEF again
  <2> QED
    BY <1>1, <2>1, <2>2
<1>7. CASE EndControl(f) \/ Abort(f)
  <2>1. /\ Steps(f, Idle) /\ UNCHANGED objective /\ UNCHANGED <<wake, cut>>
        /\ fibre[f].at \in Spent /\ Idle.at = "idle"
    BY <1>7, NextJobs DEF EndControl, Abort, Steps, ledger, Spent
  <2> QED
    BY <1>1, <2>1
<1>8. CASE Take(f)
  <2>1. PICK j \in queue :
          /\ queue' = queue \ {j}
          /\ \/ /\ j.kind = "task"
                /\ Moves(f, [Idle EXCEPT !.at = "run", !.job = j])
                /\ UNCHANGED <<integ, status>>
             \/ Emits(f, [Idle EXCEPT !.at = "validating", !.job = j,
                                      !.eff = [Nothing EXCEPT !.up = merged]])
             \/ /\ Moves(f, IF Terminal THEN Idle
                            ELSE [Idle EXCEPT !.at = "publishing", !.job = j])
                /\ UNCHANGED <<integ, status>>
    BY <1>8 DEF Take
  <2> DEFINE task == [Idle EXCEPT !.at = "run", !.job = j]
             check == [Idle EXCEPT !.at = "validating", !.job = j,
                                   !.eff = [Nothing EXCEPT !.up = merged]]
             publish == [Idle EXCEPT !.at = "publishing", !.job = j]
  <2>2. /\ Idle.at = "idle" /\ task.at = "run" /\ check.at = "validating"
        /\ publish.at = "publishing"
    BY DEF Idle
  <2>3. /\ UNCHANGED <<wake, cut>> /\ fibre[f].at \in Spent
        /\ UNCHANGED <<integ, status>> => UNCHANGED objective
    BY <1>8 DEF Take, objective, Spent
  <2>4. \/ Steps(f, task) /\ UNCHANGED objective
        \/ Steps(f, check)
        \/ Steps(f, Idle) /\ UNCHANGED objective
        \/ Steps(f, publish) /\ UNCHANGED objective
    BY <2>1, <2>3 DEF Steps
  <2> HIDE DEF task, check, publish
  <2> QED
    BY <1>1, <1>2, <2>2, <2>3, <2>4
<1>9. CASE Cancel(f)
  <2>1. Steps(f, Idle) /\ status' = "canceled"
    BY <1>9 DEF Cancel, Steps
  <2>2. fibre'[f].at = "idle"
    BY <2>1, NextJobs, Others
  <2> QED
    BY <2>1, <2>2, MindsOn DEF Told
<1> QED
  BY <1>3, <1>4, <1>5, <1>6, <1>7, <1>8, <1>9 DEF Work

(* Requests, failures, advice and crashes. *)
LEMMA OutsideMinded ==
  ASSUME DeliveryInv, NEW f, Fibres = {f}, MindedInv(f), Outside
  PROVE  MindedInv(f)'
<1>0. f \in Fibres /\ fibre[f] \in Fibre /\ ObjectiveTyped
  BY DEF DeliveryInv, Placed
<1>1. CASE Note(f) \/ CancelJobs(f)
  <2>1. Steps(f, Reacting(NoJob)) \/ Steps(f, To(f, "cancel"))
    BY <1>1 DEF Note, CancelJobs, Steps
  <2>2. fibre'[f].at \in {"sync", "cancel"}
    BY <1>0, <2>1, NextJobs, Others
  <2> QED
    BY <2>2, MindsOn DEF Spent
<1>2. CASE Fails(f)
  <2>1. /\ UNCHANGED objective /\ cut' = cut /\ fibre[f].at \in Spent
        /\ (Steps(f, Idle) /\ UNCHANGED <<asked, wake>>) \/ Signals(f, Idle)
    BY <1>2 DEF Fails, Steps, Spent
  <2>2. wake => wake'
    BY <1>0, <2>1, Others
  <2>3. fibre'[f].at = "idle"
    <3>1. Idle.at = "idle" /\ [Idle EXCEPT !.fresh = FALSE].at = "idle"
      BY DEF Idle
    <3> QED
      BY <1>0, <2>1, <3>1, Others
  <2> QED
    BY <2>1, <2>2, <2>3, MindsOn, StaysTold DEF MindedInv
<1>3. ASSUME NEW t \in Tasks, Advise(t) PROVE MindedInv(f)'
  <2>0. /\ cut' = cut /\ (wake => wake') /\ advice = NoAdvice /\ note' # "new"
        /\ t \in active /\ active' = active /\ advice'.task = t
        /\ status' = status /\ tasks' = tasks /\ chained' = chained
        /\ integ' = integ /\ note' = note /\ runs' = runs
    BY <1>3 DEF Advise, Asks, Candidate
  <2>1. /\ fibre'[f].at = fibre[f].at /\ fibre'[f].eff = fibre[f].eff
        /\ fibre[f].fresh => fibre[f].eff = fibre[f].eff
    BY <1>0, <1>3 DEF Advise, Fibre
  <2>2. Planned = Unadvised /\ Planned.do # "split"
    BY <1>0, <2>0, PlannedSplit, UnadvisedFits
  <2>3. Unadvised.do # "follow"
    BY <2>0, UnadvisedFits DEF FollowsUp
  <2>4. Unadvised' = Unadvised
    BY <2>0, UnadvisedSame
  <2>5. Planned'.do # "follow"
    <3> DEFINE split == [E("split", advice.task) EXCEPT !.pass = advice.pass]
    <3>1. split'.do = "split"
      BY DEF E
    <3>2. Planned' = split' \/ Planned' = Unadvised'
      BY DEF Planned
    <3> HIDE DEF split
    <3> QED
      BY <2>3, <2>4, <3>1, <3>2
  <2>6. Told(f)'
    BY <2>0, <2>5 DEF Told
  <2>7. Kept(f)'
    BY <2>0, <2>1, <2>2 DEF MindedInv, Kept, SplitsNext
  <2> QED
    BY <2>6, <2>7 DEF MindedInv
<1>4. CASE Crash
  <2>1. status' = status /\ fibre'[f] = IF ~Terminal THEN Reacting(NoJob) ELSE Idle
    BY <1>0, <1>4 DEF Crash, objective
  <2>2. fibre'[f].at = "sync" \/ (fibre'[f].at = "idle" /\ status' # "live")
    BY <1>0, <2>1, NextJobs DEF Terminal
  <2> QED
    BY <2>2, MindsOn DEF Told, Spent
<1> QED
  BY <1>0, <1>1, <1>2, <1>3, <1>4 DEF Outside

(* Nothing is forgotten while the objective has one fibre at a time,        *)
(* whatever the numbers of tasks, runs, passes and calls: at rest nothing  *)
(* is left to plan for a live objective, no request lies in the stream for *)
(* which nobody looks, and no task is active for which nothing works       *)
(* (syncFailedActiveTasks and the control job that a failed job enqueues). *)
THEOREM NothingIsForgottenAlone ==
  ASSUME NEW f, Fibres = {f}
  PROVE  DeliverySpec => []NothingForgotten
<1>1. DeliveryInit => Numbered /\ AloneInv(f) /\ MindedInv(f)
  <2> SUFFICES ASSUME DeliveryInit PROVE Numbered /\ AloneInv(f) /\ MindedInv(f)
    OBVIOUS
  <2>1. /\ failed = {} /\ active = {} /\ fibre[f].at = "idle" /\ wake
        /\ \A t \in Tasks : tasks[t].run = 0
    BY DEF DeliveryInit, Idle
  <2>2. Lapsed = {}
    BY <2>1 DEF Lapsed
  <2> QED
    BY <2>1, <2>2 DEF Numbered, AloneInv, Heard, Spares, MindedInv, Kept, Told, SplitsNext
<1>2. DeliveryInv /\ RunsInv /\ Numbered /\ AloneInv(f) /\ MindedInv(f) /\ [DeliveryNext]_vars
        => Numbered' /\ AloneInv(f)' /\ MindedInv(f)'
  <2> SUFFICES ASSUME DeliveryInv, RunsInv, Numbered, AloneInv(f), MindedInv(f),
                      [DeliveryNext]_vars
               PROVE  Numbered' /\ AloneInv(f)' /\ MindedInv(f)'
    OBVIOUS
  <2>0. Labels /\ f \in Fibres /\ Kept(f)
    BY DEF RunsInv, LabelInv, MindedInv
  <2>1. CASE DeliveryNext
    <3>1. Numbered'
      BY <2>0, <2>1, NumberedStep
    <3>2. ASSUME React(f) PROVE AloneInv(f)' /\ MindedInv(f)'
      <4>1. CASE Sync(f) \/ Gate(f) \/ Plan(f) \/ Head(f)
        BY <2>0, <4>1, ReactHeard, ReactMinded
      <4>2. CASE HeadDispatch(f)
        BY <2>0, <4>2, HeadHeard, ReactMinded
      <4>3. CASE HeadSplit(f)
        BY <2>0, <4>3, HeadHeard, HeadSplitMinded
      <4>4. CASE Emit(f)
        BY <2>0, <4>4, EmitHeard, EmitMinded
      <4>5. CASE Refused(f) \/ Post(f) \/ Merge(f) \/ EmitIntegrated(f) \/ MergeFails(f)
        BY <2>0, <4>5, RestHeard, RestMinded
      <4> QED
        BY <3>2, <4>1, <4>2, <4>3, <4>4, <4>5 DEF React
    <3>3. ASSUME Work(f) PROVE AloneInv(f)' /\ MindedInv(f)'
      BY <2>0, <3>3, WorkHeard, WorkMinded
    <3>4. CASE Inside
      BY <3>1, <3>2, <3>3, <3>4 DEF Inside
    <3>5. CASE Outside
      BY <3>1, <3>5, OutsideHeard, OutsideMinded
    <3> QED
      BY <2>1, <3>1, <3>4, <3>5 DEF DeliveryNext
  <2>2. CASE UNCHANGED vars
    <3>1. UNCHANGED <<status, tasks, active, advice, runs, failed, wake, cut, fibre>>
      BY <2>2 DEF vars, objective, ledger
    <3>2. Lapsed' = Lapsed
      BY <3>1 DEF Lapsed
    <3>3. Planned' = Planned /\ Unadvised' = Unadvised
      BY <2>2, PlannedSame DEF vars
    <3>4. Split(f)' = Split(f) /\ SplitsNext(f)' = SplitsNext(f)
      BY <3>1 DEF Split, SplitsNext
    <3>5. Numbered' /\ AloneInv(f)'
      BY <3>1, <3>2 DEF Numbered, AloneInv, Heard, Spares
    <3>6. MindedInv(f)'
      BY <3>1, <3>3, <3>4 DEF MindedInv, Kept, Told, NoAdvice
    <3> QED
      BY <3>5, <3>6
  <2> QED
    BY <2>1, <2>2
<1>3. DeliveryInv /\ RunsInv /\ AloneInv(f) /\ MindedInv(f) /\ NothingUnplanned
        => NothingForgotten
  <2> SUFFICES ASSUME DeliveryInv, RunsInv, AloneInv(f), MindedInv(f), NothingUnplanned, Resting
               PROVE  Planned = Nothing /\ active = {}
    BY DEF NothingForgotten
  <2>1. /\ fibre[f].at = "idle" /\ queue = {} /\ ~wake /\ status = "live" /\ ~cut
    BY DEF Resting, Quiet
  <2>2. ASSUME NEW t \in active PROVE FALSE
    <3>1. fibre[f].job.run = 0 /\ fibre[f].due.run = 0
      BY <2>1 DEF RunsInv, LabelInv, Labels, Settled, NoJob, J
    <3>2. ~Works(tasks[t].run)
      BY <2>1, <3>1 DEF Works
    <3>3. tasks[t].run \in failed
      BY <2>1, <2>2, <3>2 DEF RunsInv, SeenInv
    <3>4. t \in Lapsed
      BY <2>2, <3>3 DEF Lapsed, AloneInv
    <3> QED
      BY <2>1, <3>4 DEF AloneInv, Heard, Spent
  <2>3. Planned.do \notin {"follow", "split"}
    BY <2>1, <2>2 DEF MindedInv, Told, Spent
  <2>4. Planned = Nothing
    BY <2>3 DEF NothingUnplanned, Dropped
  <2> QED
    BY <2>2, <2>4
<1> QED
  BY <1>1, <1>2, <1>3, DeliveryInvariant, RunsInvariant, NothingIsLeftUnplanned, PTL
     DEF DeliverySpec

=============================================================================
