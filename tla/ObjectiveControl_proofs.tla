---------------------- MODULE ObjectiveControl_proofs ----------------------
(***************************************************************************)
(* Proofs about ObjectiveControl: its types, that an objective has one     *)
(* control job at most, and that the slots are not overbooked.             *)
(*                                                                         *)
(* First, what a step of a fibre puts in front of the rest of its list     *)
(* (Follows) and what it does to the data (Effects); then three inductive  *)
(* invariants.  FibreInv: in a list only the head creates, hires or posts, *)
(* only calm steps come before a promise of a slot, and nothing names an   *)
(* objective that is not created.  JInv: whoever is about to hire holds    *)
(* the promise of the objective, and there is no job between the look for  *)
(* one and the post.  NotOverbooked: the objectives that hold a slot and   *)
(* those that a fibre is about to give one are together no more than the   *)
(* slots, and one fibre at most is about to give any.                      *)
(***************************************************************************)
EXTENDS ObjectiveControl, FiniteSetTheorems, WellFoundedInduction, TLAPS

(* The steps that may come before a promise of a slot, and those that promise one. *)
Promises == {"place", "grant"}
Calm == {"create", "grant", "ask", "hire", "post"}
Enqueuing == {"ask", "hire", "post"}
Tied == Calm \cup Promises \cup {"queue", "rebalance"}

(* What the step h of a fibre may put in front of the rest. *)
NewStep(h, x) ==
  /\ x.do \notin {"create", "queue", "place"}
  /\ x.obj \in {0, h.obj} \/ (x.obj \in Objectives /\ Made(x.obj))
  /\ x.do = "grant" => h.do = "rebalance" /\ x.obj \in ToAdmit
  /\ h.do = "rebalance" => x.do = "grant"
  /\ h.do \in Calm \cup Promises \cup {"queue"} => x.do \in Enqueuing
  /\ x.do = "hire" => h.do = "ask" /\ x.obj = h.obj
  /\ x.do = "post" => h.do = "hire" /\ x.obj = h.obj

Follows(h, steps) == /\ steps \in Seq(Step)
                     /\ \A i \in DOMAIN steps : NewStep(h, steps[i])
                     /\ h.do \in {"ask", "hire"} => Len(steps) <= 1

(* Fibre t has put some steps in the place of its first. *)
Moves(t) == /\ todo[t] # <<>>
            /\ \E steps : Then(t, steps) /\ Follows(todo[t][1], steps)

-----------------------------------------------------------------------------
(* Then takes the first step of a list away and puts others in front of    *)
(* the rest.                                                               *)
LEMMA ThenSeq ==
  ASSUME NEW s \in Seq(Step), s # <<>>, NEW steps \in Seq(Step)
  PROVE  LET r == steps \o Tail(s)
         IN  /\ r \in Seq(Step) /\ Len(r) = Len(steps) + Len(s) - 1
             /\ \A i \in 1..Len(steps) : r[i] = steps[i]
             /\ \A i \in (Len(steps) + 1)..Len(r) : r[i] = s[i - Len(steps) + 1]
OBVIOUS

(* Sets of objectives are finite. *)
LEMMA ObjectivesFinite ==
  ASSUME NEW some \in SUBSET Objectives
  PROVE  IsFiniteSet(some) /\ Cardinality(some) \in Nat
<1>1. IsFiniteSet(Objectives)
  BY FS_Interval, ControlAssumption DEF Objectives
<1>. QED
  BY <1>1, FS_Subset, FS_CardinalityType

(* The lists of Listed are sequences over the set listed. *)
LEMMA ListedSeq ==
  ASSUME NEW some \in SUBSET Objectives, NEW list \in Listed(some)
  PROVE  list \in Seq(some) /\ list \in Seq(Objectives) /\ \A i \in DOMAIN list : list[i] \in some
<1>1. list \in [1..Cardinality(some) -> some]
  BY DEF Listed
<1>. QED
  BY <1>1, ObjectivesFinite

(* ForAll makes one step of each objective of a list. *)
LEMMA ForAllSeq ==
  ASSUME NEW some \in SUBSET Objectives, NEW list \in Listed(some), NEW do \in Does
  PROVE  /\ ForAll(list, do) \in Seq(Step) /\ DOMAIN ForAll(list, do) = DOMAIN list
         /\ \A i \in DOMAIN ForAll(list, do) :
              /\ ForAll(list, do)[i].do = do
              /\ ForAll(list, do)[i].obj \in some
<1>1. list \in Seq(Objectives) /\ \A i \in DOMAIN list : list[i] \in some
  BY ListedSeq
<1>2. \A i \in DOMAIN list : S(do, list[i]) \in Step
  BY <1>1 DEF S, Step
<1>3. ForAll(list, do) = [i \in 1..Len(list) |-> S(do, list[i])] /\ DOMAIN list = 1..Len(list)
  BY <1>1 DEF ForAll
<1>4. ForAll(list, do) \in Seq(Step)
  BY <1>1, <1>2, <1>3
<1>. QED
  BY <1>1, <1>3, <1>4 DEF S

(* reactFactoryObjective is called as a rebalance and a read. *)
LEMMA ReactPair ==
  ASSUME NEW o
  PROVE  /\ React(o)[1] = S("rebalance", 0) /\ React(o)[2] = S("reread", o)
         /\ React(o) = <<S("rebalance", 0), S("reread", o)>>
<1> DEFINE two == {S("rebalance", 0), S("reread", o)}
<1>1. <<S("rebalance", 0)>> \in Seq(two) /\ <<S("reread", o)>> \in Seq(two)
  OBVIOUS
<1>2. /\ React(o) \in Seq(two) /\ Len(React(o)) = 2
      /\ React(o)[1] = S("rebalance", 0) /\ React(o)[2] = S("reread", o)
  BY <1>1 DEF React, Rebalance
<1>. QED
  BY <1>2

(* The position of a step among the pairs of a list of reactions. *)
LEMMA Halves ==
  ASSUME NEW n \in Nat, NEW i \in 1..(2 * n)
  PROVE  ((i + 1) \div 2) \in 1..n /\ i % 2 \in {0, 1} /\ 2 - (i % 2) \in {1, 2}
OBVIOUS

(* resumeObjectives reacts to the objectives listed, one after the other. *)
LEMMA ResumeSeq ==
  ASSUME NEW some \in SUBSET Objectives, NEW list \in Listed(some),
         NEW r, r = [i \in 1..(2 * Len(list)) |-> React(list[(i + 1) \div 2])[2 - (i % 2)]]
  PROVE  /\ r \in Seq(Step)
         /\ \A i \in DOMAIN r : r[i].do \in {"rebalance", "reread"} /\ r[i].obj \in {0} \cup some
<1>1. list \in Seq(Objectives) /\ (\A i \in DOMAIN list : list[i] \in some) /\ Len(list) \in Nat
  BY ListedSeq
<1>2. ASSUME NEW i \in 1..(2 * Len(list))
      PROVE  \E x \in some : r[i] \in {S("rebalance", 0), S("reread", x)}
  <2>1. PICK j \in DOMAIN list : j = (i + 1) \div 2
    BY <1>1, Halves
  <2>2. r[i] = React(list[j])[2 - (i % 2)]
    BY <2>1
  <2>3. r[i] \in {S("rebalance", 0), S("reread", list[j])}
    BY <1>1, <2>2, Halves, ReactPair
  <2>. QED
    BY <1>1, <2>3
<1>3. ASSUME NEW i \in 1..(2 * Len(list))
      PROVE  /\ r[i] \in Step /\ r[i].do \in {"rebalance", "reread"}
             /\ r[i].obj \in {0} \cup some
  <2>1. PICK x \in some : r[i] \in {S("rebalance", 0), S("reread", x)}
    BY <1>2
  <2>2. x \in Objectives
    OBVIOUS
  <2>. QED
    BY <2>1, <2>2 DEF S, Step, Does, Overall
<1>4. DOMAIN r = 1..(2 * Len(list)) /\ 2 * Len(list) \in Nat
  BY <1>1
<1>5. r \in [1..(2 * Len(list)) -> Step]
  BY <1>3
<1>6. r \in Seq(Step)
  BY <1>4, <1>5
<1>. QED
  BY <1>3, <1>4, <1>6

Accounted == \A o \in unfinished : Made(o)

(* Follows is closed under concatenation. *)
LEMMA FollowsCat ==
  ASSUME NEW h, NEW a, NEW b, Follows(h, a), Follows(h, b), h.do \notin {"ask", "hire"}
  PROVE  Follows(h, a \o b)
BY DEF Follows

(* A step may call nothing. *)
LEMMA FollowsNothing ==
  ASSUME NEW h
  PROVE  Follows(h, <<>>)
BY DEF Follows

(* A step may call one step. *)
LEMMA FollowsOne ==
  ASSUME NEW h, NEW x \in Step, NewStep(h, x)
  PROVE  Follows(h, <<x>>)
BY DEF Follows

(* Steps that are not part of an enqueue or of a grant may rebalance. *)
LEMMA FollowsRebalance ==
  ASSUME NEW h, h.do \notin Tied
  PROVE  Follows(h, Rebalance)
<1>1. S("rebalance", 0) \in Step /\ NewStep(h, S("rebalance", 0))
  BY DEF S, Step, Overall, NewStep, Tied
<1>. QED
  BY <1>1, FollowsOne DEF Rebalance

(* One more step of the same objective. *)
LEMMA FollowsOwn ==
  ASSUME NEW h \in Step, NEW do \in Does \ {"create", "queue", "place", "grant", "hire", "post"},
         h.obj \in Objectives, h.do # "rebalance",
         h.do \in Tied => do = "ask"
  PROVE  Follows(h, <<S(do, h.obj)>>)
<1>1. S(do, h.obj) \in Step /\ NewStep(h, S(do, h.obj))
  BY DEF S, Step, Does, NewStep, Enqueuing, Tied, Calm, Promises
<1>. QED
  BY <1>1, FollowsOne

(* The lists of steps that are put together out of several. *)
LEMMA FollowsLists ==
  ASSUME NEW h \in Step, h.obj \in Objectives, h.do \notin Tied
  PROVE  LET o == h.obj
         IN  /\ Follows(h, Enqueue(o)) /\ Follows(h, Continue(o)) /\ Follows(h, React(o))
             /\ Follows(h, Ending(o)) /\ Follows(h, Rebalance \o Ending(o))
             /\ Follows(h, Rebalance \o Enqueue(o))
             /\ \A c \in {"check1", "check2"} : Follows(h, Continue(o) \o <<S(c, o)>>)
             /\ \A phase : Follows(h, AfterWork(o, phase))
<1> DEFINE o == h.obj
<1>. h.do \notin {"ask", "hire", "rebalance"}
  BY DEF Tied, Calm
<1>1. Follows(h, Rebalance)
  BY FollowsRebalance
<1>2. \A do \in {"ask", "look", "reread", "end", "check1", "check2"} : Follows(h, <<S(do, o)>>)
  BY FollowsOwn DEF Does
<1>. HIDE DEF o
<1>3. Follows(h, Enqueue(o))
  BY <1>2 DEF Enqueue
<1>4. Follows(h, Continue(o))
  BY <1>1, <1>2, FollowsCat DEF Continue
<1>5. Follows(h, React(o))
  BY <1>1, <1>2, FollowsCat DEF React
<1>6. Follows(h, Ending(o))
  BY <1>2 DEF Ending
<1>7. Follows(h, Rebalance \o Ending(o)) /\ Follows(h, Rebalance \o Enqueue(o))
  BY <1>1, <1>3, <1>6, FollowsCat
<1>8. \A c \in {"check1", "check2"} : Follows(h, Continue(o) \o <<S(c, o)>>)
  BY <1>2, <1>4, FollowsCat
<1>9. ASSUME NEW phase PROVE Follows(h, AfterWork(o, phase))
  <2>1. Follows(h, IF phase = "done" THEN Rebalance \o Enqueue(o) ELSE <<>>)
    BY <1>7, FollowsNothing
  <2>. QED
    BY <1>1, <2>1, FollowsCat DEF AfterWork
<1>. QED
  BY <1>3, <1>4, <1>5, <1>6, <1>7, <1>8, <1>9 DEF o

(* The first step of a fibre names an objective, or none at all when it is *)
(* about all of them.                                                      *)
LEMMA HeadIsStep ==
  ASSUME ControlTypeOK, NEW t \in Fibres, todo[t] # <<>>
  PROVE  /\ todo[t] \in Seq(Step) /\ todo[t][1] \in Step /\ Head(todo[t]) = todo[t][1]
         /\ todo[t][1].obj \in Objectives \cup {0} /\ 0 \notin Objectives
         /\ todo[t][1].do \in Overall => todo[t][1].obj = 0
         /\ todo[t][1].do \notin Overall => todo[t][1].obj \in Objectives
         /\ \A i \in DOMAIN todo[t] : todo[t][i] \in Step
<1>1. todo[t] \in Seq(Step) /\ todo[t][1] \in Step /\ Head(todo[t]) = todo[t][1]
  BY DEF ControlTypeOK
<1>. QED
  BY <1>1 DEF Step, Objectives, Overall, Does

(* Every step of a fibre puts the steps it calls in front of the rest. *)
LEMMA Moved ==
  ASSUME ControlTypeOK, Accounted, NEW t \in Fibres, DoesStep(t)
  PROVE  Moves(t)
<1> DEFINE h == todo[t][1]
           o == h.obj
<1>a. todo[t] # <<>>
  BY DEF DoesStep
<1>b. h \in Step /\ Head(todo[t]) = h
  BY <1>a, HeadIsStep
<1>c. ASSUME NEW steps, Then(t, steps), Follows(h, steps)
      PROVE  Moves(t)
  BY <1>a, <1>c DEF Moves
<1>. HIDE DEF h
<1>d. ASSUME Then(t, <<>>)
      PROVE  Moves(t)
  BY <1>c, <1>d, FollowsNothing
<1>e. ASSUME NEW do, At(t, do, o), do \in Does
      PROVE  h.do = do /\ o \in Objectives
  BY <1>a, <1>b, <1>e, HeadIsStep DEF At, h, Overall, Does
<1>f. ASSUME NEW do, At(t, do, 0)
      PROVE  h.do = do /\ h.obj = 0
  BY <1>f DEF At, h
<1>g. ASSUME o \in Objectives, h.do \notin Tied
      PROVE  /\ Follows(h, Enqueue(o)) /\ Follows(h, Continue(o)) /\ Follows(h, React(o))
             /\ Follows(h, Ending(o)) /\ Follows(h, Rebalance \o Ending(o))
             /\ Follows(h, Rebalance \o Enqueue(o)) /\ Follows(h, Rebalance)
             /\ \A c \in {"check1", "check2"} : Follows(h, Continue(o) \o <<S(c, o)>>)
             /\ \A phase : Follows(h, AfterWork(o, phase))
  BY <1>b, <1>g, FollowsLists, FollowsRebalance DEF Tied
<1>h. ASSUME NEW do \in {"ask", "pass2", "work"}, o \in Objectives,
             h.do # "rebalance", h.do \in Tied => do = "ask"
      PROVE  Follows(h, <<S(do, o)>>)
  BY <1>b, <1>h, FollowsOwn DEF Does
<1>. HIDE DEF o
<1>1. CASE EmitCreated(t, o) \/ EmitQueued(t, o) \/ EmitPlaced(t, o) \/ Post(t, o) \/ EndJob(t, o) \/ DropJobs(t, o)
  BY <1>1, <1>d DEF EmitCreated, EmitQueued, EmitPlaced, Post, EndJob, DropJobs
<1>2. CASE EmitAdmitted(t, o)
  BY <1>2, <1>c, <1>e, <1>h DEF EmitAdmitted, Enqueue, Does
<1>3. CASE Ask(t, o)
  <2>1. h.do = "ask" /\ o \in Objectives
    BY <1>3, <1>e DEF Ask, Does
  <2>2. S("hire", o) \in Step /\ NewStep(h, S("hire", o))
    BY <2>1 DEF S, Step, Does, NewStep, Enqueuing, o
  <2>. QED
    BY <1>3, <1>c, <2>2, FollowsOne DEF Ask
<1>4. CASE Hire(t, o)
  <2>1. h.do = "hire" /\ o \in Objectives
    BY <1>4, <1>e DEF Hire, Does
  <2>2. S("post", o) \in Step /\ NewStep(h, S("post", o))
    BY <2>1 DEF S, Step, Does, NewStep, Enqueuing, o
  <2>. QED
    BY <1>4, <1>c, <1>d, <2>2, FollowsOne DEF Hire
<1>5. ASSUME NEW n \in 1..2, Pass(t, o, n)
      PROVE  Moves(t)
  <2>1. h.do \in {"pass1", "pass2"} /\ o \in Objectives
    BY <1>5, <1>e DEF Pass, Does
  <2>2. h.do \notin Tied
    BY <2>1 DEF Tied, Calm, Promises
  <2>. QED
    BY <1>5, <1>c, <1>g, <2>1, <2>2 DEF Pass
<1>6. ASSUME NEW n \in 1..2, Check(t, o, n)
      PROVE  Moves(t)
  <2>1. h.do \in {"check1", "check2"} /\ o \in Objectives
    BY <1>6, <1>e DEF Check, Does
  <2>2. h.do \notin Tied
    BY <2>1 DEF Tied, Calm, Promises
  <2>. QED
    BY <1>6, <1>c, <1>g, <1>h, <2>1, <2>2 DEF Check
<1>7. CASE Look(t, o)
  <2>1. h.do = "look" /\ o \in Objectives
    BY <1>7, <1>e DEF Look, Does
  <2>2. h.do \notin Tied
    BY <2>1 DEF Tied, Calm, Promises
  <2>. QED
    BY <1>7, <1>c, <1>d, <1>g, <1>h, <2>1, <2>2 DEF Look
<1>8. CASE Reread(t, o)
  <2>1. h.do = "reread" /\ o \in Objectives
    BY <1>8, <1>e DEF Reread, Does
  <2>2. h.do \notin Tied
    BY <2>1 DEF Tied, Calm, Promises
  <2>. QED
    BY <1>8, <1>c, <1>d, <1>g, <1>h, <2>1, <2>2 DEF Reread
<1>9. CASE Work(t, o)
  <2>1. h.do = "work" /\ o \in Objectives
    BY <1>9, <1>e DEF Work, Does
  <2>2. h.do \notin Tied
    BY <2>1 DEF Tied, Calm, Promises
  <2>. QED
    BY <1>9, <1>c, <1>d, <1>g, <1>h, <2>1, <2>2 DEF Work
<1>10. CASE WorkConflicts(t, o)
  <2>1. h.do = "work" /\ o \in Objectives
    BY <1>10, <1>e DEF WorkConflicts, Does
  <2>2. h.do \notin Tied
    BY <2>1 DEF Tied, Calm, Promises
  <2>. QED
    BY <1>10, <1>c, <1>d, <1>g, <1>h, <2>1, <2>2 DEF WorkConflicts
<1>11. CASE EmitCanceled(t, o)
  <2>1. h.do = "cancel" /\ o \in Objectives
    BY <1>11, <1>e DEF EmitCanceled, Does
  <2>2. h.do \notin Tied
    BY <2>1 DEF Tied, Calm, Promises
  <2>. QED
    BY <1>11, <1>c, <1>d, <1>g, <1>h, <2>1, <2>2 DEF EmitCanceled
<1>12. CASE EmitArchived(t, o)
  <2>1. h.do = "archive" /\ o \in Objectives
    BY <1>12, <1>e DEF EmitArchived, Does
  <2>2. h.do \notin Tied
    BY <2>1 DEF Tied, Calm, Promises
  <2>. QED
    BY <1>12, <1>c, <1>d, <1>g, <1>h, <2>1, <2>2 DEF EmitArchived
<1>13. CASE Recover(t, o)
  <2>1. h.do = "recover" /\ o \in Objectives
    BY <1>13, <1>e DEF Recover, Does
  <2>2. h.do \notin Tied
    BY <2>1 DEF Tied, Calm, Promises
  <2>. QED
    BY <1>13, <1>c, <1>d, <1>g, <1>h, <2>1, <2>2 DEF Recover
<1>14. CASE RebalanceSlots(t)
  <2>1. PICK next \in Listed(ToAdmit) : Then(t, ForAll(next, "grant"))
    BY <1>14 DEF RebalanceSlots
  <2>2. h.do = "rebalance" /\ h.obj = 0
    BY <1>14, <1>f DEF RebalanceSlots
  <2>3. ToAdmit \subseteq Objectives /\ \A p \in ToAdmit : Made(p)
    BY DEF ToAdmit, Waits
  <2>4. Follows(h, ForAll(next, "grant"))
    BY <2>2, <2>3, ForAllSeq DEF Follows, NewStep, Calm, Promises, Does
  <2>. QED
    BY <1>c, <2>1, <2>4
<1>15. CASE Sweep(t)
  <2>1. h.do = "sweep"
    BY <1>15, <1>f DEF Sweep
  <2>2. S("pending", 0) \in Step /\ NewStep(h, S("pending", 0))
    BY <2>1 DEF S, Step, Overall, NewStep, Calm, Promises
  <2>. QED
    BY <1>15, <1>c, <2>2, FollowsOne DEF Sweep
<1>16. CASE ListPending(t)
  <2>1. PICK list \in Listed(unfinished) : Then(t, ForAll(list, "recover"))
    BY <1>16 DEF ListPending
  <2>2. h.do = "pending"
    BY <1>16, <1>f DEF ListPending
  <2>3. unfinished \subseteq Objectives /\ \A p \in unfinished : Made(p)
    BY DEF Accounted, ControlTypeOK
  <2>4. Follows(h, ForAll(list, "recover"))
    BY <2>2, <2>3, ForAllSeq DEF Follows, NewStep, Calm, Promises, Does
  <2>. QED
    BY <1>c, <2>1, <2>4
<1>17. CASE Resume(t)
  <2> DEFINE some == {p \in Objectives : Resumable(p)}
  <2>1. PICK list \in Listed(some) :
          Then(t, [i \in 1..(2 * Len(list)) |-> React(list[(i + 1) \div 2])[2 - (i % 2)]])
    BY <1>17 DEF Resume
  <2>2. h.do = "resume"
    BY <1>17, <1>f DEF Resume
  <2>3. some \subseteq Objectives /\ \A p \in some : Made(p)
    BY DEF Resumable
  <2> DEFINE r == [i \in 1..(2 * Len(list)) |-> React(list[(i + 1) \div 2])[2 - (i % 2)]]
  <2>. HIDE DEF some
  <2>4. /\ r \in Seq(Step)
        /\ \A i \in DOMAIN r : r[i].do \in {"rebalance", "reread"} /\ r[i].obj \in {0} \cup some
    BY <2>1, <2>3, ResumeSeq
  <2>. HIDE DEF r
  <2>5. Follows(h, r)
    BY <2>2, <2>3, <2>4 DEF Follows, NewStep, Calm, Promises
  <2>. QED
    BY <1>c, <2>1, <2>5 DEF r
<1>. QED
  BY <1>a, <1>b, <1>1, <1>2, <1>3, <1>4, <1>5, <1>6, <1>7, <1>8, <1>9, <1>10, <1>11, <1>12,
     <1>13, <1>14, <1>15, <1>16, <1>17 DEF DoesStep, StepOf, o

(* The objectives after a step of a fibre, as far as slots are concerned. *)
Kept(p) == /\ objs'[p].phase = objs[p].phase /\ objs'[p].slot = objs[p].slot
           /\ objs'[p].archived = objs[p].archived

ObjsEffect(h) ==
  LET o == h.obj
  IN  \/ h.do # "create" /\ \A p \in Objectives : Kept(p)
      \/ h.do = "create" /\ Emit(o, "phase", "open")
      \/ h.do = "queue" /\ Emit(o, "slot", "queued")
      \/ h.do \in Promises /\ Admit(o)
      \/ h.do = "work" /\ \E phase \in Outcomes(objs[o].phase) :
           /\ Emit(o, "phase", phase)
           /\ doubled' = (doubled \/ (Releases(o) /\ phase = "open"))
      \/ h.do = "cancel" /\ Emit(o, "phase", "done")
      \/ h.do = "archive" /\ Emit(o, "archived", TRUE)

LedgerEffect(t, h) ==
  \/ UNCHANGED ledger
  \/ h.do = "post" /\ Post(t, h.obj)
  \/ h.do = "end" /\ EndJob(t, h.obj)
  \/ \E targets \in SUBSET Objectives : Drop(targets)

LockEffect(t, h) ==
  \/ h.do \notin Enqueuing /\ UNCHANGED lock
  \/ h.do = "ask" /\ Ask(t, h.obj)
  \/ h.do = "hire" /\ Hire(t, h.obj)
  \/ h.do = "post" /\ Post(t, h.obj)

DataTyped ==
  /\ objs' \in [Objectives -> Objective]
  /\ lock' \in [Objectives -> Fibres \cup {None}]
  /\ queued' \in [Objectives -> Nat] /\ serving' \in [Workers -> Objectives \cup {0}]
  /\ orphans' \subseteq Objectives /\ unfinished' \subseteq Objectives
  /\ calls' \in 0..MaxCalls
  /\ owed' \subseteq Objectives /\ {doubled', lost'} \subseteq BOOLEAN

Effects(t) ==
  LET h == todo[t][1]
  IN  /\ DataTyped /\ ObjsEffect(h) /\ LedgerEffect(t, h) /\ LockEffect(t, h)
      /\ begun' = begun
      /\ unfinished' \subseteq unfinished \cup (IF h.do = "ask" THEN {h.obj} ELSE {})
      /\ doubled => doubled'
      /\ h.do \notin {"work", "rebalance"} => doubled' = doubled

(* An event leaves the objectives well typed, and a wake changes nothing   *)
(* about slots.                                                            *)
LEMMA EmitTyped ==
  ASSUME objs \in [Objectives -> Objective], NEW o \in Objectives
  PROVE  /\ \A v \in Phases : Emit(o, "phase", v) => objs' \in [Objectives -> Objective]
         /\ Emit(o, "slot", "queued") => objs' \in [Objectives -> Objective]
         /\ Admit(o) => objs' \in [Objectives -> Objective]
         /\ \A v \in BOOLEAN : Emit(o, "archived", v) => objs' \in [Objectives -> Objective]
         /\ \A v \in BOOLEAN : Emit(o, "wake", v) =>
              objs' \in [Objectives -> Objective] /\ \A p \in Objectives : Kept(p)
BY DEF Emit, Admit, Objective, Phases, Kept

(* Canceling jobs leaves the ledger well typed. *)
LEMMA DropTyped ==
  ASSUME ControlTypeOK, NEW targets \in SUBSET Objectives, Drop(targets)
  PROVE  /\ queued' \in [Objectives -> Nat] /\ serving' \in [Workers -> Objectives \cup {0}]
         /\ orphans' \subseteq Objectives
BY DEF Drop, ControlTypeOK

(* The groups of variables an action leaves alone, one by one. *)
LEMMA Unchanging ==
  /\ UNCHANGED objs => \A p \in Objectives : Kept(p)
  /\ UNCHANGED history => UNCHANGED <<owed, doubled, lost>>
  /\ UNCHANGED ledger => UNCHANGED <<queued, serving, orphans>>
BY DEF Kept, history, ledger

(* Every step of a fibre has one of the effects on objectives, ledger and  *)
(* promises.                                                               *)
LEMMA Effected ==
  ASSUME ControlTypeOK, NEW t \in Fibres, DoesStep(t)
  PROVE  Effects(t)
<1> DEFINE h == todo[t][1]
           o == h.obj
<1>a. todo[t] # <<>>
  BY DEF DoesStep
<1>b. h \in Step /\ Head(todo[t]) = h
  BY <1>a, HeadIsStep
<1>c. ASSUME NEW do, At(t, do, o), do \in Does
      PROVE  h.do = do /\ o \in Objectives
  BY <1>a, <1>b, <1>c, HeadIsStep DEF At, h, Overall, Does
<1>d. ASSUME NEW do, At(t, do, 0)
      PROVE  h.do = do /\ h.obj = 0
  BY <1>d DEF At
<1>. USE DEF Enqueuing, Promises
<1>. HIDE DEF h
<1>1. CASE EmitCreated(t, o)
  <2>1. h.do = "create" /\ o \in Objectives
    BY <1>1, <1>c DEF EmitCreated, Does
  <2>. HIDE DEF o
  <2>2. DataTyped
    BY <1>1, <2>1, EmitTyped, DropTyped, Unchanging DEF EmitCreated, DataTyped, ControlTypeOK, Fibres, Phases
  <2>3. ObjsEffect(h)
    BY <1>1, <2>1, EmitTyped, Unchanging DEF EmitCreated, ObjsEffect, ControlTypeOK, o
  <2>4. LedgerEffect(t, h) /\ LockEffect(t, h)
    BY <1>1, <2>1, Unchanging DEF EmitCreated, LedgerEffect, LockEffect, o
  <2>. QED
    BY <1>1, <2>1, <2>2, <2>3, <2>4, Unchanging DEF EmitCreated, Effects, h, o
<1>2. CASE EmitQueued(t, o)
  <2>1. h.do = "queue" /\ o \in Objectives
    BY <1>2, <1>c DEF EmitQueued, Does
  <2>. HIDE DEF o
  <2>2. DataTyped
    BY <1>2, <2>1, EmitTyped, DropTyped, Unchanging DEF EmitQueued, DataTyped, ControlTypeOK, Fibres
  <2>3. ObjsEffect(h)
    BY <1>2, <2>1, EmitTyped, Unchanging DEF EmitQueued, ObjsEffect, ControlTypeOK, o
  <2>4. LedgerEffect(t, h) /\ LockEffect(t, h)
    BY <1>2, <2>1, Unchanging DEF EmitQueued, LedgerEffect, LockEffect, o
  <2>. QED
    BY <1>2, <2>1, <2>2, <2>3, <2>4, Unchanging DEF EmitQueued, Effects, h, o
<1>3. CASE EmitPlaced(t, o)
  <2>1. h.do = "place" /\ o \in Objectives
    BY <1>3, <1>c DEF EmitPlaced, Does
  <2>. HIDE DEF o
  <2>2. DataTyped
    BY <1>3, <2>1, EmitTyped, DropTyped, Unchanging DEF EmitPlaced, DataTyped, ControlTypeOK, Fibres
  <2>3. ObjsEffect(h)
    BY <1>3, <2>1, EmitTyped, Unchanging DEF EmitPlaced, ObjsEffect, ControlTypeOK, o
  <2>4. LedgerEffect(t, h) /\ LockEffect(t, h)
    BY <1>3, <2>1, Unchanging DEF EmitPlaced, LedgerEffect, LockEffect, o
  <2>. QED
    BY <1>3, <2>1, <2>2, <2>3, <2>4, Unchanging DEF EmitPlaced, Effects, h, o
<1>4. CASE EmitAdmitted(t, o)
  <2>1. h.do = "grant" /\ o \in Objectives
    BY <1>4, <1>c DEF EmitAdmitted, Does
  <2>. HIDE DEF o
  <2>2. DataTyped
    BY <1>4, <2>1, EmitTyped, DropTyped, Unchanging DEF EmitAdmitted, DataTyped, ControlTypeOK, Fibres
  <2>3. ObjsEffect(h)
    BY <1>4, <2>1, EmitTyped, Unchanging DEF EmitAdmitted, ObjsEffect, ControlTypeOK, o
  <2>4. LedgerEffect(t, h) /\ LockEffect(t, h)
    BY <1>4, <2>1, Unchanging DEF EmitAdmitted, LedgerEffect, LockEffect, o
  <2>. QED
    BY <1>4, <2>1, <2>2, <2>3, <2>4, Unchanging DEF EmitAdmitted, Effects, h, o
<1>5. CASE Ask(t, o)
  <2>1. h.do = "ask" /\ o \in Objectives
    BY <1>5, <1>c DEF Ask, Does
  <2>. HIDE DEF o
  <2>2. DataTyped
    BY <1>5, <2>1, EmitTyped, DropTyped, Unchanging DEF Ask, DataTyped, ControlTypeOK, Fibres
  <2>3. ObjsEffect(h)
    BY <1>5, <2>1, EmitTyped, Unchanging DEF Ask, ObjsEffect, ControlTypeOK, o
  <2>4. LedgerEffect(t, h) /\ LockEffect(t, h)
    BY <1>5, <2>1, Unchanging DEF Ask, LedgerEffect, LockEffect, o
  <2>. QED
    BY <1>5, <2>1, <2>2, <2>3, <2>4, Unchanging DEF Ask, Effects, h, o
<1>6. CASE Hire(t, o)
  <2>1. h.do = "hire" /\ o \in Objectives
    BY <1>6, <1>c DEF Hire, Does
  <2>. HIDE DEF o
  <2>2. DataTyped
    BY <1>6, <2>1, EmitTyped, DropTyped, Unchanging DEF Hire, DataTyped, ControlTypeOK, Fibres, Unlock
  <2>3. ObjsEffect(h)
    BY <1>6, <2>1, EmitTyped, Unchanging DEF Hire, ObjsEffect, ControlTypeOK, o
  <2>4. LedgerEffect(t, h) /\ LockEffect(t, h)
    BY <1>6, <2>1, Unchanging DEF Hire, LedgerEffect, LockEffect, o
  <2>. QED
    BY <1>6, <2>1, <2>2, <2>3, <2>4, Unchanging DEF Hire, Effects, h, o
<1>7. CASE Post(t, o)
  <2>1. h.do = "post" /\ o \in Objectives
    BY <1>7, <1>c DEF Post, Does
  <2>. HIDE DEF o
  <2>2. DataTyped
    BY <1>7, <2>1, EmitTyped, DropTyped, Unchanging DEF Post, DataTyped, ControlTypeOK, Fibres, Unlock
  <2>3. ObjsEffect(h)
    BY <1>7, <2>1, EmitTyped, Unchanging DEF Post, ObjsEffect, ControlTypeOK, o
  <2>4. LedgerEffect(t, h) /\ LockEffect(t, h)
    BY <1>7, <2>1, Unchanging DEF Post, LedgerEffect, LockEffect, o
  <2>. QED
    BY <1>7, <2>1, <2>2, <2>3, <2>4, Unchanging DEF Post, Effects, h, o
<1>8. CASE Look(t, o)
  <2>1. h.do = "look" /\ o \in Objectives
    BY <1>8, <1>c DEF Look, Does
  <2>. HIDE DEF o
  <2>2. DataTyped
    BY <1>8, <2>1, EmitTyped, DropTyped, Unchanging DEF Look, DataTyped, ControlTypeOK, Fibres
  <2>3. ObjsEffect(h)
    BY <1>8, <2>1, EmitTyped, Unchanging DEF Look, ObjsEffect, ControlTypeOK, o
  <2>4. LedgerEffect(t, h) /\ LockEffect(t, h)
    BY <1>8, <2>1, Unchanging DEF Look, LedgerEffect, LockEffect, o
  <2>. QED
    BY <1>8, <2>1, <2>2, <2>3, <2>4, Unchanging DEF Look, Effects, h, o
<1>9. CASE Reread(t, o)
  <2>1. h.do = "reread" /\ o \in Objectives
    BY <1>9, <1>c DEF Reread, Does
  <2>. HIDE DEF o
  <2>2. DataTyped
    BY <1>9, <2>1, EmitTyped, DropTyped, Unchanging DEF Reread, DataTyped, ControlTypeOK, Fibres
  <2>3. ObjsEffect(h)
    BY <1>9, <2>1, EmitTyped, Unchanging DEF Reread, ObjsEffect, ControlTypeOK, o
  <2>4. LedgerEffect(t, h) /\ LockEffect(t, h)
    BY <1>9, <2>1, Unchanging DEF Reread, LedgerEffect, LockEffect, o
  <2>. QED
    BY <1>9, <2>1, <2>2, <2>3, <2>4, Unchanging DEF Reread, Effects, h, o
<1>10. CASE Work(t, o)
  <2>1. h.do = "work" /\ o \in Objectives
    BY <1>10, <1>c DEF Work, Does
  <2>. HIDE DEF o
  <2>2. DataTyped
    BY <1>10, <2>1, EmitTyped, DropTyped, Unchanging DEF Work, DataTyped, ControlTypeOK, Fibres, Outcomes, Phases
  <2>3. ObjsEffect(h)
    BY <1>10, <2>1, EmitTyped, Unchanging DEF Work, ObjsEffect, ControlTypeOK, o
  <2>4. LedgerEffect(t, h) /\ LockEffect(t, h)
    BY <1>10, <2>1, Unchanging DEF Work, LedgerEffect, LockEffect, o
  <2>5. doubled => doubled'
    BY <1>10 DEF Work
  <2>6. begun' = begun /\ unfinished' = unfinished
    BY <1>10 DEF Work
  <2>. QED
    BY <2>1, <2>2, <2>3, <2>4, <2>5, <2>6 DEF Effects, h
<1>11. CASE WorkConflicts(t, o)
  <2>1. h.do = "work" /\ o \in Objectives
    BY <1>11, <1>c DEF WorkConflicts, Does
  <2>. HIDE DEF o
  <2>2. DataTyped
    <3>1. calls' \in 0..MaxCalls
      BY <1>11, ControlAssumption DEF WorkConflicts, ControlTypeOK, Call
    <3>. QED
      BY <1>11, <3>1, Unchanging DEF WorkConflicts, DataTyped, ControlTypeOK
  <2>3. ObjsEffect(h)
    BY <1>11, <2>1, EmitTyped, Unchanging DEF WorkConflicts, ObjsEffect, ControlTypeOK, o
  <2>4. LedgerEffect(t, h) /\ LockEffect(t, h)
    BY <1>11, <2>1, Unchanging DEF WorkConflicts, LedgerEffect, LockEffect, o
  <2>. QED
    BY <1>11, <2>1, <2>2, <2>3, <2>4, Unchanging DEF WorkConflicts, Effects, h, o
<1>12. CASE EndJob(t, o)
  <2>1. h.do = "end" /\ o \in Objectives
    BY <1>12, <1>c DEF EndJob, Does
  <2>. HIDE DEF o
  <2>2. DataTyped
    BY <1>12, <2>1, EmitTyped, DropTyped, Unchanging DEF EndJob, DataTyped, ControlTypeOK, Fibres
  <2>3. ObjsEffect(h)
    BY <1>12, <2>1, EmitTyped, Unchanging DEF EndJob, ObjsEffect, ControlTypeOK, o
  <2>4. LedgerEffect(t, h) /\ LockEffect(t, h)
    BY <1>12, <2>1, Unchanging DEF EndJob, LedgerEffect, LockEffect, o
  <2>. QED
    BY <1>12, <2>1, <2>2, <2>3, <2>4, Unchanging DEF EndJob, Effects, h, o
<1>13. CASE DropJobs(t, o)
  <2>1. h.do = "drop" /\ o \in Objectives
    BY <1>13, <1>c DEF DropJobs, Does
  <2>. HIDE DEF o
  <2>2. DataTyped
    BY <1>13, <2>1, EmitTyped, DropTyped, Unchanging DEF DropJobs, DataTyped, ControlTypeOK, Fibres
  <2>3. ObjsEffect(h)
    BY <1>13, <2>1, EmitTyped, Unchanging DEF DropJobs, ObjsEffect, ControlTypeOK, o
  <2>4. LedgerEffect(t, h) /\ LockEffect(t, h)
    BY <1>13, <2>1, Unchanging DEF DropJobs, LedgerEffect, LockEffect, o
  <2>. QED
    BY <1>13, <2>1, <2>2, <2>3, <2>4, Unchanging DEF DropJobs, Effects, h, o
<1>14. CASE EmitCanceled(t, o)
  <2>1. h.do = "cancel" /\ o \in Objectives
    BY <1>14, <1>c DEF EmitCanceled, Does
  <2>. HIDE DEF o
  <2>2. DataTyped
    BY <1>14, <2>1, EmitTyped, DropTyped, Unchanging DEF EmitCanceled, DataTyped, ControlTypeOK, Fibres, Phases
  <2>3. ObjsEffect(h)
    BY <1>14, <2>1, EmitTyped, Unchanging DEF EmitCanceled, ObjsEffect, ControlTypeOK, o
  <2>4. LedgerEffect(t, h) /\ LockEffect(t, h)
    BY <1>14, <2>1, Unchanging DEF EmitCanceled, LedgerEffect, LockEffect, o
  <2>. QED
    BY <1>14, <2>1, <2>2, <2>3, <2>4, Unchanging DEF EmitCanceled, Effects, h, o
<1>15. CASE EmitArchived(t, o)
  <2>1. h.do = "archive" /\ o \in Objectives
    BY <1>15, <1>c DEF EmitArchived, Does
  <2>. HIDE DEF o
  <2>2. DataTyped
    BY <1>15, <2>1, EmitTyped, DropTyped, Unchanging DEF EmitArchived, DataTyped, ControlTypeOK, Fibres
  <2>3. ObjsEffect(h)
    BY <1>15, <2>1, EmitTyped, Unchanging DEF EmitArchived, ObjsEffect, ControlTypeOK, o
  <2>4. LedgerEffect(t, h) /\ LockEffect(t, h)
    BY <1>15, <2>1, Unchanging DEF EmitArchived, LedgerEffect, LockEffect, o
  <2>. QED
    BY <1>15, <2>1, <2>2, <2>3, <2>4, Unchanging DEF EmitArchived, Effects, h, o
<1>16. CASE Recover(t, o)
  <2>1. h.do = "recover" /\ o \in Objectives
    BY <1>16, <1>c DEF Recover, Does
  <2>. HIDE DEF o
  <2>2. DataTyped
    BY <1>16, <2>1, EmitTyped, DropTyped, Unchanging DEF Recover, DataTyped, ControlTypeOK, Fibres
  <2>3. ObjsEffect(h)
    BY <1>16, <2>1, EmitTyped, Unchanging DEF Recover, ObjsEffect, ControlTypeOK, o
  <2>4. LedgerEffect(t, h) /\ LockEffect(t, h)
    BY <1>16, <2>1, Unchanging DEF Recover, LedgerEffect, LockEffect, o
  <2>. QED
    BY <1>16, <2>1, <2>2, <2>3, <2>4, Unchanging DEF Recover, Effects, h, o
<1>17. ASSUME NEW n \in 1..2, Pass(t, o, n)
      PROVE  Effects(t)
  <2>1. h.do \in {"pass1", "pass2"} /\ o \in Objectives
    BY <1>17, <1>c DEF Pass, Does
  <2>. HIDE DEF o
  <2>2. DataTyped
    BY <1>17, <2>1, EmitTyped, Unchanging DEF Pass, DataTyped, ControlTypeOK
  <2>3. ObjsEffect(h)
    BY <1>17, <2>1, EmitTyped, Unchanging DEF Pass, ObjsEffect, ControlTypeOK, o
  <2>4. LedgerEffect(t, h) /\ LockEffect(t, h)
    BY <1>17, <2>1, Unchanging DEF Pass, LedgerEffect, LockEffect, o
  <2>. QED
    BY <1>17, <2>1, <2>2, <2>3, <2>4, Unchanging DEF Pass, Effects, h, o
<1>18. ASSUME NEW n \in 1..2, Check(t, o, n)
      PROVE  Effects(t)
  <2>1. h.do \in {"check1", "check2"} /\ o \in Objectives
    BY <1>18, <1>c DEF Check, Does
  <2>. HIDE DEF o
  <2>2. DataTyped
    BY <1>18, <2>1, EmitTyped, Unchanging DEF Check, DataTyped, ControlTypeOK
  <2>3. ObjsEffect(h)
    BY <1>18, <2>1, EmitTyped, Unchanging DEF Check, ObjsEffect, ControlTypeOK, o
  <2>4. LedgerEffect(t, h) /\ LockEffect(t, h)
    BY <1>18, <2>1, Unchanging DEF Check, LedgerEffect, LockEffect, o
  <2>. QED
    BY <1>18, <2>1, <2>2, <2>3, <2>4, Unchanging DEF Check, Effects, h, o
<1>19. CASE RebalanceSlots(t)
  <2>1. h.do = "rebalance"
    BY <1>19, <1>d DEF RebalanceSlots
  <2>2. DataTyped
    <3>1. \A p \in Objectives : [objs[p] EXCEPT !.released = @ \/ p \in Leavers] \in Objective
      BY DEF ControlTypeOK, Objective
    <3>2. objs' \in [Objectives -> Objective]
      BY <1>19, <3>1 DEF RebalanceSlots
    <3>3. doubled' \in BOOLEAN
      BY <1>19 DEF RebalanceSlots
    <3>4. UNCHANGED <<begun, lock, queued, serving, orphans, unfinished, calls, owed, lost>>
      BY <1>19, Unchanging DEF RebalanceSlots
    <3>. QED
      BY <3>2, <3>3, <3>4 DEF DataTyped, ControlTypeOK
  <2>3. ObjsEffect(h)
    BY <1>19, <2>1, Unchanging DEF RebalanceSlots, ObjsEffect, Kept, ControlTypeOK, Objective
  <2>4. LedgerEffect(t, h) /\ LockEffect(t, h)
    BY <1>19, <2>1, Unchanging DEF RebalanceSlots, LedgerEffect, LockEffect
  <2>. QED
    BY <1>19, <2>1, <2>2, <2>3, <2>4, Unchanging DEF RebalanceSlots, Effects, h
<1>20. CASE Sweep(t)
  <2>1. h.do = "sweep"
    BY <1>20, <1>d DEF Sweep
  <2>2. DataTyped
    BY <1>20, <2>1, DropTyped, Unchanging DEF Sweep, DataTyped, ControlTypeOK
  <2>3. ObjsEffect(h)
    BY <1>20, <2>1, Unchanging DEF Sweep, ObjsEffect
  <2>4. LedgerEffect(t, h) /\ LockEffect(t, h)
    BY <1>20, <2>1, Unchanging DEF Sweep, LedgerEffect, LockEffect
  <2>. QED
    BY <1>20, <2>1, <2>2, <2>3, <2>4, Unchanging DEF Sweep, Effects, h
<1>21. CASE ListPending(t)
  <2>1. h.do = "pending"
    BY <1>21, <1>d DEF ListPending
  <2>2. DataTyped
    BY <1>21, <2>1, DropTyped, Unchanging DEF ListPending, DataTyped, ControlTypeOK
  <2>3. ObjsEffect(h)
    BY <1>21, <2>1, Unchanging DEF ListPending, ObjsEffect
  <2>4. LedgerEffect(t, h) /\ LockEffect(t, h)
    BY <1>21, <2>1, Unchanging DEF ListPending, LedgerEffect, LockEffect
  <2>. QED
    BY <1>21, <2>1, <2>2, <2>3, <2>4, Unchanging DEF ListPending, Effects, h
<1>22. CASE Resume(t)
  <2>1. h.do = "resume"
    BY <1>22, <1>d DEF Resume
  <2>2. DataTyped
    BY <1>22, <2>1, DropTyped, Unchanging DEF Resume, DataTyped, ControlTypeOK
  <2>3. ObjsEffect(h)
    BY <1>22, <2>1, Unchanging DEF Resume, ObjsEffect
  <2>4. LedgerEffect(t, h) /\ LockEffect(t, h)
    BY <1>22, <2>1, Unchanging DEF Resume, LedgerEffect, LockEffect
  <2>. QED
    BY <1>22, <2>1, <2>2, <2>3, <2>4, Unchanging DEF Resume, Effects, h
<1>. QED
  BY <1>a, <1>b, <1>1, <1>2, <1>3, <1>4, <1>5, <1>6, <1>7, <1>8, <1>9, <1>10, <1>11, <1>12, <1>13, <1>14, <1>15, <1>16, <1>17, <1>18, <1>19, <1>20, <1>21, <1>22
  DEF DoesStep, StepOf, o

Ordered(s) ==
  /\ \A i \in 2..Len(s) : s[i].do \notin {"create", "hire", "post"}
  /\ \A i, j \in DOMAIN s : i < j /\ s[j].do \in Promises => s[i].do \in Calm

(* Nothing in the process or in the ledger names an objective that is not  *)
(* created yet, except the fibre that is about to create it.               *)
Unnamed(o) ==
  /\ objs[o].slot # "active" /\ queued[o] = 0
  /\ o \notin orphans /\ o \notin unfinished
  /\ \A t \in Workers : serving[t] # o
  /\ \A t \in Fibres : \A i \in DOMAIN todo[t] :
       todo[t][i].obj = o => todo[t][1].do = "create" /\ todo[t][1].obj = o

Begins(t, o) == At(t, "create", o)

FibreInv ==
  /\ \A t \in Fibres : Ordered(todo[t])
  /\ \A o \in Objectives : ~Made(o) => Unnamed(o)
  /\ \A o \in Objectives : Made(o) => o \in begun
  /\ \A o \in Objectives, t \in Fibres : Begins(t, o) =>
       /\ ~Made(o) /\ o \in begun
       /\ \A u \in Fibres : Begins(u, o) => u = t

CInv == ControlTypeOK /\ FibreInv

(* A workflow is unfinished only of an objective that exists. *)
LEMMA UnfinishedMade ==
  ASSUME CInv
  PROVE  Accounted
BY DEF CInv, FibreInv, Accounted, ControlTypeOK, Unnamed

(* A step other than the creation names an objective that exists. *)
LEMMA HeadMade ==
  ASSUME CInv, NEW t \in Fibres, todo[t] # <<>>, todo[t][1].do # "create",
         todo[t][1].obj \in Objectives
  PROVE  Made(todo[t][1].obj)
<1>1. 1 \in DOMAIN todo[t]
  BY DEF CInv, ControlTypeOK
<1>. QED
  BY <1>1 DEF CInv, FibreInv, Unnamed

(* Replacing the first step by what it calls keeps a list in order. *)
LEMMA OrderedThen ==
  ASSUME NEW s \in Seq(Step), s # <<>>, Ordered(s), NEW steps, Follows(s[1], steps),
         NEW r, r = steps \o Tail(s)
  PROVE  /\ r \in Seq(Step) /\ Ordered(r)
         /\ \A i \in DOMAIN r : \/ NewStep(s[1], r[i])
                                \/ \E j \in 2..Len(s) : r[i] = s[j]
         /\ r # <<>> => \/ NewStep(s[1], r[1])
                        \/ r[1].do \notin {"create", "hire", "post"}
<1>1. /\ steps \in Seq(Step) /\ \A i \in 1..Len(steps) : NewStep(s[1], steps[i])
      /\ s[1].do \in {"ask", "hire"} => Len(steps) <= 1
  BY DEF Follows
<1>2. /\ r \in Seq(Step) /\ Len(r) = Len(steps) + Len(s) - 1 /\ Len(s) \in Nat \ {0}
      /\ \A i \in 1..Len(steps) : r[i] = steps[i]
      /\ \A i \in (Len(steps) + 1)..Len(r) : r[i] = s[i - Len(steps) + 1]
      /\ Len(steps) \in Nat
  BY <1>1, ThenSeq
<1>d. DOMAIN r = 1..Len(r) /\ DOMAIN s = 1..Len(s) /\ Len(r) \in Nat
  BY <1>2
<1>3. \A i \in 1..Len(r) : \/ i \in 1..Len(steps) /\ r[i] = steps[i] /\ NewStep(s[1], r[i])
                           \/ /\ i - Len(steps) + 1 \in 2..Len(s)
                              /\ i > Len(steps) /\ r[i] = s[i - Len(steps) + 1]
  BY <1>1, <1>2
<1>4. ASSUME NEW i \in 1..Len(r), r[i].do \in {"create", "hire", "post"}
      PROVE  i = 1 /\ i \in 1..Len(steps)
  <2>1. i \in 1..Len(steps)
    BY <1>2, <1>3, <1>4 DEF Ordered
  <2>2. s[1].do \in {"ask", "hire"}
    BY <1>3, <1>4, <2>1 DEF NewStep
  <2>. QED
    BY <1>1, <1>2, <2>1, <2>2
<1>5. ASSUME NEW i \in 1..Len(r), NEW j \in 1..Len(r), i < j, r[j].do \in Promises
      PROVE  r[i].do \in Calm
  <2>1. CASE j \in 1..Len(steps)
    <3>1. NewStep(s[1], steps[j]) /\ NewStep(s[1], steps[i]) /\ r[i] = steps[i] /\ r[j] = steps[j]
      BY <1>1, <1>2, <1>5, <2>1
    <3>. QED
      BY <1>5, <3>1 DEF NewStep, Promises, Calm
  <2>2. CASE j \notin 1..Len(steps)
    <3>1. j - Len(steps) + 1 \in 2..Len(s) /\ r[j] = s[j - Len(steps) + 1]
      BY <1>3, <2>2
    <3>2. s[1].do \in Calm
      BY <1>2, <1>5, <3>1 DEF Ordered
    <3>3. CASE i \in 1..Len(steps)
      BY <1>3, <3>2, <3>3, <1>2 DEF NewStep, Enqueuing, Calm
    <3>4. CASE i \notin 1..Len(steps)
      <4>1. i - Len(steps) + 1 \in 2..Len(s) /\ r[i] = s[i - Len(steps) + 1]
        BY <1>3, <3>4
      <4>2. i - Len(steps) + 1 < j - Len(steps) + 1
        BY <1>2, <1>d, <1>5
      <4>3. /\ i - Len(steps) + 1 \in DOMAIN s /\ j - Len(steps) + 1 \in DOMAIN s
            /\ s[j - Len(steps) + 1].do \in Promises
        BY <1>2, <1>d, <1>5, <3>1, <4>1
      <4>. QED
        BY <4>1, <4>2, <4>3 DEF Ordered
    <3>. QED
      BY <3>3, <3>4
  <2>. QED
    BY <2>1, <2>2
<1>6. Ordered(r)
  <2>1. \A i \in 2..Len(r) : r[i].do \notin {"create", "hire", "post"}
    BY <1>4, <1>d
  <2>. QED
    BY <1>d, <1>5, <2>1 DEF Ordered
<1>7. \A i \in DOMAIN r : NewStep(s[1], r[i]) \/ \E j \in 2..Len(s) : r[i] = s[j]
  <2>1. ASSUME NEW i \in 1..Len(r)
        PROVE  NewStep(s[1], r[i]) \/ \E j \in 2..Len(s) : r[i] = s[j]
    BY <1>3
  <2>. QED
    BY <1>d, <2>1
<1>8. ASSUME r # <<>>
      PROVE  NewStep(s[1], r[1]) \/ r[1].do \notin {"create", "hire", "post"}
  <2>1. 1 \in 1..Len(r)
    BY <1>2, <1>8
  <2>. QED
    BY <1>2, <1>3, <1>4, <2>1
<1>. QED
  BY <1>2, <1>6, <1>7, <1>8

(* The fibres after a step of one of them. *)
Advanced(t) ==
  /\ todo' \in [Fibres -> Seq(Step)]
  /\ \A u \in Fibres \ {t} : todo'[u] = todo[u]
  /\ Ordered(todo'[t])
  /\ \A i \in DOMAIN todo'[t] : \/ NewStep(todo[t][1], todo'[t][i])
                                \/ \E j \in 2..Len(todo[t]) : todo'[t][i] = todo[t][j]
  /\ todo'[t] # <<>> => \/ NewStep(todo[t][1], todo'[t][1])
                        \/ todo'[t][1].do \notin {"create", "hire", "post"}

(* After a step the fibres are in order, and the data have changed as      *)
(* Effects says.                                                           *)
LEMMA StepAdvances ==
  ASSUME CInv, NEW t \in Fibres, DoesStep(t)
  PROVE  Advanced(t) /\ Effects(t) /\ todo[t] # <<>> /\ todo[t] \in Seq(Step)
<1>. ControlTypeOK
  BY DEF CInv
<1>1. Moves(t)
  BY UnfinishedMade, Moved
<1>2. PICK steps : Then(t, steps) /\ Follows(todo[t][1], steps)
  BY <1>1 DEF Moves
<1>3. todo[t] # <<>> /\ todo[t] \in Seq(Step) /\ Ordered(todo[t])
  BY <1>1 DEF Moves, ControlTypeOK, CInv, FibreInv
<1>4. todo' = [todo EXCEPT ![t] = steps \o Tail(todo[t])]
  BY <1>2 DEF Then
<1> DEFINE r == steps \o Tail(todo[t])
<1>5. /\ r \in Seq(Step) /\ Ordered(r)
      /\ \A i \in DOMAIN r : \/ NewStep(todo[t][1], r[i])
                             \/ \E j \in 2..Len(todo[t]) : r[i] = todo[t][j]
      /\ r # <<>> => \/ NewStep(todo[t][1], r[1])
                     \/ r[1].do \notin {"create", "hire", "post"}
  BY <1>2, <1>3, OrderedThen
<1>6. todo \in [Fibres -> Seq(Step)] /\ todo' = [todo EXCEPT ![t] = r]
  BY <1>4 DEF ControlTypeOK
<1>. HIDE DEF r
<1>7. todo'[t] = r
  BY <1>6
<1>8. Advanced(t)
  BY <1>5, <1>6, <1>7 DEF Advanced
<1>. QED
  BY <1>3, <1>8, Effected

(* Objectives come into being by their creation, and stay. *)
LEMMA MadeAfter ==
  ASSUME CInv, NEW t \in Fibres, todo[t] # <<>>, Effects(t)
  PROVE  LET h == todo[t][1]
         IN  /\ \A p \in Objectives : Made(p) => objs'[p].phase # "none"
             /\ \A p \in Objectives : objs'[p].phase # "none" =>
                  Made(p) \/ (h.do = "create" /\ h.obj = p)
             /\ h.do = "create" => h.obj \in Objectives /\ objs'[h.obj].phase # "none"
             /\ \A p \in Objectives : objs'[p].phase = "none" => objs'[p].slot # "active"
<1> DEFINE h == todo[t][1]
<1>1. h \in Step /\ (h.do \notin Overall => h.obj \in Objectives)
  BY HeadIsStep DEF CInv
<1>2. h.do # "create" /\ h.obj \in Objectives => Made(h.obj)
  BY HeadMade
<1>3. objs \in [Objectives -> Objective] /\ ObjsEffect(h)
  BY DEF CInv, ControlTypeOK, Effects
<1>4. \A p \in Objectives : ~Made(p) => objs[p].slot # "active"
  BY DEF CInv, FibreInv, Unnamed
<1>. HIDE DEF h
<1>5. CASE h.do # "create" /\ \A p \in Objectives : Kept(p)
  BY <1>4, <1>5 DEF Kept, Made, h
<1>6. CASE h.do = "create" /\ Emit(h.obj, "phase", "open")
  BY <1>1, <1>3, <1>4, <1>6 DEF Emit, Made, Objective, Overall, h
<1>7. CASE h.do = "queue" /\ Emit(h.obj, "slot", "queued")
  BY <1>1, <1>2, <1>3, <1>4, <1>7 DEF Emit, Made, Objective, Overall, h
<1>8. CASE h.do \in Promises /\ Admit(h.obj)
  BY <1>1, <1>2, <1>3, <1>4, <1>8 DEF Admit, Made, Objective, Overall, Promises, h
<1>9. CASE h.do = "work" /\ \E phase \in Outcomes(objs[h.obj].phase) : Emit(h.obj, "phase", phase)
  BY <1>1, <1>2, <1>3, <1>4, <1>9 DEF Emit, Made, Objective, Overall, Outcomes, Phases, h
<1>10. CASE h.do = "cancel" /\ Emit(h.obj, "phase", "done")
  BY <1>1, <1>2, <1>3, <1>4, <1>10 DEF Emit, Made, Objective, Overall, h
<1>11. CASE h.do = "archive" /\ Emit(h.obj, "archived", TRUE)
  BY <1>1, <1>2, <1>3, <1>4, <1>11 DEF Emit, Made, Objective, Overall, h
<1>. QED
  BY <1>3, <1>5, <1>6, <1>7, <1>8, <1>9, <1>10, <1>11 DEF ObjsEffect, h

(* A step of a fibre keeps the invariant about fibres. *)
LEMMA StepKeepsFibres ==
  ASSUME CInv, NEW t \in Fibres, DoesStep(t)
  PROVE  CInv'
<1> DEFINE h == todo[t][1]
<1>1. Advanced(t) /\ Effects(t) /\ todo[t] # <<>> /\ todo[t] \in Seq(Step)
  BY StepAdvances
<1>2. ControlTypeOK'
  BY <1>1 DEF Advanced, Effects, DataTyped, CInv, ControlTypeOK
<1>3. /\ \A p \in Objectives : Made(p) => objs'[p].phase # "none"
      /\ \A p \in Objectives : objs'[p].phase # "none" =>
           Made(p) \/ (h.do = "create" /\ h.obj = p)
      /\ h.do = "create" => h.obj \in Objectives /\ objs'[h.obj].phase # "none"
      /\ \A p \in Objectives : objs'[p].phase = "none" => objs'[p].slot # "active"
  BY <1>1, MadeAfter
<1>4. h \in Step /\ (h.do \notin Overall => h.obj \in Objectives)
  BY <1>1, HeadIsStep DEF CInv
<1>5. h.do # "create" /\ h.obj \in Objectives => Made(h.obj)
  BY <1>1, HeadMade
<1>6. \A u \in Fibres : Ordered(todo'[u])
  BY <1>1 DEF Advanced, CInv, FibreInv
<1>7. begun' = begun /\ LedgerEffect(t, h)
      /\ unfinished' \subseteq unfinished \cup (IF h.do = "ask" THEN {h.obj} ELSE {})
  BY <1>1 DEF Effects
<1>8. ASSUME NEW p \in Objectives, objs'[p].phase = "none"
      PROVE  Unnamed(p)'
  <2>1. Unnamed(p) /\ ~Made(p)
    BY <1>3, <1>8 DEF CInv, FibreInv
  <2>2. h.obj = p => h.do = "create" /\ FALSE
    BY <1>3, <1>5, <1>8, <2>1
  <2>3. p \notin unfinished'
    BY <1>7, <2>1, <2>2 DEF Unnamed
  <2>4. queued'[p] = 0 /\ p \notin orphans' /\ \A w \in Workers : serving'[w] # p
    <3>1. CASE UNCHANGED ledger
      BY <2>1, <3>1 DEF ledger, Unnamed
    <3>2. CASE Post(t, h.obj)
      BY <2>1, <2>2, <3>2 DEF Post, Unnamed, CInv, ControlTypeOK
    <3>3. CASE EndJob(t, h.obj)
      BY <2>1, <3>3 DEF EndJob, Unnamed, CInv, ControlTypeOK, Objectives
    <3>4. ASSUME NEW targets \in SUBSET Objectives, Drop(targets)
          PROVE  queued'[p] = 0 /\ p \notin orphans' /\ \A w \in Workers : serving'[w] # p
      BY <2>1, <3>4 DEF Drop, Unnamed, CInv, ControlTypeOK, Objectives
    <3>. QED
      BY <1>7, <3>1, <3>2, <3>3, <3>4 DEF LedgerEffect
  <2>5. ASSUME NEW u \in Fibres, NEW i \in DOMAIN todo'[u], todo'[u][i].obj = p
        PROVE  todo'[u][1].do = "create" /\ todo'[u][1].obj = p
    <3>1. CASE u # t
      BY <1>1, <2>1, <2>5, <3>1 DEF Advanced, Unnamed
    <3>2. CASE u = t /\ NewStep(h, todo'[t][i])
      <4>1. p = 0 \/ p = h.obj \/ Made(p)
        BY <2>5, <3>2 DEF NewStep
      <4>. QED
        BY <2>1, <2>2, <4>1 DEF Objectives
    <3>3. ASSUME u = t, NEW j \in 2..Len(todo[t]), todo'[t][i] = todo[t][j]
          PROVE  FALSE
      <4>1. j \in DOMAIN todo[t] /\ todo[t][j].obj = p
        BY <1>1, <2>5, <3>3
      <4>. QED
        BY <2>1, <2>2, <4>1 DEF Unnamed
    <3>. QED
      BY <1>1, <2>5, <3>1, <3>2, <3>3 DEF Advanced
  <2>. QED
    BY <1>3, <1>8, <2>3, <2>4, <2>5 DEF Unnamed
<1>9. ASSUME NEW p \in Objectives, objs'[p].phase # "none"
      PROVE  p \in begun'
  <2>1. Made(p) \/ Begins(t, p)
    BY <1>1, <1>3, <1>9 DEF Begins, At
  <2>. QED
    BY <1>7, <2>1 DEF CInv, FibreInv
<1>10. ASSUME NEW p \in Objectives, NEW u \in Fibres, Begins(u, p)'
       PROVE  u # t /\ Begins(u, p)
  <2>1. ~Begins(t, p)'
    <3>1. todo'[t] # <<>> => todo'[t][1].do # "create"
      BY <1>1 DEF Advanced, NewStep
    <3>. QED
      BY <3>1 DEF Begins, At
  <2>2. u # t
    BY <1>10, <2>1
  <2>. QED
    BY <1>1, <1>10, <2>2 DEF Advanced, Begins, At
<1>11. ASSUME NEW p \in Objectives, NEW u \in Fibres, Begins(u, p)'
       PROVE  /\ objs'[p].phase = "none" /\ p \in begun'
              /\ \A v \in Fibres : Begins(v, p)' => v = u
  <2>1. u # t /\ Begins(u, p)
    BY <1>10, <1>11
  <2>2. ~Made(p) /\ p \in begun /\ \A v \in Fibres : Begins(v, p) => v = u
    BY <2>1 DEF CInv, FibreInv
  <2>3. ~Begins(t, p)
    BY <2>1, <2>2
  <2>4. objs'[p].phase = "none"
    BY <1>1, <1>3, <2>2, <2>3 DEF Begins, At
  <2>. QED
    BY <1>7, <1>10, <2>2, <2>4
<1>12. FibreInv'
  <2>1. \A o \in Objectives : ~Made(o)' => Unnamed(o)'
    BY <1>8 DEF Made
  <2>2. \A o \in Objectives : Made(o)' => o \in begun'
    BY <1>9 DEF Made
  <2>3. \A o \in Objectives, u \in Fibres : Begins(u, o)' =>
          /\ ~Made(o)' /\ o \in begun'
          /\ \A v \in Fibres : Begins(v, o)' => v = u
    BY <1>11 DEF Made
  <2>. QED
    BY <1>6, <2>1, <2>2, <2>3 DEF FibreInv
<1>. QED
  BY <1>2, <1>12 DEF CInv

(* A list of steps that neither creates nor promises nor enqueues at once. *)
Plain(s, o) == /\ s \in Seq(Step)
               /\ \A i \in DOMAIN s : /\ s[i].obj \in {0, o}
                                      /\ s[i].do \notin {"create", "queue", "place", "grant", "hire", "post"}

(* The list a creation starts with. *)
Creating(s, o) ==
  /\ s \in Seq(Step) /\ Len(s) \in Nat /\ Len(s) > 1
  /\ s[1] = S("create", o)
  /\ s[2] \in {S("queue", o), S("place", o)}
  /\ \A i \in 3..Len(s) : /\ s[i].obj \in {0, o}
                          /\ s[i].do \notin {"create", "queue", "place", "grant", "hire", "post"}

(* Plain is closed under concatenation. *)
LEMMA PlainCat ==
  ASSUME NEW o, NEW a, NEW b, Plain(a, o), Plain(b, o)
  PROVE  Plain(a \o b, o)
BY DEF Plain

(* The lists that calls and leases start with are plain. *)
LEMMA PlainLists ==
  ASSUME NEW o \in Objectives
  PROVE  /\ Plain(<<>>, o) /\ Plain(Rebalance, o) /\ Plain(Enqueue(o), o)
         /\ Plain(Continue(o), o) /\ Plain(React(o), o) /\ Plain(<<S("pass1", o)>>, o)
         /\ Plain(<<S("drop", o), S("cancel", o)>> \o Rebalance, o)
         /\ \A a \in {<<>>, <<S("archive", o)>>} : Plain(<<S("drop", o)>> \o a \o Rebalance, o)
<1>1. Plain(<<>>, o) /\ Plain(Rebalance, o)
  BY DEF Plain, Rebalance, S, Step, Overall
<1>2. \A do \in {"ask", "look", "reread", "pass1", "drop", "archive"} : Plain(<<S(do, o)>>, o)
  BY DEF Plain, S, Step, Does
<1>3. Plain(<<S("drop", o), S("cancel", o)>>, o)
  BY DEF Plain, S, Step, Does
<1>4. Plain(Continue(o), o) /\ Plain(React(o), o)
  BY <1>1, <1>2, PlainCat DEF Continue, React
<1>5. Plain(<<S("drop", o), S("cancel", o)>> \o Rebalance, o)
  BY <1>1, <1>3, PlainCat
<1>6. ASSUME NEW a \in {<<>>, <<S("archive", o)>>}
      PROVE  Plain(<<S("drop", o)>> \o a \o Rebalance, o)
  <2>1. Plain(a, o) /\ Plain(<<S("drop", o)>>, o)
    BY <1>1, <1>2
  <2>2. Plain(<<S("drop", o)>> \o a, o)
    BY <2>1, PlainCat
  <2>. QED
    BY <1>1, <2>2, PlainCat
<1>. QED
  BY <1>1, <1>2, <1>4, <1>5, <1>6 DEF Enqueue

(* createObjective puts the two events of its batch first. *)
LEMMA CreatingList ==
  ASSUME NEW o \in Objectives, NEW m \in {<<S("queue", o)>>, <<S("place", o)>>},
         NEW r, Plain(r, o)
  PROVE  Creating(<<S("create", o)>> \o m \o r, o)
<1>1. S("create", o) \in Step /\ S("queue", o) \in Step /\ S("place", o) \in Step
  BY DEF S, Step, Does
<1>2. PICK x \in {S("queue", o), S("place", o)} : m = <<x>>
  OBVIOUS
<1> DEFINE c == S("create", o)
<1>3. <<c>> \in Seq(Step) /\ <<x>> \in Seq(Step) /\ r \in Seq(Step)
  BY <1>1 DEF Plain
<1>. HIDE DEF c
<1>4. /\ <<c>> \o <<x>> \in Seq(Step) /\ Len(<<c>> \o <<x>>) = 2
      /\ (<<c>> \o <<x>>)[1] = c /\ (<<c>> \o <<x>>)[2] = x
  BY <1>3
<1> DEFINE cx == <<c>> \o <<x>>
<1>. HIDE DEF cx
<1>5. /\ cx \o r \in Seq(Step) /\ Len(cx \o r) = 2 + Len(r) /\ Len(r) \in Nat
      /\ (cx \o r)[1] = c /\ (cx \o r)[2] = x
      /\ \A i \in 3..Len(cx \o r) : (cx \o r)[i] = r[i - 2] /\ i - 2 \in DOMAIN r
  BY <1>3, <1>4 DEF cx
<1>6. Len(cx \o r) \in Nat /\ Len(cx \o r) > 1
  BY <1>5
<1>7. Creating(cx \o r, o)
  BY <1>5, <1>6 DEF Creating, Plain, c
<1>. QED
  BY <1>2, <1>7 DEF c, cx

(* What the calls start. *)
LEMMA CreateList ==
  ASSUME NEW t, NEW o \in Objectives, NEW now \in BOOLEAN, Create(t, o, now)
  PROVE  \E s : /\ Creating(s, o) /\ Start(t, s)
                /\ s[2] = S("place", o) => ~Full({})
<1>1. CASE Full({})
  <2> DEFINE s == <<S("create", o)>> \o <<S("queue", o)>> \o Enqueue(o)
  <2>1. Creating(s, o)
    BY PlainLists, CreatingList
  <2>2. s[2] = S("queue", o)
    <3>1. s = <<S("create", o)>> \o <<S("queue", o)>> \o <<S("ask", o)>>
      BY DEF Enqueue
    <3>2. \A a, b, c : (<<a>> \o <<b>> \o <<c>>)[2] = b
      OBVIOUS
    <3>. QED
      BY <3>1, <3>2
  <2>. HIDE DEF s
  <2>3. Start(t, s)
    <3>1. Start(t, <<S("create", o)>>
        \o (IF Full({}) THEN <<S("queue", o)>> ELSE <<S("place", o)>>)
        \o (IF now /\ ~Full({}) THEN Continue(o) ELSE Enqueue(o)))
      BY DEF Create
    <3>2. <<S("create", o)>>
        \o (IF Full({}) THEN <<S("queue", o)>> ELSE <<S("place", o)>>)
        \o (IF now /\ ~Full({}) THEN Continue(o) ELSE Enqueue(o)) = s
      BY <1>1 DEF s
    <3>. QED
      BY <3>1, <3>2
  <2>. QED
    BY <2>1, <2>2, <2>3 DEF S
<1>2. CASE ~Full({})
  <2> DEFINE r == IF now THEN Continue(o) ELSE Enqueue(o)
             s == <<S("create", o)>> \o <<S("place", o)>> \o r
  <2>1. Plain(r, o)
    BY PlainLists
  <2>. HIDE DEF r
  <2>2. Creating(s, o)
    BY <2>1, CreatingList
  <2>. HIDE DEF s
  <2>3. Start(t, s)
    <3>1. Start(t, <<S("create", o)>>
        \o (IF Full({}) THEN <<S("queue", o)>> ELSE <<S("place", o)>>)
        \o (IF now /\ ~Full({}) THEN Continue(o) ELSE Enqueue(o)))
      BY DEF Create
    <3>2. <<S("create", o)>>
        \o (IF Full({}) THEN <<S("queue", o)>> ELSE <<S("place", o)>>)
        \o (IF now /\ ~Full({}) THEN Continue(o) ELSE Enqueue(o)) = s
      BY <1>2 DEF s, r
    <3>. QED
      BY <3>1, <3>2
  <2>. QED
    BY <1>2, <2>2, <2>3
<1>. QED
  BY <1>1, <1>2

(* What the other calls start: a note, a cancel, an archive. *)
LEMMA CallLists ==
  ASSUME NEW t, NEW o \in Objectives,
         CallReact(t, o) \/ CallCancel(t, o) \/ CallArchive(t, o)
  PROVE  \E s : Plain(s, o) /\ Start(t, s)
<1>1. CASE CallReact(t, o)
  BY <1>1, PlainLists DEF CallReact
<1>2. CASE CallCancel(t, o)
  BY <1>2, PlainLists DEF CallCancel
<1>3. CASE CallArchive(t, o)
  <2> DEFINE a == IF objs[o].archived THEN <<>> ELSE <<S("archive", o)>>
  <2>1. a \in {<<>>, <<S("archive", o)>>}
    OBVIOUS
  <2>2. Start(t, <<S("drop", o)>> \o a \o Rebalance)
    BY <1>3 DEF CallArchive
  <2>. HIDE DEF a
  <2>. QED
    BY <2>1, <2>2, PlainLists
<1>. QED
  BY <1>1, <1>2, <1>3

(* An objective that does not exist yet has no job and no workflow. *)
NoJobsOf(p) == /\ queued[p] = 0 /\ p \notin orphans /\ p \notin unfinished
               /\ \A t \in Workers : serving[t] # p

(* A plain list is in order. *)
LEMMA PlainOrdered ==
  ASSUME NEW s, NEW o, Plain(s, o)
  PROVE  Ordered(s) /\ (s # <<>> => s[1].do \notin {"create", "hire", "post"})
BY DEF Plain, Ordered, Promises

(* A fibre that starts on an objective that exists disturbs nothing. *)
LEMMA StartKeepsFibres ==
  ASSUME CInv, NEW t \in Fibres, NEW s, NEW o \in Objectives, Plain(s, o), Start(t, s),
         Made(o), UNCHANGED <<objs, begun>>,
         \A p \in Objectives : ~Made(p) => NoJobsOf(p)'
  PROVE  FibreInv' /\ todo' \in [Fibres -> Seq(Step)]
<1>1. /\ todo[t] = <<>> /\ todo'[t] = s /\ \A u \in Fibres \ {t} : todo'[u] = todo[u]
      /\ todo' \in [Fibres -> Seq(Step)]
  BY DEF Start, CInv, ControlTypeOK, Plain
<1>2. Ordered(s) /\ (s # <<>> => s[1].do \notin {"create", "hire", "post"})
  BY PlainOrdered
<1>3. \A u \in Fibres : Ordered(todo'[u])
  BY <1>1, <1>2 DEF CInv, FibreInv
<1>4. ASSUME NEW p \in Objectives, ~Made(p)
      PROVE  Unnamed(p)'
  <2>1. Unnamed(p) /\ NoJobsOf(p)'
    BY <1>4 DEF CInv, FibreInv
  <2>2. p # o
    BY <1>4
  <2>3. ASSUME NEW u \in Fibres, NEW i \in DOMAIN todo'[u], todo'[u][i].obj = p
        PROVE  todo'[u][1].do = "create" /\ todo'[u][1].obj = p
    <3>1. CASE u # t
      BY <1>1, <2>1, <2>3, <3>1 DEF Unnamed
    <3>2. CASE u = t
      BY <1>1, <2>2, <2>3, <3>2 DEF Plain, Objectives
    <3>. QED
      BY <3>1, <3>2
  <2>. QED
    BY <2>1, <2>3 DEF Unnamed, NoJobsOf
<1>5. ASSUME NEW p \in Objectives, NEW u \in Fibres
      PROVE  Begins(u, p)' = Begins(u, p) /\ ~Begins(t, p)
  BY <1>1, <1>2 DEF Begins, At
<1>6. \A p \in Objectives : Made(p)' = Made(p)
  BY DEF Made
<1>7. \A p \in Objectives : ~Made(p)' => Unnamed(p)'
  BY <1>4, <1>6
<1>8. \A p \in Objectives : Made(p)' => p \in begun'
  BY <1>6 DEF CInv, FibreInv
<1>9. \A p \in Objectives, u \in Fibres : Begins(u, p)' =>
        /\ ~Made(p)' /\ p \in begun'
        /\ \A v \in Fibres : Begins(v, p)' => v = u
  BY <1>5, <1>6 DEF CInv, FibreInv
<1>. QED
  BY <1>1, <1>3, <1>7, <1>8, <1>9 DEF FibreInv

(* createObjective names an objective nobody has named before. *)
LEMMA CreateKeepsFibres ==
  ASSUME CInv, NEW t \in Fibres, NEW o \in Objectives, NEW now \in BOOLEAN, Create(t, o, now)
  PROVE  CInv'
<1>1. PICK s : Creating(s, o) /\ Start(t, s)
  BY CreateList
<1>2. /\ o \notin begun /\ begun' = begun \cup {o}
      /\ UNCHANGED <<objs, lock, unfinished, calls, owed, lost>>
      /\ UNCHANGED <<queued, serving, orphans>>
  BY DEF Create, ledger
<1>d. doubled' \in BOOLEAN
  BY DEF Create
<1>3. /\ todo[t] = <<>> /\ todo'[t] = s /\ \A u \in Fibres \ {t} : todo'[u] = todo[u]
      /\ todo' \in [Fibres -> Seq(Step)]
  BY <1>1 DEF Start, CInv, ControlTypeOK, Creating
<1>4. ControlTypeOK'
  BY <1>2, <1>3, <1>d DEF CInv, ControlTypeOK
<1>5. DOMAIN s = 1..Len(s) /\ Len(s) \in Nat /\ s # <<>> /\ s \in Seq(Step)
  BY <1>1 DEF Creating
<1>6. /\ s[1].do = "create" /\ s[1].obj = o
      /\ \A i \in DOMAIN s : s[i].obj \in {0, o}
      /\ \A i \in 2..Len(s) : s[i].do \notin {"create", "hire", "post"}
      /\ \A i \in 3..Len(s) : s[i].do \notin Promises
  <2>1. DOMAIN s = {1, 2} \cup (3..Len(s))
    BY <1>1, <1>5 DEF Creating
  <2>2. 2..Len(s) = {2} \cup (3..Len(s))
    BY <1>1, <1>5 DEF Creating
  <2>. QED
    BY <1>1, <2>1, <2>2 DEF Creating, S, Promises
<1>7. Ordered(s)
  <2>1. ASSUME NEW i \in DOMAIN s, NEW j \in DOMAIN s, i < j, s[j].do \in Promises
        PROVE  s[i].do \in Calm
    <3>1. i = 1
      BY <1>5, <1>6, <2>1
    <3>. QED
      BY <1>6, <3>1 DEF Calm
  <2>. QED
    BY <1>6, <2>1 DEF Ordered
<1>8. \A u \in Fibres : Ordered(todo'[u])
  BY <1>3, <1>7 DEF CInv, FibreInv
<1>9. \A p \in Objectives : Made(p)' = Made(p)
  BY <1>2 DEF Made
<1>10. ASSUME NEW p \in Objectives, ~Made(p)
       PROVE  Unnamed(p)'
  <2>1. Unnamed(p)
    BY <1>10 DEF CInv, FibreInv
  <2>2. ASSUME NEW u \in Fibres, NEW i \in DOMAIN todo'[u], todo'[u][i].obj = p
        PROVE  todo'[u][1].do = "create" /\ todo'[u][1].obj = p
    <3>1. CASE u # t
      BY <1>3, <2>1, <2>2, <3>1 DEF Unnamed
    <3>2. CASE u = t
      BY <1>3, <1>6, <2>2, <3>2 DEF Objectives
    <3>. QED
      BY <3>1, <3>2
  <2>. QED
    BY <1>2, <2>1, <2>2 DEF Unnamed
<1>11. \A p \in Objectives : ~Made(p)' => Unnamed(p)'
  BY <1>9, <1>10
<1>12. \A p \in Objectives : Made(p)' => p \in begun'
  BY <1>2, <1>9 DEF CInv, FibreInv
<1>13. ASSUME NEW p \in Objectives, NEW u \in Fibres, Begins(u, p)'
       PROVE  \/ u = t /\ p = o
              \/ u # t /\ p # o /\ Begins(u, p)
  <2>1. CASE u = t
    BY <1>3, <1>6, <1>13, <2>1 DEF Begins, At
  <2>2. CASE u # t
    <3>1. Begins(u, p)
      BY <1>3, <1>13, <2>2 DEF Begins, At
    <3>2. p \in begun
      BY <3>1 DEF CInv, FibreInv
    <3>. QED
      BY <1>2, <2>2, <3>1, <3>2
  <2>. QED
    BY <2>1, <2>2
<1>14. ~Made(o)
  BY <1>2 DEF CInv, FibreInv
<1>15. \A p \in Objectives, u \in Fibres : Begins(u, p)' =>
         /\ ~Made(p)' /\ p \in begun'
         /\ \A v \in Fibres : Begins(v, p)' => v = u
  BY <1>2, <1>9, <1>13, <1>14 DEF CInv, FibreInv
<1>. QED
  BY <1>4, <1>8, <1>11, <1>12, <1>15 DEF CInv, FibreInv

(* The calls keep the invariant about fibres. *)
LEMMA CallsKeepFibres ==
  ASSUME CInv, NEW t \in Fibres, Calls(t)
  PROVE  CInv'
<1>1. ASSUME NEW o \in Objectives, NEW now \in BOOLEAN, Create(t, o, now)
      PROVE  CInv'
  BY <1>1, CreateKeepsFibres
<1>2. ASSUME NEW o \in Objectives, CallReact(t, o) \/ CallCancel(t, o) \/ CallArchive(t, o)
      PROVE  CInv'
  <2>1. PICK s : Plain(s, o) /\ Start(t, s)
    BY <1>2, CallLists
  <2>2. /\ UNCHANGED <<objs, begun, lock, unfinished, owed, doubled, lost>>
        /\ UNCHANGED <<queued, serving, orphans>>
        /\ Made(o) /\ Call
    BY <1>2 DEF CallReact, CallCancel, CallArchive, ledger, history
  <2>3. \A p \in Objectives : ~Made(p) => NoJobsOf(p)'
    BY <2>2 DEF CInv, FibreInv, Unnamed, NoJobsOf
  <2>4. FibreInv' /\ todo' \in [Fibres -> Seq(Step)]
    BY <2>1, <2>2, <2>3, StartKeepsFibres
  <2>5. calls' \in 0..MaxCalls
    BY <2>2, ControlAssumption DEF Call, CInv, ControlTypeOK
  <2>. QED
    BY <2>2, <2>4, <2>5 DEF CInv, ControlTypeOK
<1>. QED
  BY <1>1, <1>2 DEF Calls

(* A worker that leases a control job works on an objective that exists. *)
LEMMA LeaseKeepsFibres ==
  ASSUME CInv, NEW t \in Workers, NEW o \in Objectives, Lease(t, o)
  PROVE  CInv'
<1>1. Plain(<<S("pass1", o)>>, o) /\ Start(t, <<S("pass1", o)>>) /\ t \in Fibres
  BY PlainLists DEF Lease, Fibres
<1>2. /\ UNCHANGED <<objs, begun, lock, orphans, calls, owed, doubled, lost>>
      /\ queued[o] > 0 /\ queued' = [queued EXCEPT ![o] = @ - 1]
      /\ serving' = [serving EXCEPT ![t] = o] /\ unfinished' = unfinished \cup {o}
  BY DEF Lease, history
<1>3. Made(o)
  BY <1>2 DEF CInv, FibreInv, Unnamed
<1>4. \A p \in Objectives : ~Made(p) => NoJobsOf(p)'
  BY <1>2, <1>3 DEF CInv, FibreInv, Unnamed, NoJobsOf, ControlTypeOK
<1>5. FibreInv' /\ todo' \in [Fibres -> Seq(Step)]
  BY <1>1, <1>2, <1>3, <1>4, StartKeepsFibres
<1>6. queued' \in [Objectives -> Nat] /\ serving' \in [Workers -> Objectives \cup {0}]
  BY <1>2 DEF CInv, ControlTypeOK
<1>. QED
  BY <1>2, <1>5, <1>6 DEF CInv, ControlTypeOK

(* A job queued again after its lease is of an objective that exists. *)
LEMMA ExpireKeepsFibres ==
  ASSUME CInv, NEW o \in Objectives, ExpireLease(o)
  PROVE  CInv'
<1>1. /\ UNCHANGED <<objs, begun, todo, lock, serving, unfinished, calls, owed, doubled, lost>>
      /\ o \in orphans /\ orphans' = orphans \ {o}
      /\ queued' = [queued EXCEPT ![o] = @ + 1]
  BY DEF ExpireLease, history
<1>2. ControlTypeOK'
  BY <1>1 DEF CInv, ControlTypeOK
<1>3. \A p \in Objectives : Made(p)' = Made(p)
  BY <1>1 DEF Made
<1>4. ASSUME NEW p \in Objectives, ~Made(p)
      PROVE  Unnamed(p)'
  BY <1>1, <1>4 DEF CInv, FibreInv, Unnamed, ControlTypeOK
<1>5. \A p \in Objectives, u \in Fibres : Begins(u, p)' = Begins(u, p)
  BY <1>1 DEF Begins, At
<1>6. \A p \in Objectives : ~Made(p)' => Unnamed(p)'
  BY <1>3, <1>4
<1>7. /\ \A u \in Fibres : Ordered(todo'[u])
      /\ \A p \in Objectives : Made(p)' => p \in begun'
  BY <1>1, <1>3 DEF CInv, FibreInv
<1>8. \A p \in Objectives, u \in Fibres : Begins(u, p)' =>
        /\ ~Made(p)' /\ p \in begun'
        /\ \A v \in Fibres : Begins(v, p)' => v = u
  BY <1>1, <1>3, <1>5 DEF CInv, FibreInv
<1>. QED
  BY <1>2, <1>6, <1>7, <1>8 DEF CInv, FibreInv

(* What the fibres do after the process has died. *)
LEMMA CrashTodo ==
  ASSUME Crash
  PROVE  /\ todo' \in [Fibres -> Seq(Step)]
         /\ \A t \in Fibres, i \in Nat : i \in DOMAIN todo'[t] =>
              todo'[t][i].obj = 0 /\ todo'[t][i].do \in Overall
<1> DEFINE b == <<S("sweep", 0)>> \o Rebalance \o <<S("resume", 0)>>
           Over == [do : Overall, obj : {0}]
<1>1. b \in Seq(Over)
  <2>1. S("sweep", 0) \in Over /\ S("rebalance", 0) \in Over /\ S("resume", 0) \in Over
    BY DEF S, Overall
  <2>2. <<S("sweep", 0)>> \in Seq(Over) /\ Rebalance \in Seq(Over) /\ <<S("resume", 0)>> \in Seq(Over)
    BY <2>1 DEF Rebalance
  <2>. HIDE DEF Over
  <2>. QED
    BY <2>2
<1>2. todo' = [t \in Fibres |-> IF t = Boot THEN b ELSE <<>>]
  BY DEF Crash
<1>. HIDE DEF b
<1>3. todo' \in [Fibres -> Seq(Over)]
  BY <1>1, <1>2
<1>4. Seq(Over) \subseteq Seq(Step)
  <2>1. Over \subseteq Step
    BY DEF Step
  <2>. HIDE DEF Over
  <2>. QED
    BY <2>1
<1>5. ASSUME NEW t \in Fibres, NEW i \in DOMAIN todo'[t]
      PROVE  todo'[t][i] \in Over
  <2>1. todo'[t] \in Seq(Over)
    BY <1>3
  <2>. HIDE DEF Over
  <2>. QED
    BY <2>1, <1>5
<1>. QED
  BY <1>3, <1>4, <1>5

(* The death of the process leaves no fibre that names an objective. *)
LEMMA CrashKeepsFibres ==
  ASSUME CInv, Crash
  PROVE  CInv'
<1>1. /\ todo' \in [Fibres -> Seq(Step)]
      /\ \A t \in Fibres, i \in Nat : i \in DOMAIN todo'[t] =>
           todo'[t][i].obj = 0 /\ todo'[t][i].do \in Overall
  BY CrashTodo
<1>2. /\ UNCHANGED <<objs, begun, queued, unfinished, owed, doubled, lost>>
      /\ lock' = [o \in Objectives |-> None]
      /\ serving' = [t \in Workers |-> 0]
      /\ orphans' = orphans \cup {o \in Objectives : \E t \in Workers : serving[t] = o}
      /\ Call
  BY DEF Crash, history
<1>3. calls' \in 0..MaxCalls
  BY <1>2, ControlAssumption DEF Call, CInv, ControlTypeOK
<1>4. ControlTypeOK'
  BY <1>1, <1>2, <1>3 DEF CInv, ControlTypeOK
<1>5. ASSUME NEW t \in Fibres, NEW i \in DOMAIN todo'[t]
      PROVE  i \in Nat /\ todo'[t][i].obj = 0 /\ todo'[t][i].do \in Overall
  BY <1>1, <1>5
<1>6. ASSUME NEW t \in Fibres
      PROVE  Ordered(todo'[t])
  <2>1. todo'[t] \in Seq(Step) /\ Len(todo'[t]) \in Nat /\ DOMAIN todo'[t] = 1..Len(todo'[t])
    BY <1>1
  <2>2. \A i \in DOMAIN todo'[t] : todo'[t][i].do \in Overall
    BY <1>5
  <2>. QED
    BY <2>1, <2>2 DEF Ordered, Overall, Promises
<1>7. \A p \in Objectives : Made(p)' = Made(p)
  BY <1>2 DEF Made
<1>8. ASSUME NEW p \in Objectives, ~Made(p)
      PROVE  Unnamed(p)'
  <2>1. Unnamed(p) /\ p # 0
    BY <1>8 DEF CInv, FibreInv, Objectives
  <2>2. ASSUME NEW u \in Fibres, NEW i \in DOMAIN todo'[u], todo'[u][i].obj = p
        PROVE  FALSE
    BY <1>5, <2>1, <2>2
  <2>. QED
    BY <1>2, <2>1, <2>2 DEF Unnamed
<1>9. ASSUME NEW p \in Objectives, NEW u \in Fibres
      PROVE  ~Begins(u, p)'
  <2>1. SUFFICES ASSUME todo'[u] # <<>> PROVE todo'[u][1].obj # p
    BY DEF Begins, At
  <2>2. 1 \in DOMAIN todo'[u]
    BY <1>1, <2>1
  <2>. QED
    BY <1>5, <2>2 DEF Objectives
<1>10. \A p \in Objectives : ~Made(p)' => Unnamed(p)'
  BY <1>7, <1>8
<1>11. \A p \in Objectives : Made(p)' => p \in begun'
  BY <1>2, <1>7 DEF CInv, FibreInv
<1>. QED
  BY <1>4, <1>6, <1>9, <1>10, <1>11 DEF CInv, FibreInv

(* The invariant about fibres holds at the start. *)
LEMMA InitFibres ==
  ASSUME ControlInit
  PROVE  CInv
<1>1. ControlTypeOK
  <2>1. objs \in [Objectives -> Objective]
    BY DEF ControlInit, NoObjective, Objective, Phases
  <2>2. todo \in [Fibres -> Seq(Step)] /\ lock \in [Objectives -> Fibres \cup {None}]
    BY DEF ControlInit
  <2>3. queued \in [Objectives -> Nat] /\ serving \in [Workers -> Objectives \cup {0}]
    BY DEF ControlInit
  <2>4. calls \in 0..MaxCalls
    BY ControlAssumption DEF ControlInit
  <2>. QED
    BY <2>1, <2>2, <2>3, <2>4 DEF ControlInit, ControlTypeOK
<1>2. \A t \in Fibres : todo[t] = <<>> /\ Ordered(todo[t])
  BY DEF ControlInit, Ordered
<1>3. \A o \in Objectives : ~Made(o) /\ Unnamed(o)
  BY <1>2 DEF ControlInit, Made, NoObjective, Unnamed, Objectives
<1>4. \A o \in Objectives, t \in Fibres : ~Begins(t, o)
  BY <1>2 DEF Begins, At
<1>. QED
  BY <1>1, <1>2, <1>3, <1>4 DEF CInv, FibreInv

(* Every step keeps the invariant about fibres. *)
LEMMA NextKeepsFibres ==
  ASSUME CInv, [ControlNext]_vars
  PROVE  CInv'
<1>1. CASE UNCHANGED vars
  BY <1>1 DEF vars, ledger, history, CInv, ControlTypeOK, FibreInv, Ordered, Unnamed, Made, Begins, At
<1>2. ASSUME NEW t \in Fibres, DoesStep(t)
      PROVE  CInv'
  BY <1>2, StepKeepsFibres
<1>. QED
  BY <1>1, <1>2, LeaseKeepsFibres, ExpireKeepsFibres, CrashKeepsFibres, CallsKeepFibres
  DEF ControlNext, Inside

(* In a fibre only the first step creates, hires or posts, only calm steps *)
(* come before the promise of a slot, and fibres, jobs and workflows name  *)
(* only objectives that createObjective has emitted.                       *)
THEOREM ControlInvariant == ControlSpec => []CInv
<1>1. ControlInit => CInv
  BY InitFibres
<1>2. CInv /\ [ControlNext]_vars => CInv'
  BY NextKeepsFibres
<1>. QED
  BY <1>1, <1>2, PTL DEF ControlSpec

(* Every variable of the control plane keeps its type. *)
THEOREM ControlTypes == ControlSpec => []ControlTypeOK
<1>1. CInv => ControlTypeOK
  BY DEF CInv
<1>. QED
  BY <1>1, ControlInvariant, PTL

(* Who is about to hire holds the promise of the objective, and between the *)
(* look for a job and the post there is none.                               *)
HiresAlone ==
  \A o \in Objectives, t \in Fibres :
    /\ At(t, "hire", o) \/ At(t, "post", o) => lock[o] = t
    /\ At(t, "post", o) => ~Active(o)

(* The jobs of an objective, without counting. *)
OneJob(o) ==
  /\ queued[o] <= 1
  /\ o \in orphans => queued[o] = 0
  /\ \A t \in Workers : serving[t] = o =>
       /\ queued[o] = 0 /\ o \notin orphans
       /\ \A u \in Workers : serving[u] = o => u = t

JInv == CInv /\ HiresAlone /\ \A o \in Objectives : OneJob(o)

(* A step that changes no promise and adds no job. *)
Shrinks == /\ UNCHANGED lock
           /\ \A o \in Objectives : queued'[o] <= queued[o]
           /\ orphans' \subseteq orphans
           /\ \A w \in Workers : serving'[w] \in {0, serving[w]}

(* A fibre whose first step is another one is not hiring. *)
LEMMA NoneHires ==
  ASSUME NEW t \in Fibres, NEW o,
         todo'[t] # <<>> => todo'[t][1].do \notin {"hire", "post"}
  PROVE  ~At(t, "hire", o)' /\ ~At(t, "post", o)'
BY DEF At

(* Who adds no job and takes no promise cannot make a second job. *)
LEMMA ShrinkKeepsJobs ==
  ASSUME JInv, CInv', Shrinks,
         \A u \in Fibres : \/ todo'[u] = todo[u]
                           \/ todo'[u] # <<>> => todo'[u][1].do \notin {"hire", "post"}
  PROVE  JInv'
<1>1. \A o \in Objectives : queued[o] \in Nat /\ queued'[o] \in Nat /\ o # 0
  <2>1. ControlTypeOK /\ ControlTypeOK'
    BY DEF JInv, CInv
  <2>. QED
    BY <2>1 DEF ControlTypeOK, Objectives
<1>2. ASSUME NEW o \in Objectives, Active(o)'
      PROVE  Active(o)
  BY <1>1, <1>2 DEF Active, Shrinks
<1>3. ASSUME NEW o \in Objectives, NEW t \in Fibres
      PROVE  /\ At(t, "hire", o)' => At(t, "hire", o)
             /\ At(t, "post", o)' => At(t, "post", o)
  <2>1. CASE todo'[t] = todo[t]
    BY <2>1 DEF At
  <2>2. CASE todo'[t] # <<>> => todo'[t][1].do \notin {"hire", "post"}
    BY <2>2, NoneHires
  <2>. QED
    BY <2>1, <2>2
<1>4. ASSUME NEW o \in Objectives, NEW t \in Fibres
      PROVE  /\ At(t, "hire", o)' \/ At(t, "post", o)' => lock'[o] = t
             /\ At(t, "post", o)' => ~Active(o)'
  BY <1>2, <1>3 DEF Shrinks, JInv, HiresAlone
<1>5. ASSUME NEW o \in Objectives
      PROVE  OneJob(o)'
  BY <1>1 DEF Shrinks, JInv, OneJob
<1>6. HiresAlone'
  BY <1>4 DEF HiresAlone
<1>. QED
  BY <1>5, <1>6 DEF JInv

(* The head of the fibre after a step of it. *)
LEMMA HeadAfter ==
  ASSUME CInv, NEW t \in Fibres, DoesStep(t), todo'[t] # <<>>,
         todo'[t][1].do \in {"hire", "post"}
  PROVE  /\ todo'[t][1].do = "hire" => todo[t][1].do = "ask" /\ todo'[t][1].obj = todo[t][1].obj
         /\ todo'[t][1].do = "post" => todo[t][1].do = "hire" /\ todo'[t][1].obj = todo[t][1].obj
BY StepAdvances DEF Advanced, NewStep

(* The wake is asked for under the promise of the objective, which was     *)
(* free.                                                                   *)
LEMMA AskKeepsJobs ==
  ASSUME JInv, CInv', NEW t \in Fibres, DoesStep(t), NEW o \in Objectives, Ask(t, o)
  PROVE  JInv'
<1>1. /\ lock[o] = None /\ lock' = [lock EXCEPT ![o] = t] /\ UNCHANGED <<queued, serving, orphans>>
      /\ At(t, "ask", o)
  BY DEF Ask, LockFree, ledger
<1>2. Advanced(t)
  BY StepAdvances DEF JInv
<1>3. /\ lock'[o] = t /\ \A p \in Objectives \ {o} : lock'[p] = lock[p]
  BY <1>1 DEF JInv, CInv, ControlTypeOK
<1>4. \A p \in Objectives : Active(p)' = Active(p) /\ OneJob(p)' = OneJob(p)
  BY <1>1 DEF Active, OneJob
<1>5. \A u \in Fibres : u # None
  BY ControlAssumption DEF Fibres
<1>6. ASSUME NEW p \in Objectives, NEW u \in Fibres
      PROVE  /\ At(u, "hire", p)' \/ At(u, "post", p)' => lock'[p] = u
             /\ At(u, "post", p)' => ~Active(p)'
  <2>1. CASE u = t
    BY <1>1, <1>3, <2>1, HeadAfter DEF At, JInv
  <2>2. CASE u # t
    <3>1. At(u, "hire", p)' = At(u, "hire", p) /\ At(u, "post", p)' = At(u, "post", p)
      BY <1>2, <2>2 DEF Advanced, At
    <3>2. At(u, "hire", p) \/ At(u, "post", p) => lock[p] = u /\ p # o
      BY <1>1, <1>5 DEF JInv, HiresAlone
    <3>. QED
      BY <1>3, <1>4, <3>1, <3>2 DEF JInv, HiresAlone
  <2>. QED
    BY <2>1, <2>2
<1>7. HiresAlone'
  BY <1>6 DEF HiresAlone
<1>. QED
  BY <1>4, <1>7 DEF JInv

(* The look for a job either gives the promise back or leads to the post   *)
(* with no job there.                                                      *)
LEMMA HireKeepsJobs ==
  ASSUME JInv, CInv', NEW t \in Fibres, DoesStep(t), NEW o \in Objectives, Hire(t, o)
  PROVE  JInv'
<1>1. /\ At(t, "hire", o) /\ UNCHANGED <<queued, serving, orphans>>
      /\ IF Active(o) THEN Then(t, <<>>) /\ Unlock(o)
         ELSE Then(t, <<S("post", o)>>) /\ UNCHANGED lock
  BY DEF Hire, ledger
<1>2. Advanced(t) /\ todo[t] # <<>> /\ todo[t] \in Seq(Step) /\ Ordered(todo[t])
  BY StepAdvances DEF JInv, CInv, FibreInv
<1>3. lock[o] = t
  BY <1>1 DEF JInv, HiresAlone
<1>4. \A p \in Objectives : Active(p)' = Active(p) /\ OneJob(p)' = OneJob(p)
  BY <1>1 DEF Active, OneJob
<1>5. \A u \in Fibres \ {t}, p \in Objectives :
        /\ At(u, "hire", p)' = At(u, "hire", p) /\ At(u, "post", p)' = At(u, "post", p)
        /\ At(u, "hire", p) \/ At(u, "post", p) => lock[p] = u /\ p # o
  BY <1>2, <1>3 DEF Advanced, At, JInv, HiresAlone
<1>6. CASE Active(o)
  <2>1. todo' = [todo EXCEPT ![t] = <<>> \o Tail(todo[t])] /\ lock' = [lock EXCEPT ![o] = None]
    BY <1>1, <1>6 DEF Then, Unlock
  <2>2. todo'[t] = Tail(todo[t])
    BY <1>2, <2>1 DEF JInv, CInv, ControlTypeOK
  <2>3. todo'[t] # <<>> => todo'[t][1].do \notin {"hire", "post"}
    BY <1>2, <2>2 DEF Ordered
  <2>4. \A p \in Objectives : ~At(t, "hire", p)' /\ ~At(t, "post", p)'
    BY <2>3, NoneHires
  <2>5. \A p \in Objectives \ {o} : lock'[p] = lock[p]
    BY <2>1 DEF JInv, CInv, ControlTypeOK
  <2>6. HiresAlone'
    BY <1>4, <1>5, <2>4, <2>5 DEF HiresAlone, JInv
  <2>. QED
    BY <1>4, <2>6 DEF JInv
<1>7. CASE ~Active(o)
  <2>1. UNCHANGED lock
    BY <1>1, <1>7
  <2>2. ASSUME NEW p \in Objectives, At(t, "hire", p)' \/ At(t, "post", p)'
        PROVE  p = o
    BY <1>1, <2>2, HeadAfter DEF At, JInv
  <2>3. HiresAlone'
    BY <1>3, <1>4, <1>5, <1>7, <2>1, <2>2 DEF HiresAlone, JInv
  <2>. QED
    BY <1>4, <2>3 DEF JInv
<1>. QED
  BY <1>6, <1>7

(* The post makes the only job, because nobody else could post since the   *)
(* look.                                                                   *)
LEMMA PostKeepsJobs ==
  ASSUME JInv, CInv', NEW t \in Fibres, DoesStep(t), NEW o \in Objectives, Post(t, o)
  PROVE  JInv'
<1>1. /\ At(t, "post", o) /\ UNCHANGED <<serving, orphans>>
      /\ queued' = [queued EXCEPT ![o] = @ + 1] /\ lock' = [lock EXCEPT ![o] = None]
  BY DEF Post, Unlock
<1>2. Advanced(t)
  BY StepAdvances DEF JInv
<1>3. lock[o] = t /\ ~Active(o)
  BY <1>1 DEF JInv, HiresAlone
<1>4. queued'[o] = queued[o] + 1 /\ queued[o] = 0 /\ \A p \in Objectives \ {o} : queued'[p] = queued[p]
  BY <1>1, <1>3 DEF JInv, CInv, ControlTypeOK, Active
<1>5. \A p \in Objectives \ {o} : /\ Active(p)' = Active(p) /\ OneJob(p)' = OneJob(p)
                                  /\ lock'[p] = lock[p]
  BY <1>1, <1>4 DEF Active, OneJob, JInv, CInv, ControlTypeOK
<1>6. OneJob(o)'
  BY <1>1, <1>3, <1>4 DEF OneJob, Active
<1>7. \A u \in Fibres \ {t}, p \in Objectives :
        /\ At(u, "hire", p)' = At(u, "hire", p) /\ At(u, "post", p)' = At(u, "post", p)
        /\ At(u, "hire", p) \/ At(u, "post", p) => lock[p] = u /\ p # o
  BY <1>2, <1>3 DEF Advanced, At, JInv, HiresAlone
<1>8. \A p \in Objectives : ~At(t, "hire", p)' /\ ~At(t, "post", p)'
  BY <1>1, HeadAfter DEF At, JInv
<1>9. HiresAlone'
  BY <1>5, <1>7, <1>8 DEF HiresAlone, JInv
<1>. QED
  BY <1>5, <1>6, <1>9 DEF JInv

(* A step of a fibre keeps the control jobs single. *)
LEMMA StepKeepsJobs ==
  ASSUME JInv, CInv', NEW t \in Fibres, DoesStep(t)
  PROVE  JInv'
<1> DEFINE h == todo[t][1]
<1>1. Advanced(t) /\ Effects(t) /\ todo[t] # <<>>
  BY StepAdvances DEF JInv
<1>2. h.do \notin Overall => h.obj \in Objectives
  BY <1>1, HeadIsStep DEF JInv, CInv
<1>3. CASE h.do \in Enqueuing
  <2>1. h.obj \in Objectives
    BY <1>2, <1>3 DEF Enqueuing, Overall
  <2>. QED
    BY <1>1, <1>3, <2>1, AskKeepsJobs, HireKeepsJobs, PostKeepsJobs DEF Effects, LockEffect
<1>4. CASE h.do \notin Enqueuing
  <2>1. UNCHANGED lock
    BY <1>1, <1>4 DEF Effects, LockEffect, Enqueuing
  <2>2. Shrinks
    <3>1. CASE UNCHANGED ledger
      BY <2>1, <3>1 DEF Shrinks, ledger, JInv, CInv, ControlTypeOK
    <3>2. CASE h.do = "end" /\ EndJob(t, h.obj)
      BY <2>1, <3>2 DEF Shrinks, EndJob, JInv, CInv, ControlTypeOK
    <3>3. ASSUME NEW targets \in SUBSET Objectives, Drop(targets)
          PROVE  Shrinks
      BY <2>1, <3>3 DEF Shrinks, Drop, JInv, CInv, ControlTypeOK
    <3>. QED
      BY <1>1, <1>4, <3>1, <3>2, <3>3 DEF Effects, LedgerEffect, Enqueuing
  <2>3. \A u \in Fibres : \/ todo'[u] = todo[u]
                          \/ todo'[u] # <<>> => todo'[u][1].do \notin {"hire", "post"}
    <3>1. todo'[t] # <<>> => todo'[t][1].do \notin {"hire", "post"}
      BY <1>1, <1>4 DEF Advanced, NewStep, Enqueuing
    <3>. QED
      BY <1>1, <3>1 DEF Advanced
  <2>. QED
    BY <2>2, <2>3, ShrinkKeepsJobs
<1>. QED
  BY <1>3, <1>4

(* A lease takes the only job. *)
LEMMA LeaseKeepsJobs ==
  ASSUME JInv, CInv', NEW t \in Workers, NEW o \in Objectives, Lease(t, o)
  PROVE  JInv'
<1>1. /\ UNCHANGED <<lock, orphans>>
      /\ queued[o] > 0 /\ queued' = [queued EXCEPT ![o] = @ - 1]
      /\ serving' = [serving EXCEPT ![t] = o] /\ Start(t, <<S("pass1", o)>>)
  BY DEF Lease
<1>2. /\ queued[o] = 1 /\ o \notin orphans /\ \A w \in Workers : serving[w] # o
      /\ queued'[o] = 0 /\ \A p \in Objectives \ {o} : queued'[p] = queued[p]
      /\ serving'[t] = o /\ \A w \in Workers \ {t} : serving'[w] = serving[w]
  BY <1>1 DEF JInv, OneJob, CInv, ControlTypeOK
<1>3. todo' = [todo EXCEPT ![t] = <<S("pass1", o)>>] /\ t \in Fibres
  BY <1>1 DEF Start, Fibres
<1>4. ASSUME NEW u \in Fibres, NEW p \in Objectives
      PROVE  /\ At(u, "hire", p)' => At(u, "hire", p)
             /\ At(u, "post", p)' => At(u, "post", p)
  BY <1>3 DEF At, S, JInv, CInv, ControlTypeOK
<1>5. ASSUME NEW p \in Objectives, Active(p)'
      PROVE  Active(p)
  BY <1>1, <1>2, <1>5 DEF Active
<1>6. ASSUME NEW p \in Objectives
      PROVE  OneJob(p)'
  <2>1. CASE p = o
    BY <1>1, <1>2, <2>1 DEF OneJob
  <2>2. CASE p # o
    <3>1. OneJob(p) /\ queued'[p] = queued[p] /\ orphans' = orphans
      BY <1>1, <1>2, <2>2 DEF JInv
    <3>2. \A w \in Workers : serving'[w] = p => serving[w] = p
      BY <1>2, <2>2
    <3>. QED
      BY <3>1, <3>2 DEF OneJob
  <2>. QED
    BY <2>1, <2>2
<1>7. HiresAlone'
  BY <1>1, <1>4, <1>5 DEF HiresAlone, JInv
<1>. QED
  BY <1>6, <1>7 DEF JInv

(* A lease that expires turns the leased job into the queued one. *)
LEMMA ExpireKeepsJobs ==
  ASSUME JInv, CInv', NEW o \in Objectives, ExpireLease(o)
  PROVE  JInv'
<1>1. /\ UNCHANGED <<todo, lock, serving>> /\ o \in orphans /\ orphans' = orphans \ {o}
      /\ queued' = [queued EXCEPT ![o] = @ + 1]
  BY DEF ExpireLease
<1>2. /\ queued[o] = 0 /\ queued'[o] = 1 /\ (\A w \in Workers : serving[w] # o)
      /\ \A p \in Objectives \ {o} : queued'[p] = queued[p]
  BY <1>1 DEF JInv, OneJob, CInv, ControlTypeOK
<1>3. \A p \in Objectives : Active(p)' => Active(p)
  BY <1>1, <1>2 DEF Active
<1>4. \A p \in Objectives : OneJob(p)'
  BY <1>1, <1>2 DEF JInv, OneJob
<1>5. HiresAlone'
  BY <1>1, <1>3 DEF HiresAlone, At, JInv
<1>. QED
  BY <1>4, <1>5 DEF JInv

(* A crash takes the promises and the fibres with it; a job in progress is *)
(* left leased.                                                            *)
LEMMA CrashKeepsJobs ==
  ASSUME JInv, CInv', Crash
  PROVE  JInv'
<1>1. \A t \in Fibres, i \in Nat : i \in DOMAIN todo'[t] => todo'[t][i].do \in Overall
  BY CrashTodo
<1>2. ASSUME NEW t \in Fibres, todo'[t] # <<>>
      PROVE  todo'[t][1].do \notin {"hire", "post"}
  <2>1. 1 \in DOMAIN todo'[t]
    BY <1>2, CrashTodo
  <2>. QED
    BY <1>1, <2>1 DEF Overall
<1>3. HiresAlone'
  BY <1>2, NoneHires DEF HiresAlone
<1>4. /\ UNCHANGED queued /\ serving' = [t \in Workers |-> 0]
      /\ orphans' = orphans \cup {o \in Objectives : \E t \in Workers : serving[t] = o}
  BY DEF Crash
<1>5. \A o \in Objectives : OneJob(o)'
  BY <1>4 DEF JInv, OneJob, Objectives
<1>. QED
  BY <1>3, <1>5 DEF JInv

(* A call starts a fibre and touches no job. *)
LEMMA CallsKeepJobs ==
  ASSUME JInv, CInv', NEW t \in Fibres, Calls(t)
  PROVE  JInv'
<1>1. UNCHANGED <<lock, queued, serving, orphans>>
  BY DEF Calls, Create, CallReact, CallCancel, CallArchive, ledger
<1>2. Shrinks
  BY <1>1 DEF Shrinks, JInv, CInv, ControlTypeOK
<1>3. PICK o \in Objectives : \E s : Start(t, s) /\ (Plain(s, o) \/ Creating(s, o))
  <2>1. PICK o \in Objectives : \/ \E now \in BOOLEAN : Create(t, o, now)
                                \/ CallReact(t, o) \/ CallCancel(t, o) \/ CallArchive(t, o)
    BY DEF Calls
  <2>2. \A now \in BOOLEAN : Create(t, o, now) => \E s : Creating(s, o) /\ Start(t, s)
    BY CreateList
  <2>. QED
    BY <2>1, <2>2, CallLists
<1>a. PICK s : Start(t, s) /\ (Plain(s, o) \/ Creating(s, o))
  BY <1>3
<1>4. s # <<>> => s[1].do \notin {"hire", "post"}
  BY <1>a, PlainOrdered DEF Creating, S
<1>5. todo' = [todo EXCEPT ![t] = s] /\ todo'[t] = s
  BY <1>a DEF Start, JInv, CInv, ControlTypeOK
<1>6. \A u \in Fibres : \/ todo'[u] = todo[u]
                        \/ todo'[u] # <<>> => todo'[u][1].do \notin {"hire", "post"}
  BY <1>4, <1>5 DEF JInv, CInv, ControlTypeOK
<1>. QED
  BY <1>2, <1>6, ShrinkKeepsJobs

(* Every step keeps the control jobs single. *)
LEMMA NextKeepsJobs ==
  ASSUME JInv, [ControlNext]_vars
  PROVE  JInv'
<1>. CInv'
  BY NextKeepsFibres DEF JInv
<1>1. CASE UNCHANGED vars
  BY <1>1 DEF vars, ledger, JInv, HiresAlone, OneJob, At, Active
<1>2. ASSUME NEW t \in Fibres, DoesStep(t)
      PROVE  JInv'
  BY <1>2, StepKeepsJobs
<1>. QED
  BY <1>1, <1>2, LeaseKeepsJobs, ExpireKeepsJobs, CrashKeepsJobs, CallsKeepJobs
  DEF ControlNext, Inside

(* There are no jobs at the start. *)
LEMMA InitJobs ==
  ASSUME ControlInit
  PROVE  JInv
<1>1. CInv
  BY InitFibres
<1>2. HiresAlone
  BY DEF ControlInit, HiresAlone, At
<1>3. \A o \in Objectives : OneJob(o)
  BY DEF ControlInit, OneJob, Objectives
<1>. QED
  BY <1>1, <1>2, <1>3 DEF JInv

(* OneJob counts to one at most. *)
LEMMA CountOne ==
  ASSUME CInv, NEW o \in Objectives, OneJob(o)
  PROVE  Jobs(o) <= 1
<1> DEFINE W == {t \in Workers : serving[t] = o}
<1>1. queued[o] \in Nat
  BY DEF CInv, ControlTypeOK
<1>2. CASE W = {}
  <2>1. Cardinality(W) = 0
    BY <1>2, FS_EmptySet
  <2>. QED
    BY <1>1, <2>1 DEF Jobs, OneJob
<1>3. CASE W # {}
  <2>1. PICK t \in W : TRUE
    BY <1>3
  <2>2. W = {t}
    BY <2>1 DEF OneJob
  <2>3. Cardinality(W) = 1
    BY <2>2, FS_Singleton
  <2>4. queued[o] = 0 /\ o \notin orphans
    BY <2>1 DEF OneJob
  <2>. QED
    BY <2>3, <2>4 DEF Jobs
<1>. QED
  BY <1>2, <1>3

(* Whoever asks, and however calls, workers, cancels, crashes and expired  *)
(* leases interleave, at most one control job of an objective is queued,   *)
(* leased or running: enqueueObjectiveControl looks and posts under one    *)
(* promise.                                                                *)
THEOREM ControlJobsAreSingle == ControlSpec => []ControlJobIsSingle
<1>1. ControlInit => JInv
  BY InitJobs
<1>2. JInv /\ [ControlNext]_vars => JInv'
  BY NextKeepsJobs
<1>3. JInv => ControlJobIsSingle
  BY CountOne DEF JInv, ControlJobIsSingle
<1>. QED
  BY <1>1, <1>2, <1>3, PTL DEF ControlSpec

Promise(t) == \E i \in DOMAIN todo[t] : todo[t][i].do \in Promises
Granted == {o \in Objectives : \E t \in Fibres : \E i \in DOMAIN todo[t] :
              todo[t][i].do \in Promises /\ todo[t][i].obj = o}

(* Who holds a slot and who has been promised one are together no more     *)
(* than there are slots, and one fibre at most holds promises.             *)
NotOverbooked ==
  /\ Cardinality(Holders \cup Granted) <= Concurrency
  /\ \A t, u \in Fibres : Promise(t) /\ Promise(u) => t = u
SInv == CInv /\ (doubled \/ NotOverbooked)

(* The holders of slots are finitely many objectives. *)
LEMMA HoldersBound ==
  /\ Holders \subseteq Objectives /\ IsFiniteSet(Holders) /\ Cardinality(Holders) \in Nat
  /\ Cardinality({}) = 0
BY ObjectivesFinite, FS_EmptySet DEF Holders

(* A smaller set of objectives counts less. *)
LEMMA FewerCount ==
  ASSUME NEW A \in SUBSET Objectives, NEW B \in SUBSET A
  PROVE  Cardinality(B) <= Cardinality(A) /\ Cardinality(A) \in Nat /\ Cardinality(B) \in Nat
BY ObjectivesFinite, FS_Subset

(* A nonempty set of numbers has a least one. *)
LEMMA Least ==
  ASSUME NEW D, D \subseteq Nat, D # {}
  PROVE  \E d \in D : \A e \in D : d <= e
<1>1. PICK d \in D : \A e \in D : ~(<<e, d>> \in OpToRel(<, Nat))
  BY NatLessThanWellFounded, WFMin
<1>2. \A e \in D : ~(e < d)
  BY <1>1 DEF OpToRel
<1>. QED
  BY <1>2

(* A set of objectives has a newest. *)
LEMMA Newest ==
  ASSUME NEW A \in SUBSET Objectives, A # {}
  PROVE  \E m \in A : \A o \in A : o <= m
<1> DEFINE Down == {MaxObjectives - o : o \in A}
<1>1. MaxObjectives \in Nat /\ A \subseteq 1..MaxObjectives
  BY ControlAssumption DEF Objectives
<1>2. \A o \in A : o \in Nat /\ MaxObjectives - o \in Nat
  BY <1>1
<1>3. Down \subseteq Nat /\ Down # {}
  BY <1>2
<1>4. PICK d \in Down : \A e \in Down : d <= e
  BY <1>3, Least
<1>5. PICK m \in A : d = MaxObjectives - m
  OBVIOUS
<1>6. ASSUME NEW o \in A
      PROVE  o <= m
  <2>1. MaxObjectives - m <= MaxObjectives - o
    BY <1>4, <1>5
  <2>. QED
    BY <1>1, <1>2, <2>1
<1>. QED
  BY <1>6

(* rebalanceObjectiveSlots promises no more than the free slots. *)
LEMMA AdmitBound ==
  ASSUME ToAdmit # {}
  PROVE  Cardinality(Holders \cup ToAdmit) <= Concurrency
<1>1. ToAdmit \in SUBSET Objectives
  BY DEF ToAdmit
<1>2. PICK m \in ToAdmit : \A o \in ToAdmit : o <= m
  BY <1>1, Newest
<1> DEFINE ahead == {p \in 1..(m - 1) : Waits(p)}
<1>3. m \in Objectives /\ ~Full(ahead)
  BY <1>2 DEF ToAdmit
<1>4. ahead \in SUBSET Objectives /\ ToAdmit \subseteq ahead \cup {m}
  BY <1>1, <1>2, ControlAssumption DEF ToAdmit, Objectives
<1>. HIDE DEF ahead
<1>5. /\ IsFiniteSet(ahead) /\ Cardinality(ahead) \in Nat
      /\ IsFiniteSet(Holders) /\ Cardinality(Holders) \in Nat /\ Holders \subseteq Objectives
  BY <1>4, ObjectivesFinite, HoldersBound
<1>6. Cardinality(Holders \cup ahead) <= Cardinality(Holders) + Cardinality(ahead)
  <2>1. /\ Cardinality(Holders \cup ahead)
           = Cardinality(Holders) + Cardinality(ahead) - Cardinality(Holders \cap ahead)
        /\ Cardinality(Holders \cap ahead) \in Nat
    BY <1>5, FS_Union, FS_Intersection, FS_CardinalityType
  <2>. QED
    BY <1>5, <2>1
<1>7. IsFiniteSet(Holders \cup ahead) /\ Cardinality(Holders \cup ahead) \in Nat
  BY <1>4, <1>5, ObjectivesFinite
<1>8. Cardinality((Holders \cup ahead) \cup {m}) <= Cardinality(Holders \cup ahead) + 1
  BY <1>7, FS_AddElement
<1>9. Cardinality(Holders) + Cardinality(ahead) < Concurrency
  BY <1>3, <1>5, ControlAssumption DEF Full
<1>10. /\ Cardinality(Holders \cup ToAdmit) <= Cardinality((Holders \cup ahead) \cup {m})
       /\ Cardinality(Holders \cup ToAdmit) \in Nat
       /\ Cardinality((Holders \cup ahead) \cup {m}) \in Nat
  <2>1. (Holders \cup ahead) \cup {m} \in SUBSET Objectives
    BY <1>3, <1>4, <1>5
  <2>2. Holders \cup ToAdmit \in SUBSET ((Holders \cup ahead) \cup {m})
    BY <1>4
  <2>. QED
    BY <2>1, <2>2, FewerCount
<1>. QED
  BY <1>5, <1>6, <1>7, <1>8, <1>9, <1>10, ControlAssumption

(* Less is not overbooked either. *)
LEMMA LessKeepsSlots ==
  ASSUME NotOverbooked, Holders' \cup Granted' \subseteq Holders \cup Granted,
         \A u \in Fibres : Promise(u)' => Promise(u)
  PROVE  NotOverbooked'
<1>1. Holders \cup Granted \in SUBSET Objectives
  BY DEF Holders, Granted
<1>2. /\ Cardinality(Holders' \cup Granted') <= Cardinality(Holders \cup Granted)
      /\ Cardinality(Holders \cup Granted) \in Nat /\ Cardinality(Holders' \cup Granted') \in Nat
  BY <1>1, FewerCount
<1>3. Cardinality(Holders' \cup Granted') <= Concurrency
  BY <1>2, ControlAssumption DEF NotOverbooked
<1>. QED
  BY <1>3 DEF NotOverbooked

(* The objectives that hold a slot after a step of a fibre: an objective   *)
(* more has been promised its slot, or has opened again.                   *)
LEMMA HoldersAfter ==
  ASSUME CInv, NEW t \in Fibres, DoesStep(t), ~doubled'
  PROVE  Holders' \subseteq Holders \cup Granted
<1> DEFINE h == todo[t][1]
<1>1. Effects(t) /\ todo[t] # <<>> /\ todo[t] \in Seq(Step)
  BY StepAdvances
<1>2. h.do \notin Overall => h.obj \in Objectives
  BY <1>1, HeadIsStep DEF CInv
<1>3. ObjsEffect(h) /\ objs \in [Objectives -> Objective]
  BY <1>1 DEF Effects, CInv, ControlTypeOK
<1>4. h.do # "create" /\ h.obj \in Objectives => Made(h.obj)
  BY <1>1, HeadMade
<1>5. h.obj \in Objectives /\ ~Made(h.obj) => objs[h.obj].slot # "active"
  BY DEF CInv, FibreInv, Unnamed
<1>6. h.do \in Promises /\ h.obj \in Objectives => h.obj \in Granted
  BY <1>1 DEF Granted
<1>7. h.do = "create" => ~Made(h.obj)
  <2>1. h.do = "create" => h.obj \in Objectives /\ Begins(t, h.obj)
    BY <1>1, <1>2 DEF Begins, At, Overall
  <2>. QED
    BY <2>1 DEF CInv, FibreInv
<1>. HIDE DEF h
<1>8. ASSUME \A p \in Objectives \ {h.obj} : Kept(p),
             h.obj \in Objectives =>
               (objs'[h.obj].phase # "none" /\ ~objs'[h.obj].archived
                /\ objs'[h.obj].phase \notin {"blocked", "leaving", "done"}
                /\ objs'[h.obj].slot = "active" => h.obj \in Holders \cup Granted)
      PROVE  Holders' \subseteq Holders \cup Granted
  BY <1>8 DEF Holders, Holds, Made, Releases, Kept
<1>9. CASE \A p \in Objectives : Kept(p)
  BY <1>9 DEF Holders, Holds, Made, Releases, Kept
<1>10. CASE h.do = "create" /\ Emit(h.obj, "phase", "open")
  <2>1. h.obj \in Objectives
    BY <1>2, <1>10 DEF Overall
  <2>. QED
    BY <1>3, <1>5, <1>7, <1>8, <1>10, <2>1 DEF Emit, Kept, Objective
<1>11. CASE h.do = "queue" /\ Emit(h.obj, "slot", "queued")
  <2>1. h.obj \in Objectives
    BY <1>2, <1>11 DEF Overall
  <2>. QED
    BY <1>3, <1>8, <1>11, <2>1 DEF Emit, Kept, Objective
<1>12. CASE h.do \in Promises /\ Admit(h.obj)
  <2>1. h.obj \in Objectives
    BY <1>2, <1>12 DEF Overall, Promises
  <2>2. \A p \in Objectives \ {h.obj} : Kept(p)
    BY <1>3, <1>12, <2>1 DEF Admit, Kept, Objective
  <2>. QED
    BY <1>6, <1>8, <1>12, <2>1, <2>2
<1>13. ASSUME h.do = "work", NEW phase \in Outcomes(objs[h.obj].phase), Emit(h.obj, "phase", phase),
              doubled' = (doubled \/ (Releases(h.obj) /\ phase = "open"))
       PROVE  Holders' \subseteq Holders \cup Granted
  <2>1. h.obj \in Objectives /\ Made(h.obj)
    BY <1>2, <1>4, <1>13 DEF Overall
  <2>2. ~(Releases(h.obj) /\ phase = "open")
    BY <1>13
  <2>3. phase \in Phases \ {"none"} /\ phase # objs[h.obj].phase
    BY <1>13 DEF Outcomes
  <2>4. phase \in {"blocked", "leaving", "done"}
    BY <1>3, <2>1, <2>2, <2>3 DEF Phases, Releases, Made, Objective
  <2>5. objs'[h.obj].phase = phase /\ \A p \in Objectives \ {h.obj} : Kept(p)
    BY <1>3, <1>13, <2>1 DEF Emit, Kept, Objective
  <2>. QED
    BY <1>8, <2>4, <2>5
<1>14. CASE h.do = "cancel" /\ Emit(h.obj, "phase", "done")
  <2>1. h.obj \in Objectives
    BY <1>2, <1>14 DEF Overall
  <2>. QED
    BY <1>3, <1>8, <1>14, <2>1 DEF Emit, Kept, Objective
<1>15. CASE h.do = "archive" /\ Emit(h.obj, "archived", TRUE)
  <2>1. h.obj \in Objectives
    BY <1>2, <1>15 DEF Overall
  <2>. QED
    BY <1>3, <1>8, <1>15, <2>1 DEF Emit, Kept, Objective
<1>. QED
  BY <1>3, <1>9, <1>10, <1>11, <1>12, <1>13, <1>14, <1>15 DEF ObjsEffect

(* A step that promises nothing new. *)
LEMMA NoNewPromise ==
  ASSUME CInv, NEW t \in Fibres, DoesStep(t),
         \A i \in DOMAIN todo'[t] : todo'[t][i].do \in Promises =>
           \E j \in DOMAIN todo[t] : todo[t][j] = todo'[t][i]
  PROVE  Granted' \subseteq Granted /\ \A u \in Fibres : Promise(u)' => Promise(u)
<1>1. Advanced(t)
  BY StepAdvances
<1>2. ASSUME NEW u \in Fibres, NEW i \in DOMAIN todo'[u], todo'[u][i].do \in Promises
      PROVE  \E j \in DOMAIN todo[u] : todo[u][j] = todo'[u][i]
  BY <1>1, <1>2 DEF Advanced
<1>. QED
  BY <1>2 DEF Granted, Promise

(* A rebalance promises slots when nobody else does, and what AdmitBound   *)
(* allows.                                                                 *)
LEMMA RebalanceKeepsSlots ==
  ASSUME SInv, NEW t \in Fibres, DoesStep(t), RebalanceSlots(t), ~doubled'
  PROVE  NotOverbooked'
<1>1. Advanced(t) /\ todo[t] # <<>> /\ todo[t] \in Seq(Step) /\ Ordered(todo[t])
  BY StepAdvances DEF SInv, CInv, FibreInv
<1>2. PICK next \in Listed(ToAdmit) : Then(t, ForAll(next, "grant"))
  BY DEF RebalanceSlots
<1>3. ~doubled /\ ~(ToAdmit # {} /\ Promised(t)) /\ todo[t][1].do = "rebalance"
  BY DEF RebalanceSlots, At
<1>4. NotOverbooked
  BY <1>3 DEF SInv
<1>5. \A j \in 2..Len(todo[t]) : todo[t][j].do \notin Promises
  BY <1>1, <1>3 DEF Ordered, Calm
<1>6. ASSUME NEW i \in DOMAIN todo'[t], todo'[t][i].do \in Promises
      PROVE  todo'[t][i].obj \in ToAdmit
  BY <1>1, <1>5, <1>6 DEF Advanced, NewStep, Promises
<1>7. Holders' = Holders
  <2>1. objs' = [o \in Objectives |-> [objs[o] EXCEPT !.released = @ \/ o \in Leavers]]
    BY DEF RebalanceSlots
  <2>2. \A p \in Objectives : Kept(p)
    BY <2>1 DEF Kept, SInv, CInv, ControlTypeOK, Objective
  <2>. QED
    BY <2>2 DEF Kept, Holders, Holds, Made, Releases
<1>8. CASE ToAdmit = {}
  <2>1. Granted' \subseteq Granted /\ \A u \in Fibres : Promise(u)' => Promise(u)
    BY <1>6, <1>8, NoNewPromise DEF SInv
  <2>. QED
    BY <1>4, <1>7, <2>1, LessKeepsSlots
<1>9. CASE ToAdmit # {}
  <2>1. \A u \in Fibres \ {t} : ~Promise(u)
    BY <1>3, <1>9 DEF Promised, Promise, Promises
  <2>2. \A u \in Fibres \ {t} : ~Promise(u)'
    BY <1>1, <2>1 DEF Advanced, Promise
  <2>3. Granted' \subseteq ToAdmit
    BY <1>6, <2>2 DEF Granted, Promise
  <2>4. Cardinality(Holders \cup ToAdmit) <= Concurrency
    BY <1>9, AdmitBound
  <2>5. Holders \cup ToAdmit \in SUBSET Objectives /\ Holders' \cup Granted' \in SUBSET (Holders \cup ToAdmit)
    BY <1>7, <2>3, HoldersBound DEF ToAdmit
  <2>6. Cardinality(Holders' \cup Granted') <= Concurrency
    BY <2>4, <2>5, FewerCount, ControlAssumption
  <2>. QED
    BY <2>2, <2>6 DEF NotOverbooked
<1>. QED
  BY <1>8, <1>9

(* A step of a fibre does not overbook. *)
LEMMA StepKeepsSlots ==
  ASSUME SInv, NEW t \in Fibres, DoesStep(t), ~doubled'
  PROVE  NotOverbooked'
<1> DEFINE h == todo[t][1]
<1>. CInv
  BY DEF SInv
<1>1. Advanced(t) /\ Effects(t) /\ todo[t] # <<>> /\ todo[t] \in Seq(Step)
  BY StepAdvances
<1>2. NotOverbooked
  BY <1>1 DEF SInv, Effects
<1>3. CASE h.do # "rebalance"
  <2>1. ASSUME NEW i \in DOMAIN todo'[t], todo'[t][i].do \in Promises
        PROVE  \E j \in DOMAIN todo[t] : todo[t][j] = todo'[t][i]
    <3>1. ~NewStep(h, todo'[t][i])
      BY <1>3, <2>1 DEF NewStep, Promises
    <3>2. PICK j \in 2..Len(todo[t]) : todo'[t][i] = todo[t][j]
      BY <1>1, <3>1 DEF Advanced
    <3>3. j \in DOMAIN todo[t]
      BY <1>1
    <3>. QED
      BY <3>2, <3>3
  <2>2. Granted' \subseteq Granted /\ \A u \in Fibres : Promise(u)' => Promise(u)
    BY <2>1, NoNewPromise
  <2>3. Holders' \subseteq Holders \cup Granted
    BY HoldersAfter
  <2>. QED
    BY <1>2, <2>2, <2>3, LessKeepsSlots
<1>4. CASE h.do = "rebalance"
  <2>1. RebalanceSlots(t)
    BY <1>1, <1>4 DEF DoesStep, StepOf, Sweep, ListPending, Resume, At, EmitCreated, EmitQueued,
       EmitPlaced, EmitAdmitted, Ask, Hire, Post, Pass, Check, Look, Reread, Work, WorkConflicts,
       EndJob, DropJobs, EmitCanceled, EmitArchived, Recover
  <2>. QED
    BY <2>1, RebalanceKeepsSlots
<1>. QED
  BY <1>3, <1>4

(* createObjective promises a slot it has seen free, when nobody else      *)
(* does.                                                                   *)
LEMMA CreateKeepsSlots ==
  ASSUME SInv, NEW t \in Fibres, NEW o \in Objectives, NEW now \in BOOLEAN, Create(t, o, now),
         ~doubled'
  PROVE  NotOverbooked'
<1>1. PICK s : Creating(s, o) /\ Start(t, s) /\ (s[2] = S("place", o) => ~Full({}))
  BY CreateList
<1>2. /\ todo[t] = <<>> /\ todo'[t] = s /\ \A u \in Fibres \ {t} : todo'[u] = todo[u]
  BY <1>1 DEF Start, SInv, CInv, ControlTypeOK
<1>3. ~doubled /\ ~(~Full({}) /\ Promised(t)) /\ UNCHANGED objs
  BY DEF Create
<1>4. NotOverbooked /\ Holders' = Holders
  BY <1>3 DEF SInv, Holders, Holds, Made, Releases
<1>5. ~Promise(t)
  BY <1>2 DEF Promise
<1>6. ASSUME NEW i \in DOMAIN s, s[i].do \in Promises
      PROVE  i = 2 /\ s[2] = S("place", o) /\ s[i].obj = o
  <2>1. i \in {1, 2} \cup (3..Len(s))
    BY <1>1 DEF Creating
  <2>. QED
    BY <1>1, <1>6, <2>1 DEF Creating, S, Promises
<1>7. CASE s[2] # S("place", o)
  <2>1. ~Promise(t)'
    BY <1>2, <1>6, <1>7 DEF Promise
  <2>2. \A u \in Fibres : Promise(u)' => Promise(u)
    BY <1>2, <2>1 DEF Promise
  <2>3. Granted' \subseteq Granted
    BY <1>2, <1>6, <1>7 DEF Granted
  <2>. QED
    BY <1>4, <2>2, <2>3, LessKeepsSlots
<1>8. CASE s[2] = S("place", o)
  <2>1. ~Full({}) /\ ~Promised(t)
    BY <1>1, <1>3, <1>8
  <2>2. \A u \in Fibres \ {t} : ~Promise(u) /\ ~Promise(u)'
    BY <1>2, <2>1 DEF Promised, Promise, Promises
  <2>3. Granted' \subseteq {o}
    BY <1>2, <1>6, <2>2 DEF Granted, Promise
  <2>4. Cardinality(Holders) < Concurrency
    BY <2>1, HoldersBound, ControlAssumption DEF Full
  <2>5. Cardinality(Holders \cup {o}) <= Cardinality(Holders) + 1
    <3>1. IsFiniteSet(Holders) /\ Cardinality(Holders) \in Nat
      BY HoldersBound
    <3>. HIDE DEF Holders
    <3>2. Cardinality(Holders \cup {o}) \in {Cardinality(Holders), Cardinality(Holders) + 1}
      BY <3>1, FS_AddElement
    <3>. QED
      BY <3>1, <3>2
  <2>6. Holders \cup {o} \in SUBSET Objectives /\ Holders' \cup Granted' \in SUBSET (Holders \cup {o})
    BY <1>4, <2>3, HoldersBound
  <2>7. Cardinality(Holders' \cup Granted') <= Concurrency
    BY <2>4, <2>5, <2>6, FewerCount, HoldersBound, ControlAssumption
  <2>. QED
    BY <2>2, <2>7 DEF NotOverbooked
<1>. QED
  BY <1>7, <1>8

(* The fibres that are not creating promise nothing when they start. *)
LEMMA PlainKeepsSlots ==
  ASSUME SInv, NEW t \in Fibres, NEW s, NEW o, Plain(s, o), Start(t, s), UNCHANGED <<objs, doubled>>,
         ~doubled'
  PROVE  NotOverbooked'
<1>1. /\ todo[t] = <<>> /\ todo'[t] = s /\ \A u \in Fibres \ {t} : todo'[u] = todo[u]
  BY DEF Start, SInv, CInv, ControlTypeOK
<1>2. NotOverbooked /\ Holders' = Holders
  BY DEF SInv, Holders, Holds, Made, Releases
<1>3. \A i \in DOMAIN s : s[i].do \notin Promises
  BY DEF Plain, Promises
<1>4. Granted' \subseteq Granted /\ \A u \in Fibres : Promise(u)' => Promise(u)
  BY <1>1, <1>3 DEF Granted, Promise
<1>. QED
  BY <1>2, <1>4, LessKeepsSlots

(* No step overbooks the slots, unless it gives one away twice. *)
LEMMA NextKeepsSlots ==
  ASSUME SInv, [ControlNext]_vars
  PROVE  SInv'
<1>1. CInv'
  BY NextKeepsFibres DEF SInv
<1>2. SUFFICES ASSUME ~doubled' PROVE NotOverbooked'
  BY <1>1 DEF SInv
<1>3. CASE UNCHANGED vars
  BY <1>2, <1>3 DEF vars, history, SInv, NotOverbooked, Holders, Holds, Made, Releases, Granted, Promise
<1>4. ASSUME NEW t \in Fibres, DoesStep(t)
      PROVE  NotOverbooked'
  BY <1>2, <1>4, StepKeepsSlots
<1>5. ASSUME NEW t \in Workers, NEW o \in Objectives, Lease(t, o)
      PROVE  NotOverbooked'
  <2>1. Plain(<<S("pass1", o)>>, o) /\ Start(t, <<S("pass1", o)>>) /\ t \in Fibres
    BY <1>5, PlainLists DEF Lease, Fibres
  <2>2. UNCHANGED <<objs, doubled>>
    BY <1>5 DEF Lease, history
  <2>. QED
    BY <1>2, <2>1, <2>2, PlainKeepsSlots
<1>6. ASSUME NEW o \in Objectives, ExpireLease(o)
      PROVE  NotOverbooked'
  BY <1>2, <1>6 DEF ExpireLease, history, SInv, NotOverbooked, Holders, Holds, Made, Releases,
     Granted, Promise
<1>7. CASE Crash
  <2>1. \A t \in Fibres : ~Promise(t)'
    BY <1>7, CrashTodo DEF Promise, Promises, Overall
  <2>2. NotOverbooked /\ Holders' = Holders
    BY <1>2, <1>7 DEF Crash, history, SInv, Holders, Holds, Made, Releases
  <2>3. Granted' \subseteq Granted
    BY <2>1 DEF Granted, Promise
  <2>. QED
    BY <2>1, <2>2, <2>3, LessKeepsSlots
<1>8. ASSUME NEW t \in Fibres, NEW o \in Objectives,
             CallReact(t, o) \/ CallCancel(t, o) \/ CallArchive(t, o)
      PROVE  NotOverbooked'
  <2>1. PICK s : Plain(s, o) /\ Start(t, s)
    BY <1>8, CallLists
  <2>2. UNCHANGED <<objs, doubled>>
    BY <1>8 DEF CallReact, CallCancel, CallArchive, history
  <2>. QED
    BY <1>2, <2>1, <2>2, PlainKeepsSlots
<1>9. ASSUME NEW t \in Fibres, Calls(t)
      PROVE  NotOverbooked'
  <2>1. PICK o \in Objectives : \/ \E now \in BOOLEAN : Create(t, o, now)
                                \/ CallReact(t, o) \/ CallCancel(t, o) \/ CallArchive(t, o)
    BY <1>9 DEF Calls
  <2>. QED
    BY <1>2, <1>8, <2>1, CreateKeepsSlots
<1>. QED
  BY <1>3, <1>4, <1>5, <1>6, <1>7, <1>9 DEF ControlNext, Inside

(* No slot is held at the start. *)
LEMMA InitSlots ==
  ASSUME ControlInit
  PROVE  SInv
<1>1. CInv
  BY InitFibres
<1>2. Holders = {} /\ Granted = {} /\ \A t \in Fibres : ~Promise(t)
  BY DEF ControlInit, Holders, Holds, Made, NoObjective, Granted, Promise
<1>3. Holders \cup Granted = {}
  BY <1>2
<1>4. Cardinality(Holders \cup Granted) <= Concurrency
  BY <1>3, HoldersBound, ControlAssumption
<1>5. NotOverbooked
  BY <1>2, <1>4 DEF NotOverbooked
<1>. QED
  BY <1>1, <1>5 DEF SInv

(* Who has been promised a slot only adds to those that hold one. *)
LEMMA SlotsCounted ==
  ASSUME SInv
  PROVE  SlotsBounded
<1>1. SUFFICES ASSUME ~doubled PROVE Cardinality(Holders) <= Concurrency
  BY DEF SlotsBounded
<1>2. Cardinality(Holders \cup Granted) <= Concurrency
  BY <1>1 DEF SInv, NotOverbooked
<1>3. Holders \cup Granted \in SUBSET Objectives /\ Holders \in SUBSET (Holders \cup Granted)
  BY DEF Holders, Granted
<1>. QED
  BY <1>2, <1>3, FewerCount, ControlAssumption

(* At most repoSlotConcurrency objectives hold a slot, whatever calls,     *)
(* passes, cancels, archives and crashes interleave, unless a slot was     *)
(* given away between a read of hasActiveObjectiveSlot or                  *)
(* rebalanceObjectiveSlots and the emit that takes it, or an objective     *)
(* opened again after it had released its slot.                            *)
THEOREM SlotsAreBounded == ControlSpec => []SlotsBounded
<1>1. ControlInit => SInv
  BY InitSlots
<1>2. SInv /\ [ControlNext]_vars => SInv'
  BY NextKeepsSlots
<1>3. SInv => SlotsBounded
  BY SlotsCounted
<1>. QED
  BY <1>1, <1>2, <1>3, PTL DEF ControlSpec
=============================================================================
