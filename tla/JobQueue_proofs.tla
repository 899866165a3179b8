--------------------------- MODULE JobQueue_proofs ---------------------------
(***************************************************************************)
(* Theorems about JobQueue, for any number of processes, followers,        *)
(* workers, jobs, commands, attempts and faults, if one process enqueues.  *)
(*                                                                         *)
(* The argument: rows, indexes, unfinished writes and syncs may be as      *)
(* stale as they like, but none of them is ever ahead of the stream it was *)
(* read from (Real): it knows no job and no outcome the stream does not    *)
(* have, because streams only gain jobs and never lose an outcome.  So a   *)
(* guard taken on a copy is still right that the job exists (EventsFit);   *)
(* everything else the reducer checks for itself, by the status the job    *)
(* has at the append.                                                      *)
(*                                                                         *)
(* One process enqueues: "enqueued" is the one event the reducer applies   *)
(* to any state, and only the lock of a process keeps two enqueues of an   *)
(* id from both finding it absent.  Its index then misses no unfinished    *)
(* job of a session (Sessioned), so that whatever it finds there it ends   *)
(* or tells to abort before the next is enqueued (Settled, Ending).        *)
(***************************************************************************)
EXTENDS JobQueue, JobRecord_proofs, SequenceTheorems

(* The processes that may create a job are one. *)
SingleEnqueuer == \A p, q \in Enqueuers : p = q

Acting(o) == o.pc \in {"emit", "read", "write"}

Creates(o) == Head(o.todo).type = "enqueued"

InSession(o) == o.pc = "session" \/ (Acting(o) /\ o.then = "session")

(* What an operation may rely on by where it is. *)
Shape(p, o) ==
  /\ Acting(o) => o.job \in Jobs /\ o.todo # << >>
  /\ o.pc = "pick" \/ (Acting(o) /\ o.then = "grant") => o.worker \in Workers
  /\ Acting(o) => \A n \in 2..Len(o.todo) : o.todo[n].type # "enqueued"
  /\ Acting(o) /\ Creates(o) => o.then = "idle" /\ p \in Enqueuers
  /\ o.pc = "drain" => o.job \in Jobs
  /\ o.pc = "admit" \/ InSession(o) => o.new \in Jobs /\ p \in Enqueuers

(* A copy r of a job is never ahead of its stream f: the stream has the    *)
(* job, and has finished it if and as the copy says.                       *)
Real(r, f) ==
  /\ Exists(r) \/ r.open # {} => Exists(f)
  /\ Terminal(r) => f.status = r.status

(* What the events still to be emitted rely on, for the streams f. *)
Grounded(o, f) ==
  /\ o.pc = "emit" => (Creates(o) <=> ~Exists(f[o.job]))
  /\ o.pc \in {"read", "write", "drain"} => Exists(f[o.job])
  /\ o.pc = "write" => Real(o.snap, f[o.job])
  /\ InSession(o) => /\ ~Exists(f[o.new])
                     /\ \A k \in o.left \cap Jobs : k # o.new /\ Exists(f[k])
  /\ Acting(o) /\ o.then = "session" => o.job # o.new

FoldInv == \A j \in Jobs : ~Exists(fold[j]) => fold[j] = NoJob

CopiesInv ==
  /\ \A j \in Jobs : Real(row[j], fold[j])
  /\ \A p \in Procs, j \in Jobs : Real(idx[p][j], fold[j])
  /\ \A p \in Procs : sync[p].job # None => Real(sync[p].snap, fold[sync[p].job])

OpInv == \A p \in Procs : Shape(p, op[p]) /\ Grounded(op[p], fold)

IInv == TypeOK /\ FoldInv /\ CopiesInv /\ OpInv

-----------------------------------------------------------------------------

(* An idle process holds an operation. *)
LEMMA IdleType == Idle \in Op
  BY NoJobType DEF Idle, Op, PCs

(* Every copy of a job is a job record. *)
LEMMA CopyTypes ==
  ASSUME TypeOK, NEW p \in Procs, NEW j \in Jobs
  PROVE  /\ fold[j] \in Job
         /\ row[j] \in Job
         /\ idx[p][j] \in Job
         /\ Loaded(p, j) \in Job
         /\ op[p] \in Op
         /\ sync[p] \in [job : Jobs \cup {None}, snap : Job]
  BY DEF TypeOK, Loaded

(* An operation that has events to emit is an operation. *)
LEMMA EmittingType ==
  ASSUME NEW j \in Jobs, NEW events \in Seq(Event)
  PROVE  Emitting(j, events) \in Op
  BY IdleType DEF Emitting, Op, PCs

(* A job record put in an index keeps its type. *)
LEMMA IndexType ==
  ASSUME TypeOK, NEW p \in Procs, NEW j \in Jobs, NEW r \in Job, Index(p, j, r)
  PROVE  idx' \in [Procs -> [Jobs -> Job]]
  BY DEF TypeOK, Index

(* An operation put in op keeps its type. *)
LEMMA OpType ==
  ASSUME TypeOK, NEW p \in Procs, NEW next \in Op, op' = [op EXCEPT ![p] = next]
  PROVE  op' \in [Procs -> Op]
  BY DEF TypeOK

(* A loop that has visited an element still has elements to visit. *)
LEMMA LeftType ==
  ASSUME TypeOK, NEW p \in Procs, NEW x
  PROVE  op[p] \in Op /\ op[p].left \ {x} \in SUBSET (Jobs \cup Cmds)
<1>1. op[p] \in Op
  BY DEF TypeOK
<1>2. op[p].left \in SUBSET (Jobs \cup Cmds)
  BY <1>1 DEF Op
<1> QED
  BY <1>1, <1>2

(* What a step of a loop makes of its operation. *)
LEMMA UpdateType ==
  ASSUME NEW o \in Op, NEW left \in SUBSET (Jobs \cup Cmds)
  PROVE  /\ [o EXCEPT !.left = left] \in Op
         /\ \A todo \in Seq(Event), then \in {"idle", "session", "expire", "drain", "grant"},
             j \in Jobs :
              [o EXCEPT !.pc = "emit", !.job = j, !.left = left, !.then = then, !.todo = todo] \in Op
         /\ \A todo \in Seq(Event) :
              [o EXCEPT !.pc = "emit", !.left = left, !.then = "drain", !.todo = todo] \in Op
  BY DEF Op, PCs

(* Loading a job and deciding on events keeps the index and op typed. *)
LEMMA PerformType ==
  ASSUME TypeOK, NEW p \in Procs, NEW j \in Jobs, NEW events \in Seq(Event),
         Perform(p, j, events)
  PROVE  idx' \in [Procs -> [Jobs -> Job]] /\ op' \in [Procs -> Op]
<1>1. idx' \in [Procs -> [Jobs -> Job]]
  BY CopyTypes, IndexType DEF Perform
<1>2. (IF events = << >> THEN Idle ELSE Emitting(j, events)) \in Op
  BY IdleType, EmittingType
<1> QED
  BY <1>1, <1>2 DEF Perform, TypeOK

-----------------------------------------------------------------------------
(* Every operation that starts keeps the types. *)
LEMMA TypeReport ==
  ASSUME TypeOK, NEW p \in Procs, NEW w \in Workers, NEW j \in Jobs, NEW event \in Event,
         Report(p, w, j, event)
  PROVE  TypeOK'
<1>1. (IF MayReport(Loaded(p, j), w) THEN <<event>> ELSE << >>) \in Seq(Event)
  OBVIOUS
<1>2. idx' \in [Procs -> [Jobs -> Job]] /\ op' \in [Procs -> Op]
  BY <1>1, PerformType DEF Report
<1> QED
  BY <1>2 DEF Report, TypeOK

(* heartbeat, progress, complete and fail keep the types. *)
LEMMA TypeWorkerReport ==
  ASSUME TypeOK, NEW p \in Procs, NEW w \in Workers, NEW j \in Jobs,
         \/ Heartbeat(p, w, j) \/ Progress(p, w, j) \/ Complete(p, w, j)
         \/ \E noRetry \in BOOLEAN : Fail(p, w, j, noRetry)
  PROVE  TypeOK'
<1>1. \A again \in BOOLEAN : Failed(w, again) \in Event
  BY EventTypes
<1>2. CASE Heartbeat(p, w, j)
  BY <1>2, EventTypes, TypeReport DEF Heartbeat
<1>3. CASE Progress(p, w, j)
  BY <1>3, EventTypes, TypeReport DEF Progress
<1>4. CASE Complete(p, w, j)
  BY <1>4, EventTypes, TypeReport DEF Complete
<1>5. ASSUME NEW noRetry \in BOOLEAN, Fail(p, w, j, noRetry) PROVE TypeOK'
  <2>1. (Retryable(Loaded(p, j)) /\ ~noRetry) \in BOOLEAN
    BY DEF Retryable
  <2>2. Failed(w, Retryable(Loaded(p, j)) /\ ~noRetry) \in Event
    BY <1>1, <2>1
  <2> QED
    BY <1>5, <2>2, TypeReport DEF Fail
<1> QED
  BY <1>2, <1>3, <1>4, <1>5

(* The start of leaseNext keeps the types. *)
LEMMA TypeLeaseNext ==
  ASSUME TypeOK, NEW p \in Procs, NEW w \in Workers, LeaseNext(p, w)
  PROVE  TypeOK'
<1>1. [Idle EXCEPT !.pc = "expire", !.worker = w,
                   !.left = {j \in Jobs : Active(idx[p][j])}] \in Op
  BY IdleType DEF Op, PCs
<1> QED
  BY <1>1 DEF LeaseNext, TypeOK

(* The start of refresh keeps the types. *)
LEMMA TypeRefresh == ASSUME TypeOK, NEW p \in Procs, Refresh(p) PROVE TypeOK'
<1>1. PICK all \in {[j \in Jobs |-> IF Terminal(idx[p][j]) THEN idx[p][j]
                                    ELSE IF Exists(row[j]) THEN row[j] ELSE fold[j]]} :
        /\ idx' = [idx EXCEPT ![p] = all]
        /\ op' = [op EXCEPT ![p] = [Idle EXCEPT !.pc = "expire",
                                      !.left = {j \in Jobs : Active(all[j])}]]
  BY DEF Refresh
<1>2. all \in [Jobs -> Job]
  BY CopyTypes
<1>3. [Idle EXCEPT !.pc = "expire", !.left = {j \in Jobs : Active(all[j])}] \in Op
  BY IdleType DEF Op, PCs
<1> QED
  BY <1>1, <1>2, <1>3 DEF Refresh, TypeOK

(* A step of handleExpiredLeases keeps the types. *)
LEMMA TypeExpireScan ==
  ASSUME TypeOK, NEW p \in Procs, NEW j \in Jobs, ExpireScan(p, j)
  PROVE  TypeOK'
<1> DEFINE cur == Loaded(p, j)
<1>1. idx' \in [Procs -> [Jobs -> Job]]
  <2>1. CASE LeasePast(idx[p][j])
    <3>1. Index(p, j, cur)
      BY <2>1 DEF ExpireScan
    <3> QED
      BY <3>1, CopyTypes, IndexType
  <2>2. CASE ~LeasePast(idx[p][j])
    BY <2>2 DEF ExpireScan, TypeOK
  <2> QED
    BY <2>1, <2>2
<1>2. <<Expired(Retryable(cur))>> \in Seq(Event)
  <2>1. Retryable(cur) \in BOOLEAN
    BY DEF Retryable
  <2> QED
    BY <2>1, EventTypes
<1> DEFINE left == op[p].left \ {j}
           more == [op[p] EXCEPT !.pc = "emit", !.job = j, !.left = left, !.then = "expire",
                                 !.todo = <<Expired(Retryable(cur))>>]
           skip == [op[p] EXCEPT !.left = left]
<1>3. more \in Op /\ skip \in Op
  <2>1. op[p] \in Op /\ left \in SUBSET (Jobs \cup Cmds)
    BY LeftType
  <2> QED
    BY <1>2, <2>1, UpdateType
<1>4. \E next \in {more, skip} : op' = [op EXCEPT ![p] = next]
  BY DEF ExpireScan
<1>5. op' \in [Procs -> Op]
  <2> HIDE DEF more, skip
  <2> QED
    BY <1>3, <1>4, OpType
<1> QED
  BY <1>1, <1>5 DEF ExpireScan, TypeOK

(* The end of handleExpiredLeases keeps the types. *)
LEMMA TypeExpireDone == ASSUME TypeOK, NEW p \in Procs, ExpireDone(p) PROVE TypeOK'
<1>1. [op[p] EXCEPT !.pc = "pick", !.left = {j \in Jobs : ShouldQueue(idx[p][j])}] \in Op
  <2> DEFINE left == {j \in Jobs : ShouldQueue(idx[p][j])}
  <2>1. left \in SUBSET (Jobs \cup Cmds) /\ op[p] \in Op
    BY DEF TypeOK
  <2> HIDE DEF left
  <2>2. [op[p] EXCEPT !.pc = "pick", !.left = left] \in Op
    BY <2>1 DEF Op, PCs
  <2> QED
    BY <2>2 DEF left
<1> QED
  BY <1>1, IdleType DEF ExpireDone, TypeOK

(* A step of the search for a queued job keeps the types. *)
LEMMA TypePick ==
  ASSUME TypeOK, NEW p \in Procs, NEW j \in Jobs, Pick(p, j)
  PROVE  TypeOK'
<1> DEFINE cur == Loaded(p, j)
<1>1. idx' \in [Procs -> [Jobs -> Job]]
  BY CopyTypes, IndexType DEF Pick
<1>2. <<Leased(op[p].worker, cur.attempt + 1)>> \in Seq(Event)
  <2> DEFINE w == op[p].worker
             n == cur.attempt + 1
  <2>1. w \in Workers \cup {None}
    BY CopyTypes DEF Op
  <2>2. n \in Nat
    BY CopyTypes DEF Job
  <2>3. Leased(w, n) \in Event
    <3> HIDE DEF w, n
    <3> QED
      BY <2>1, <2>2, EventTypes
  <2> QED
    BY <2>3
<1> DEFINE left == op[p].left \ {j}
           lease == [op[p] EXCEPT !.pc = "emit", !.job = j, !.left = {}, !.then = "grant",
                                  !.todo = <<Leased(op[p].worker, cur.attempt + 1)>>]
           skip == [op[p] EXCEPT !.left = left]
<1>3. lease \in Op /\ skip \in Op
  <2>1. op[p] \in Op /\ left \in SUBSET (Jobs \cup Cmds) /\ {} \in SUBSET (Jobs \cup Cmds)
    BY LeftType
  <2> QED
    BY <1>2, <2>1, UpdateType
<1>4. \E next \in {lease, skip} : op' = [op EXCEPT ![p] = next]
  BY DEF Pick
<1>5. op' \in [Procs -> Op]
  <2> HIDE DEF lease, skip
  <2> QED
    BY <1>3, <1>4, OpType
<1> QED
  BY <1>1, <1>5 DEF Pick, TypeOK

(* leaseJob keeps the types. *)
LEMMA TypeLeaseJob ==
  ASSUME TypeOK, NEW p \in Procs, NEW w \in Workers, NEW j \in Jobs, LeaseJob(p, w, j)
  PROVE  TypeOK'
<1> DEFINE cur == Loaded(p, j)
<1>1. idx' \in [Procs -> [Jobs -> Job]]
  BY CopyTypes, IndexType DEF LeaseJob
<1>2. cur.attempt \in Nat /\ cur.attempt + 1 \in Nat
  BY CopyTypes DEF Job
<1>3. <<Leased(w, cur.attempt + 1)>> \in Seq(Event)
  BY <1>2, EventTypes
<1>4. [Emitting(j, <<Leased(w, cur.attempt + 1)>>) EXCEPT !.worker = w, !.then = "grant"] \in Op
  <2> DEFINE o == Emitting(j, <<Leased(w, cur.attempt + 1)>>)
  <2>1. o \in Op
    BY <1>3, EmittingType
  <2> HIDE DEF o
  <2>2. [o EXCEPT !.worker = w, !.then = "grant"] \in Op
    BY <2>1 DEF Op
  <2> QED
    BY <2>2 DEF o
<1>5. op' \in [Procs -> Op]
  BY <1>4 DEF LeaseJob, TypeOK
<1>6. [worker |-> w, job |-> j, attempt |-> cur.attempt] \in Run
  BY <1>2 DEF Run
<1>7. runs' \subseteq Run
  BY <1>6 DEF LeaseJob, TypeOK
<1> QED
  BY <1>1, <1>5, <1>7 DEF LeaseJob, TypeOK

(* The start of consumeCommands keeps the types. *)
LEMMA TypeConsume ==
  ASSUME TypeOK, NEW p \in Procs, NEW j \in Jobs, NEW wanted \in SUBSET Cmds,
         Consume(p, j, wanted)
  PROVE  TypeOK'
<1> DEFINE cur == Loaded(p, j)
<1>1. idx' \in [Procs -> [Jobs -> Job]]
  BY CopyTypes, IndexType DEF Consume
<1>2. cur.open \cap wanted \in SUBSET Cmds
  OBVIOUS
<1>3. [Idle EXCEPT !.pc = "drain", !.job = j, !.left = cur.open \cap wanted,
                   !.got = cur.open \cap wanted] \in Op
  BY <1>2, IdleType DEF Op, PCs
<1> QED
  BY <1>1, <1>3, IdleType DEF Consume, TypeOK

(* The consumption of one command keeps the types. *)
LEMMA TypeDrain == ASSUME TypeOK, NEW p \in Procs, NEW c \in Cmds, Drain(p, c) PROVE TypeOK'
<1>1. <<Command("consumed", c)>> \in Seq(Event)
  BY EventTypes
<1> DEFINE left == op[p].left \ {c}
           next == [op[p] EXCEPT !.pc = "emit", !.left = left, !.then = "drain",
                                 !.todo = <<Command("consumed", c)>>]
<1>2. next \in Op
  <2>1. op[p] \in Op /\ left \in SUBSET (Jobs \cup Cmds)
    BY LeftType
  <2> QED
    BY <1>1, <2>1, UpdateType
<1>3. op' = [op EXCEPT ![p] = next]
  BY DEF Drain
<1>4. op' \in [Procs -> Op]
  <2> HIDE DEF next
  <2> QED
    BY <1>2, <1>3, OpType
<1> QED
  BY <1>4 DEF Drain, TypeOK

(* The return of consumeCommands keeps the types. *)
LEMMA TypeDrainDone == ASSUME TypeOK, NEW p \in Procs, DrainDone(p) PROVE TypeOK'
<1>1. delivered' \in [Cmds -> Nat]
  BY DEF DrainDone, TypeOK
<1> QED
  BY <1>1, IdleType DEF DrainDone, TypeOK

(* getJob, cancel and queueCommand keep the types. *)
LEMMA TypeClient ==
  ASSUME TypeOK, NEW p \in Procs, NEW j \in Jobs,
         GetJob(p, j) \/ Cancel(p, j) \/ \E c \in Cmds : QueueCommand(p, j, c)
  PROVE  TypeOK'
<1>1. CASE GetJob(p, j)
  <2>1. << >> \in Seq(Event)
    OBVIOUS
  <2> QED
    BY <1>1, <2>1, PerformType DEF GetJob, TypeOK
<1>2. CASE Cancel(p, j)
  <2>1. (IF Terminal(Loaded(p, j)) THEN << >> ELSE <<Plain("canceled")>>) \in Seq(Event)
    BY EventTypes
  <2> QED
    BY <1>2, <2>1, PerformType DEF Cancel, TypeOK
<1>3. ASSUME NEW c \in Cmds, QueueCommand(p, j, c) PROVE TypeOK'
  <2>1. (IF c \in AbortCmds /\ Loaded(p, j).status = "queued"
         THEN <<Command("command", c), Plain("canceled")>>
         ELSE <<Command("command", c)>>) \in Seq(Event)
    BY EventTypes
  <2> QED
    BY <1>3, <2>1, PerformType DEF QueueCommand, TypeOK
<1> QED
  BY <1>1, <1>2, <1>3

(* The start of enqueue keeps the types. *)
LEMMA TypeEnqueue ==
  ASSUME TypeOK, NEW p \in Procs, NEW j \in Jobs, Enqueue(p, j)
  PROVE  TypeOK'
<1>1. idx' \in [Procs -> [Jobs -> Job]]
  <2>1. [k \in Jobs |-> IF Exists(idx[p][k]) THEN idx[p][k] ELSE Loaded(p, k)] \in [Jobs -> Job]
    BY CopyTypes
  <2> QED
    BY <2>1 DEF Enqueue, TypeOK
<1>2. [Idle EXCEPT !.pc = "admit", !.new = j] \in Op
  BY IdleType DEF Op, PCs
<1> QED
  BY <1>1, <1>2 DEF Enqueue, TypeOK

(* The later steps of enqueue keep the types. *)
LEMMA TypeSession ==
  ASSUME TypeOK, NEW p \in Procs,
         Admit(p) \/ EnqueueNew(p)
         \/ \E k \in Jobs : CancelPrior(p, k) \/ \E c \in Cmds : AbortPrior(p, k, c) \/ SteerPrior(p, k, c),
         op[p].pc \in {"admit", "session"} => op[p].new \in Jobs
  PROVE  TypeOK'
<1> DEFINE o == op[p]
<1>0. o \in Op
  BY DEF TypeOK
<1>1. CASE Admit(p)
  <2>1. o.new \in Jobs
    BY <1>1 DEF Admit
  <2>2. [o EXCEPT !.pc = "session", !.left = SessionActive(p, o.new)] \in Op
    BY <1>0 DEF Op, PCs, SessionActive
  <2>3. op' \in [Procs -> Op]
    <3>1. CASE Exists(Loaded(p, o.new))
      BY <1>1, <3>1, IdleType DEF Admit, TypeOK
    <3>2. CASE ~Exists(Loaded(p, o.new))
      BY <1>1, <2>2, <3>2 DEF Admit, TypeOK
    <3> QED
      BY <3>1, <3>2
  <2>4. idx' \in [Procs -> [Jobs -> Job]]
    <3>1. CASE Exists(Loaded(p, o.new))
      <4>1. Index(p, o.new, Loaded(p, o.new))
        BY <1>1, <3>1 DEF Admit
      <4> QED
        BY <2>1, <4>1, CopyTypes, IndexType
    <3>2. CASE ~Exists(Loaded(p, o.new))
      BY <1>1, <3>2 DEF Admit, TypeOK
    <3> QED
      BY <3>1, <3>2
  <2> QED
    BY <1>1, <2>3, <2>4 DEF Admit, TypeOK
<1>2. CASE EnqueueNew(p)
  <2>1. o.new \in Jobs
    BY <1>2 DEF EnqueueNew
  <2>2. Emitting(o.new, <<Plain("enqueued")>>) \in Op
    <3>1. <<Plain("enqueued")>> \in Seq(Event)
      BY EventTypes
    <3> QED
      BY <2>1, <3>1, EmittingType
  <2> QED
    BY <1>2, <2>2 DEF EnqueueNew, TypeOK
<1>3. ASSUME NEW k \in Jobs, CancelPrior(p, k) PROVE TypeOK'
  <2> DEFINE left == o.left \ {k}
             next == [o EXCEPT !.pc = "emit", !.job = k, !.left = left,
                               !.then = "session", !.todo = <<Plain("canceled")>>]
  <2>1. <<Plain("canceled")>> \in Seq(Event)
    BY EventTypes
  <2>2. next \in Op
    BY <1>0, <2>1, LeftType, UpdateType
  <2>3. op' = [op EXCEPT ![p] = next]
    BY <1>3 DEF CancelPrior
  <2>4. op' \in [Procs -> Op]
    <3> HIDE DEF next
    <3> QED
      BY <2>2, <2>3, OpType
  <2> QED
    BY <1>3, <2>4 DEF CancelPrior, TypeOK
<1>4. ASSUME NEW k \in Jobs, NEW c \in Cmds, AbortPrior(p, k, c) PROVE TypeOK'
  <2> DEFINE left == o.left \ {k}
             next == [o EXCEPT !.pc = "emit", !.job = k, !.left = left,
                               !.then = "session", !.todo = <<Command("command", c)>>]
  <2>1. <<Command("command", c)>> \in Seq(Event)
    BY EventTypes
  <2>2. next \in Op
    BY <1>0, <2>1, LeftType, UpdateType
  <2>3. op' = [op EXCEPT ![p] = next]
    BY <1>4 DEF AbortPrior
  <2>4. op' \in [Procs -> Op]
    <3> HIDE DEF next
    <3> QED
      BY <2>2, <2>3, OpType
  <2> QED
    BY <1>4, <2>4 DEF AbortPrior, TypeOK
<1>5. ASSUME NEW k \in Jobs, NEW c \in Cmds, SteerPrior(p, k, c) PROVE TypeOK'
  <2>1. Emitting(k, <<Command("command", c)>>) \in Op
    <3>1. <<Command("command", c)>> \in Seq(Event)
      BY EventTypes
    <3> QED
      BY <3>1, EmittingType
  <2> QED
    BY <1>5, <2>1 DEF SteerPrior, TypeOK
<1> QED
  BY <1>1, <1>2, <1>3, <1>4, <1>5

(* An append with its reduction keeps the types. *)
LEMMA TypeEmit ==
  ASSUME TypeOK, NEW p \in Procs, Shape(p, op[p]), Emit(p)
  PROVE  TypeOK'
<1>1. op[p] \in Op /\ op[p].pc = "emit"
  BY DEF TypeOK, Emit
<1>2. op[p].job \in Jobs /\ op[p].todo # << >>
  BY <1>1 DEF Shape, Acting
<1>3. Head(op[p].todo) \in Event
  BY <1>1, <1>2 DEF Op
<1>4. fold' \in [Jobs -> Job]
  <2>1. Reduce(fold[op[p].job], Head(op[p].todo)) \in Job
    BY <1>2, <1>3, CopyTypes, ReduceType
  <2> QED
    BY <1>2, <2>1 DEF Emit, TypeOK
<1>5. [op[p] EXCEPT !.pc = "read"] \in Op
  BY <1>1 DEF Op, PCs
<1> QED
  BY <1>4, <1>5 DEF Emit, TypeOK

(* The read of the state after an append keeps the types. *)
LEMMA TypeReadState ==
  ASSUME TypeOK, NEW p \in Procs, Shape(p, op[p]), ReadState(p)
  PROVE  TypeOK'
<1>1. op[p] \in Op /\ op[p].pc = "read"
  BY DEF TypeOK, ReadState
<1>2. op[p].job \in Jobs
  BY <1>1 DEF Shape, Acting
<1>3. fold[op[p].job] \in Job
  BY <1>2 DEF TypeOK
<1>4. [op[p] EXCEPT !.pc = "write", !.snap = fold[op[p].job]] \in Op
  BY <1>1, <1>3 DEF Op, PCs
<1> QED
  BY <1>4 DEF ReadState, TypeOK

(* Where WriteRow goes on. *)
After(o) ==
  IF Len(o.todo) > 1 THEN [o EXCEPT !.pc = "emit", !.todo = Tail(o.todo), !.snap = NoJob]
  ELSE IF o.then \in {"idle", "grant"} THEN Idle
  ELSE [o EXCEPT !.pc = o.then, !.todo = << >>, !.then = "idle", !.snap = NoJob]

(* What an operation is after a row is written is an operation. *)
LEMMA AfterType == ASSUME NEW o \in Op, o.todo # << >> PROVE After(o) \in Op
<1>1. o.todo \in Seq(Event) /\ Tail(o.todo) \in Seq(Event) /\ << >> \in Seq(Event)
  BY DEF Op
<1>2. [o EXCEPT !.pc = "emit", !.todo = Tail(o.todo), !.snap = NoJob] \in Op
  BY <1>1, NoJobType DEF Op, PCs
<1>3. ASSUME o.then \notin {"idle", "grant"}
      PROVE  [o EXCEPT !.pc = o.then, !.todo = << >>, !.then = "idle", !.snap = NoJob] \in Op
  <2>1. o.then \in PCs
    BY <1>3 DEF Op, PCs
  <2> QED
    BY <1>1, <2>1, NoJobType DEF Op
<1> QED
  BY <1>2, <1>3, IdleType DEF After

(* The row an event leads to is a job record. *)
LEMMA ProjectedType ==
  ASSUME NEW r \in Job, NEW snap \in Job, NEW type
  PROVE  ProjectedRow(r, snap, type) \in Job
  BY DEF ProjectedRow, Job

(* The write of a row and of the index keeps the types. *)
LEMMA TypeWriteRow ==
  ASSUME TypeOK, NEW p \in Procs, Shape(p, op[p]), WriteRow(p)
  PROVE  TypeOK'
<1> DEFINE o == op[p]
           e == Head(o.todo)
<1>1. o \in Op /\ o.pc = "write"
  BY DEF TypeOK, WriteRow
<1>2. o.job \in Jobs /\ o.todo # << >> /\ (o.then = "grant" => o.worker \in Workers)
  BY <1>1 DEF Shape, Acting
<1>3. e \in Event /\ o.snap \in Job
  BY <1>1, <1>2 DEF Op
<1>4. row' \in [Jobs -> Job]
  <2>1. ProjectedRow(row[o.job], o.snap, e.type) \in Job
    BY <1>2, <1>3, CopyTypes, ProjectedType
  <2> QED
    BY <2>1 DEF WriteRow, TypeOK
<1>5. idx' \in [Procs -> [Jobs -> Job]]
  <2>1. Index(p, o.job, o.snap)
    BY DEF WriteRow
  <2> QED
    BY <1>2, <1>3, <2>1, IndexType
<1>6. op' \in [Procs -> Op]
  <2>1. op' = [op EXCEPT ![p] = After(o)]
    BY DEF WriteRow, After
  <2>2. After(o) \in Op
    BY <1>1, <1>2, AfterType
  <2> QED
    BY <2>1, <2>2, OpType
<1>7. runs' \subseteq Run
  <2>1. e.attempt \in Nat
    BY <1>3 DEF Event
  <2>2. o.then = "grant" => [worker |-> o.worker, job |-> o.job, attempt |-> e.attempt] \in Run
    BY <1>2, <2>1 DEF Run
  <2> QED
    BY <2>2 DEF WriteRow, TypeOK
<1> QED
  BY <1>4, <1>5, <1>6, <1>7 DEF WriteRow, TypeOK

(* The projection sync of a follower keeps the types. *)
LEMMA TypeSync ==
  ASSUME TypeOK, NEW p \in Procs, SyncWrite(p) \/ \E j \in Jobs : SyncRead(p, j)
  PROVE  TypeOK'
<1>1. ASSUME NEW j \in Jobs, SyncRead(p, j) PROVE TypeOK'
  <2>1. [job |-> j, snap |-> fold[j]] \in [job : Jobs \cup {None}, snap : Job]
    BY CopyTypes
  <2> QED
    BY <1>1, <2>1 DEF SyncRead, TypeOK
<1>2. CASE SyncWrite(p)
  <2>1. sync[p] \in [job : Jobs \cup {None}, snap : Job]
    BY DEF TypeOK
  <2>2. NoSync \in [job : Jobs \cup {None}, snap : Job]
    BY NoJobType DEF NoSync
  <2>3. row' \in [Jobs -> Job]
    BY <1>2, <2>1 DEF SyncWrite, TypeOK
  <2> QED
    BY <1>2, <2>2, <2>3 DEF SyncWrite, TypeOK
<1> QED
  BY <1>1, <1>2

(* The passing of all deadlines keeps the types. *)
LEMMA TypeTimePasses == ASSUME TypeOK, TimePasses PROVE TypeOK'
<1>1. fold' \in [Jobs -> Job] /\ row' \in [Jobs -> Job] /\ idx' \in [Procs -> [Jobs -> Job]]
  BY AgeType DEF TimePasses, TypeOK
<1>2. op' \in [Procs -> Op]
  <2>1. ASSUME NEW p \in Procs PROVE [op[p] EXCEPT !.snap = Age(op[p].snap)] \in Op
    <3>1. op[p] \in Op
      BY DEF TypeOK
    <3>2. Age(op[p].snap) \in Job
      BY <3>1, AgeType DEF Op
    <3> QED
      BY <3>1, <3>2 DEF Op
  <2> QED
    BY <2>1 DEF TimePasses
<1>3. sync' \in [Procs -> [job : Jobs \cup {None}, snap : Job]]
  <2>1. ASSUME NEW p \in Procs
        PROVE  [sync[p] EXCEPT !.snap = Age(sync[p].snap)] \in [job : Jobs \cup {None}, snap : Job]
    <3>1. sync[p] \in [job : Jobs \cup {None}, snap : Job]
      BY DEF TypeOK
    <3>2. Age(sync[p].snap) \in Job
      BY <3>1, AgeType
    <3> QED
      BY <3>1, <3>2
  <2> QED
    BY <2>1 DEF TimePasses
<1> QED
  BY <1>1, <1>2, <1>3 DEF TimePasses, TypeOK

(* Exceptions, crashes and ends of runs keep the types. *)
LEMMA TypeFaults ==
  ASSUME TypeOK, \/ \E p \in Procs : Throw(p) \/ Crash(p)
                 \/ \E r \in runs : EndRun(r)
  PROVE  TypeOK'
<1>1. ASSUME NEW p \in Procs, Throw(p) PROVE TypeOK'
  BY <1>1, IdleType DEF Throw, TypeOK
<1>2. ASSUME NEW p \in Procs, Crash(p) PROVE TypeOK'
  <2>1. NoSync \in [job : Jobs \cup {None}, snap : Job]
    BY NoJobType DEF NoSync
  <2>2. [j \in Jobs |-> NoJob] \in [Jobs -> Job]
    BY NoJobType
  <2>3. /\ op' \in [Procs -> Op]
        /\ idx' \in [Procs -> [Jobs -> Job]]
        /\ sync' \in [Procs -> [job : Jobs \cup {None}, snap : Job]]
    BY <1>2, <2>1, <2>2, IdleType DEF Crash, TypeOK
  <2> QED
    BY <1>2, <2>3 DEF Crash, TypeOK
<1>3. ASSUME NEW r \in runs, EndRun(r) PROVE TypeOK'
  BY <1>3 DEF EndRun, TypeOK
<1> QED
  BY <1>1, <1>2, <1>3

-----------------------------------------------------------------------------
(* Copies. *)
LEMMA RealSelf == ASSUME FoldInv, NEW j \in Jobs PROVE Real(fold[j], fold[j])
  BY DEF FoldInv, Real, NoJob

(* What loadAuthoritativeJob returns is not ahead of the stream,           *)
(* whichever copy it comes from.                                           *)
LEMMA LoadedReal ==
  ASSUME IInv, NEW p \in Procs, NEW j \in Jobs
  PROVE  Real(Loaded(p, j), fold[j])
<1>1. Real(fold[j], fold[j])
  BY RealSelf DEF IInv
<1> QED
  BY <1>1 DEF IInv, CopiesInv, Loaded

(* The absence of a job is never ahead of a stream. *)
LEMMA NoJobReal == ASSUME NEW f PROVE Real(NoJob, f)
  BY DEF Real, NoJob, Exists, Terminal

(* A copy stays behind a stream that loses no job and no outcome. *)
LEMMA RealGrows ==
  ASSUME NEW r, NEW f, NEW g, Real(r, f),
         Exists(f) => Exists(g),
         Terminal(f) => g.status = f.status
  PROVE  Real(r, g)
  BY DEF Real, Terminal

(* Indexes stay behind the streams when one takes over such a copy. *)
LEMMA IndexReal ==
  ASSUME IInv, NEW p \in Procs, NEW j \in Jobs, NEW r, Real(r, fold[j]), Index(p, j, r)
  PROVE  \A q \in Procs, k \in Jobs : Real(idx'[q][k], fold[k])
  BY DEF IInv, TypeOK, CopiesInv, Index

-----------------------------------------------------------------------------
(* A step of one operation that leaves streams and rows alone. *)
LEMMA LocalStep ==
  ASSUME IInv, TypeOK', NEW p \in Procs, UNCHANGED <<fold, row, sync>>,
         \A q \in Procs, j \in Jobs : Real(idx'[q][j], fold[j]),
         NEW next, op' = [op EXCEPT ![p] = next],
         Shape(p, next), Grounded(next, fold)
  PROVE  IInv'
<1>1. \A q \in Procs : op'[q] = IF q = p THEN next ELSE op[q]
  BY DEF IInv, TypeOK
<1>2. OpInv'
  <2>1. \A q \in Procs : Shape(q, op'[q]) /\ Grounded(op'[q], fold')
    BY <1>1 DEF IInv, OpInv
  <2> QED
    BY <2>1 DEF OpInv
<1>3. FoldInv' /\ CopiesInv'
  BY DEF IInv, FoldInv, CopiesInv
<1> QED
  BY <1>2, <1>3 DEF IInv

(* An idle process relies on nothing. *)
LEMMA IdleShape == ASSUME NEW p, NEW f PROVE Shape(p, Idle) /\ Grounded(Idle, f)
  BY DEF Idle, Shape, Grounded, Acting, InSession

(* An operation that is to emit events, none of them an enqueue, for a     *)
(* job of the streams may do so.                                           *)
LEMMA EmittingShape ==
  ASSUME NEW p, NEW f, NEW j \in Jobs, NEW events \in Seq(Event), events # << >>,
         \A n \in 1..Len(events) : events[n].type # "enqueued",
         Exists(f[j])
  PROVE  Shape(p, Emitting(j, events)) /\ Grounded(Emitting(j, events), f)
<1> DEFINE o == Emitting(j, events)
<1>1. /\ o.pc = "emit" /\ o.job = j /\ o.todo = events /\ o.then = "idle"
  BY DEF Emitting, Idle
<1>2. Head(events).type # "enqueued"
  OBVIOUS
<1> HIDE DEF o
<1>3. Shape(p, o)
  BY <1>1, <1>2 DEF Shape, Acting, Creates, InSession
<1>4. Grounded(o, f)
  BY <1>1, <1>2 DEF Grounded, Acting, Creates, InSession
<1> QED
  BY <1>3, <1>4 DEF o

(* An operation on one loaded job keeps the invariant. *)
LEMMA PerformStep ==
  ASSUME IInv, TypeOK', NEW p \in Procs, NEW j \in Jobs, NEW events \in Seq(Event),
         UNCHANGED <<fold, row, sync>>, Perform(p, j, events),
         \A n \in 1..Len(events) : events[n].type # "enqueued"
  PROVE  IInv'
<1>1. Real(Loaded(p, j), fold[j])
  BY LoadedReal
<1>2. \A q \in Procs, k \in Jobs : Real(idx'[q][k], fold[k])
  BY <1>1, IndexReal DEF Perform
<1>3. Exists(fold[j])
  BY <1>1 DEF Perform, Real
<1>4. CASE events = << >>
  <2>1. op' = [op EXCEPT ![p] = Idle]
    BY <1>4 DEF Perform
  <2> QED
    BY <1>2, <2>1, IdleShape, LocalStep
<1>5. CASE events # << >>
  <2>1. op' = [op EXCEPT ![p] = Emitting(j, events)]
    BY <1>5 DEF Perform
  <2> QED
    BY <1>2, <1>3, <1>5, <2>1, EmittingShape, LocalStep
<1> QED
  BY <1>4, <1>5

(* No event but "enqueued" is one. *)
LEMMA EventKinds ==
  /\ \A w \in Workers : /\ By("heartbeat", w).type = "heartbeat"
                        /\ By("progress", w).type = "progress"
                        /\ By("completed", w).type = "completed"
                        /\ \A again \in BOOLEAN : Failed(w, again).type = "failed"
  /\ \A w \in Workers \cup {None}, n \in Nat : Leased(w, n).type = "leased"
  /\ \A again \in BOOLEAN : Expired(again).type = "lease_expired"
  /\ \A c \in Cmds : /\ Command("command", c).type = "command"
                     /\ Command("consumed", c).type = "consumed"
  /\ Plain("canceled").type = "canceled"
  /\ Plain("enqueued").type = "enqueued"
  BY DEF By, Failed, Leased, Expired, Command, Plain

(* A report of a worker, whoever it is, keeps the invariant. *)
LEMMA InvReport ==
  ASSUME IInv, TypeOK', NEW p \in Procs, NEW w \in Workers, NEW j \in Jobs, NEW event \in Event,
         event.type # "enqueued", Report(p, w, j, event)
  PROVE  IInv'
<1> DEFINE events == IF MayReport(Loaded(p, j), w) THEN <<event>> ELSE << >>
<1>1. events \in Seq(Event) /\ \A n \in 1..Len(events) : events[n].type # "enqueued"
  OBVIOUS
<1>2. Perform(p, j, events) /\ UNCHANGED <<fold, row, sync>>
  BY DEF Report
<1> HIDE DEF events
<1> QED
  BY <1>1, <1>2, PerformStep

(* heartbeat, progress, complete and fail keep the invariant. *)
LEMMA InvWorkerReport ==
  ASSUME IInv, TypeOK', NEW p \in Procs, NEW w \in Workers, NEW j \in Jobs,
         \/ Heartbeat(p, w, j) \/ Progress(p, w, j) \/ Complete(p, w, j)
         \/ \E noRetry \in BOOLEAN : Fail(p, w, j, noRetry)
  PROVE  IInv'
<1>1. \A again \in BOOLEAN : Failed(w, again) \in Event /\ Failed(w, again).type # "enqueued"
  BY EventTypes, EventKinds
<1>2. CASE Heartbeat(p, w, j)
  BY <1>2, EventTypes, EventKinds, InvReport DEF Heartbeat
<1>3. CASE Progress(p, w, j)
  BY <1>3, EventTypes, EventKinds, InvReport DEF Progress
<1>4. CASE Complete(p, w, j)
  BY <1>4, EventTypes, EventKinds, InvReport DEF Complete
<1>5. ASSUME NEW noRetry \in BOOLEAN, Fail(p, w, j, noRetry) PROVE IInv'
  <2>1. (Retryable(Loaded(p, j)) /\ ~noRetry) \in BOOLEAN
    BY DEF Retryable
  <2> DEFINE event == Failed(w, Retryable(Loaded(p, j)) /\ ~noRetry)
  <2>2. event \in Event /\ event.type # "enqueued"
    BY <1>1, <2>1
  <2>3. Report(p, w, j, event)
    BY <1>5 DEF Fail
  <2> HIDE DEF event
  <2> QED
    BY <2>2, <2>3, InvReport
<1> QED
  BY <1>2, <1>3, <1>4, <1>5

(* getJob, cancel and queueCommand keep the invariant. *)
LEMMA InvClient ==
  ASSUME IInv, TypeOK', NEW p \in Procs, NEW j \in Jobs,
         GetJob(p, j) \/ Cancel(p, j) \/ \E c \in Cmds : QueueCommand(p, j, c)
  PROVE  IInv'
<1>1. CASE GetJob(p, j)
  <2>1. << >> \in Seq(Event) /\ \A n \in 1..Len(<< >>) : << >>[n].type # "enqueued"
    OBVIOUS
  <2> QED
    BY <1>1, <2>1, PerformStep DEF GetJob
<1>2. CASE Cancel(p, j)
  <2> DEFINE events == IF Terminal(Loaded(p, j)) THEN << >> ELSE <<Plain("canceled")>>
  <2>1. events \in Seq(Event) /\ \A n \in 1..Len(events) : events[n].type # "enqueued"
    BY EventTypes, EventKinds
  <2>2. Perform(p, j, events) /\ UNCHANGED <<fold, row, sync>>
    BY <1>2 DEF Cancel
  <2> HIDE DEF events
  <2> QED
    BY <2>1, <2>2, PerformStep
<1>3. ASSUME NEW c \in Cmds, QueueCommand(p, j, c) PROVE IInv'
  <2> DEFINE events == IF c \in AbortCmds /\ Loaded(p, j).status = "queued"
                       THEN <<Command("command", c), Plain("canceled")>>
                       ELSE <<Command("command", c)>>
  <2>1. events \in Seq(Event) /\ \A n \in 1..Len(events) : events[n].type # "enqueued"
    <3>1. /\ Command("command", c) \in Event /\ Command("command", c).type # "enqueued"
          /\ Plain("canceled") \in Event /\ Plain("canceled").type # "enqueued"
      BY EventTypes, EventKinds
    <3> QED
      BY <3>1
  <2>2. Perform(p, j, events) /\ UNCHANGED <<fold, row, sync>>
    BY <1>3 DEF QueueCommand
  <2> HIDE DEF events
  <2> QED
    BY <2>1, <2>2, PerformStep
<1> QED
  BY <1>1, <1>2, <1>3

(* Indexes nobody touches stay behind the streams. *)
LEMMA CopiesStay ==
  ASSUME IInv, idx' = idx
  PROVE  \A q \in Procs, k \in Jobs : Real(idx'[q][k], fold[k])
  BY DEF IInv, CopiesInv

(* What the invariant says of the operation of one process. *)
LEMMA OpAt ==
  ASSUME IInv, NEW p \in Procs
  PROVE  op[p] \in Op /\ Shape(p, op[p]) /\ Grounded(op[p], fold)
  BY DEF IInv, TypeOK, OpInv

(* The start of leaseNext keeps the invariant. *)
LEMMA InvLeaseNext ==
  ASSUME IInv, TypeOK', NEW p \in Procs, NEW w \in Workers, LeaseNext(p, w)
  PROVE  IInv'
<1> DEFINE next == [Idle EXCEPT !.pc = "expire", !.worker = w,
                                !.left = {j \in Jobs : Active(idx[p][j])}]
<1>1. next.pc = "expire"
  BY DEF Idle
<1>2. op' = [op EXCEPT ![p] = next] /\ idx' = idx /\ UNCHANGED <<fold, row, sync>>
  BY DEF LeaseNext
<1> HIDE DEF next
<1>3. Shape(p, next) /\ Grounded(next, fold)
  BY <1>1 DEF Shape, Grounded, Acting, InSession
<1> QED
  BY <1>2, <1>3, CopiesStay, LocalStep

(* A refresh takes over rows and streams only: it keeps the invariant. *)
LEMMA InvRefresh == ASSUME IInv, TypeOK', NEW p \in Procs, Refresh(p) PROVE IInv'
<1>1. PICK all \in {[j \in Jobs |-> IF Terminal(idx[p][j]) THEN idx[p][j]
                                    ELSE IF Exists(row[j]) THEN row[j] ELSE fold[j]]} :
        /\ idx' = [idx EXCEPT ![p] = all]
        /\ op' = [op EXCEPT ![p] = [Idle EXCEPT !.pc = "expire",
                                      !.left = {j \in Jobs : Active(all[j])}]]
  BY DEF Refresh
<1>2. \A j \in Jobs : Real(all[j], fold[j])
  <2> TAKE j \in Jobs
  <2>1. all[j] \in {idx[p][j], row[j], fold[j]}
    OBVIOUS
  <2> QED
    BY <2>1, RealSelf DEF IInv, CopiesInv
<1>3. \A q \in Procs, k \in Jobs : Real(idx'[q][k], fold[k])
  BY <1>1, <1>2 DEF IInv, TypeOK, CopiesInv
<1> DEFINE next == [Idle EXCEPT !.pc = "expire", !.left = {j \in Jobs : Active(all[j])}]
<1>4. next.pc = "expire" /\ op' = [op EXCEPT ![p] = next]
  BY <1>1 DEF Idle
<1> HIDE DEF next
<1>5. Shape(p, next) /\ Grounded(next, fold)
  BY <1>4 DEF Shape, Grounded, Acting, InSession
<1> QED
  BY <1>3, <1>4, <1>5, LocalStep DEF Refresh

(* A loop goes on to its next element. *)
LEMMA SkipShape ==
  ASSUME NEW p, NEW f, NEW o \in Op, Shape(p, o), Grounded(o, f), o.pc \in {"expire", "pick"},
         NEW left
  PROVE  Shape(p, [o EXCEPT !.left = left]) /\ Grounded([o EXCEPT !.left = left], f)
<1> DEFINE next == [o EXCEPT !.left = left]
<1>1. next.pc = o.pc /\ next.worker = o.worker
  BY DEF Op
<1> HIDE DEF next
<1>2. Shape(p, next) /\ Grounded(next, f)
  BY <1>1 DEF Shape, Grounded, Acting, InSession
<1> QED
  BY <1>2 DEF next

(* A loop emits an event for one of its elements, or for its job. *)
LEMMA LoopShape ==
  ASSUME NEW p, NEW f, NEW next, NEW event \in Event,
         next.pc = "emit", next.todo = <<event>>, event.type # "enqueued",
         next.job \in Jobs, Exists(f[next.job]),
         next.then # "session",
         next.then = "grant" => next.worker \in Workers
  PROVE  Shape(p, next) /\ Grounded(next, f)
<1>1. Head(next.todo) = event /\ next.todo # << >> /\ Len(next.todo) = 1
  OBVIOUS
<1>2. Shape(p, next)
  BY <1>1 DEF Shape, Acting, Creates, InSession
<1>3. Grounded(next, f)
  BY <1>1 DEF Grounded, Acting, Creates, InSession
<1> QED
  BY <1>2, <1>3

(* A step of handleExpiredLeases keeps the invariant. *)
LEMMA InvExpireScan ==
  ASSUME IInv, TypeOK', NEW p \in Procs, NEW j \in Jobs, ExpireScan(p, j)
  PROVE  IInv'
<1> DEFINE cur == Loaded(p, j)
           o == op[p]
           left == o.left \ {j}
           more == [o EXCEPT !.pc = "emit", !.job = j, !.left = left, !.then = "expire",
                             !.todo = <<Expired(Retryable(cur))>>]
           skip == [o EXCEPT !.left = left]
<1>1. Real(cur, fold[j])
  BY LoadedReal
<1>2. \A q \in Procs, k \in Jobs : Real(idx'[q][k], fold[k])
  <2>1. CASE LeasePast(idx[p][j])
    <3>1. Index(p, j, cur)
      BY <2>1 DEF ExpireScan
    <3> QED
      BY <1>1, <3>1, IndexReal
  <2>2. CASE ~LeasePast(idx[p][j])
    <3>1. idx' = idx
      BY <2>2 DEF ExpireScan
    <3> QED
      BY <3>1, CopiesStay
  <2> QED
    BY <2>1, <2>2
<1>3. o \in Op /\ Shape(p, o) /\ Grounded(o, fold) /\ o.pc = "expire"
  BY OpAt DEF ExpireScan
<1>4. Shape(p, skip) /\ Grounded(skip, fold)
  BY <1>3, SkipShape
<1>5. ASSUME LeasePast(cur) PROVE Shape(p, more) /\ Grounded(more, fold)
  <2>1. Exists(fold[j])
    BY <1>1, <1>5 DEF LeasePast, Active, Real, Exists
  <2>2. Retryable(cur) \in BOOLEAN
    BY DEF Retryable
  <2>3. Expired(Retryable(cur)) \in Event /\ Expired(Retryable(cur)).type # "enqueued"
    BY <2>2, EventTypes, EventKinds
  <2>4. /\ more.pc = "emit" /\ more.job = j /\ more.then = "expire"
        /\ more.todo = <<Expired(Retryable(cur))>>
    BY <1>3 DEF Op
  <2> HIDE DEF more
  <2> QED
    BY <2>1, <2>3, <2>4, LoopShape
<1>6. \/ op' = [op EXCEPT ![p] = skip]
      \/ LeasePast(cur) /\ op' = [op EXCEPT ![p] = more]
  BY DEF ExpireScan
<1>7. UNCHANGED <<fold, row, sync>>
  BY DEF ExpireScan
<1> HIDE DEF more, skip, cur
<1> QED
  BY <1>2, <1>4, <1>5, <1>6, <1>7, LocalStep

(* The end of handleExpiredLeases keeps the invariant. *)
LEMMA InvExpireDone == ASSUME IInv, TypeOK', NEW p \in Procs, ExpireDone(p) PROVE IInv'
<1> DEFINE pick == [op[p] EXCEPT !.pc = "pick",
                                 !.left = {j \in Jobs : ShouldQueue(idx[p][j])}]
<1>1. \/ op' = [op EXCEPT ![p] = Idle]
      \/ op[p].worker # None /\ op' = [op EXCEPT ![p] = pick]
  BY DEF ExpireDone
<1>2. ASSUME op[p].worker # None PROVE Shape(p, pick) /\ Grounded(pick, fold)
  <2>1. op[p].worker \in Workers
    BY <1>2, OpAt DEF Op
  <2>2. pick.pc = "pick" /\ pick.worker = op[p].worker
    BY OpAt DEF Op
  <2> HIDE DEF pick
  <2> QED
    BY <2>1, <2>2 DEF Shape, Grounded, Acting, InSession
<1>3. idx' = idx /\ UNCHANGED <<fold, row, sync>>
  BY DEF ExpireDone
<1> HIDE DEF pick
<1> QED
  BY <1>1, <1>2, <1>3, IdleShape, CopiesStay, LocalStep

(* A step of the search for a queued job keeps the invariant. *)
LEMMA InvPick ==
  ASSUME IInv, TypeOK', NEW p \in Procs, NEW j \in Jobs, Pick(p, j)
  PROVE  IInv'
<1> DEFINE cur == Loaded(p, j)
           o == op[p]
           left == o.left \ {j}
           event == Leased(o.worker, cur.attempt + 1)
           lease == [o EXCEPT !.pc = "emit", !.job = j, !.left = {}, !.then = "grant",
                              !.todo = <<event>>]
           skip == [o EXCEPT !.left = left]
<1>0. TypeOK
  BY DEF IInv
<1>1. Real(cur, fold[j])
  BY LoadedReal
<1>2. \A q \in Procs, k \in Jobs : Real(idx'[q][k], fold[k])
  BY <1>1, IndexReal DEF Pick
<1>3. o \in Op /\ Shape(p, o) /\ Grounded(o, fold) /\ o.pc = "pick"
  BY OpAt DEF Pick
<1>4. Shape(p, skip) /\ Grounded(skip, fold)
  BY <1>3, SkipShape
<1>5. ASSUME ShouldQueue(cur) PROVE Shape(p, lease) /\ Grounded(lease, fold)
  <2>1. Exists(fold[j])
    BY <1>1, <1>5 DEF ShouldQueue, Real, Exists
  <2>2. o.worker \in Workers
    BY <1>3 DEF Shape
  <2>3. event \in Event /\ event.type # "enqueued"
    <3>1. cur \in Job
      BY <1>0, CopyTypes
    <3>2. cur.attempt + 1 \in Nat
      BY <3>1 DEF Job
    <3> DEFINE n == cur.attempt + 1
    <3> HIDE DEF n
    <3>3. Leased(o.worker, n) \in Event /\ Leased(o.worker, n).type # "enqueued"
      BY <2>2, <3>2, EventTypes, EventKinds DEF n
    <3> QED
      BY <3>3 DEF n
  <2>4. /\ lease.pc = "emit" /\ lease.job = j /\ lease.then = "grant"
        /\ lease.todo = <<event>> /\ lease.worker = o.worker
    BY <1>3 DEF Op
  <2> HIDE DEF lease, event
  <2> QED
    BY <2>1, <2>2, <2>3, <2>4, LoopShape
<1>6. \/ op' = [op EXCEPT ![p] = skip]
      \/ ShouldQueue(cur) /\ op' = [op EXCEPT ![p] = lease]
  BY DEF Pick
<1>7. UNCHANGED <<fold, row, sync>>
  BY DEF Pick
<1> HIDE DEF lease, skip, cur
<1> QED
  BY <1>2, <1>4, <1>5, <1>6, <1>7, LocalStep

(* leaseJob keeps the invariant. *)
LEMMA InvLeaseJob ==
  ASSUME IInv, TypeOK', NEW p \in Procs, NEW w \in Workers, NEW j \in Jobs, LeaseJob(p, w, j)
  PROVE  IInv'
<1> DEFINE cur == Loaded(p, j)
           event == Leased(w, cur.attempt + 1)
           em == Emitting(j, <<event>>)
           next == [em EXCEPT !.worker = w, !.then = "grant"]
<1>0. TypeOK /\ cur \in Job
  BY CopyTypes DEF IInv
<1>1. Real(cur, fold[j])
  BY LoadedReal
<1>2. \A q \in Procs, k \in Jobs : Real(idx'[q][k], fold[k])
  BY <1>1, IndexReal DEF LeaseJob
<1>3. op' = op \/ op' = [op EXCEPT ![p] = next]
  BY DEF LeaseJob
<1>4. Exists(fold[j])
  BY <1>1 DEF LeaseJob, Real
<1>5. event \in Event /\ event.type # "enqueued"
  <2>1. cur.attempt + 1 \in Nat
    BY <1>0 DEF Job
  <2> DEFINE n == cur.attempt + 1
  <2> HIDE DEF n
  <2>2. Leased(w, n) \in Event /\ Leased(w, n).type # "enqueued"
    BY <2>1, EventTypes, EventKinds DEF n
  <2> QED
    BY <2>2 DEF n
<1>6. Shape(p, next) /\ Grounded(next, fold)
  <2>1. em \in Op /\ em.pc = "emit" /\ em.job = j /\ em.todo = <<event>>
    <3>1. <<event>> \in Seq(Event)
      BY <1>5
    <3> QED
      BY <3>1, EmittingType DEF Emitting, Idle
  <2> HIDE DEF em
  <2>2. next.pc = "emit" /\ next.job = j /\ next.todo = <<event>> /\ next.worker = w
        /\ next.then = "grant"
    BY <2>1 DEF Op
  <2> HIDE DEF next, event
  <2> QED
    BY <1>4, <1>5, <2>2, LoopShape
<1>7. UNCHANGED <<fold, row, sync>>
  BY DEF LeaseJob
<1>8. CASE op' = op
  <2>1. op' = [op EXCEPT ![p] = op[p]]
    BY <1>0, <1>8 DEF TypeOK
  <2> QED
    BY <1>2, <1>7, <2>1, OpAt, LocalStep
<1> HIDE DEF next
<1>9. CASE op' = [op EXCEPT ![p] = next]
  BY <1>2, <1>6, <1>7, <1>9, LocalStep
<1> QED
  BY <1>3, <1>8, <1>9

(* The start of consumeCommands keeps the invariant: only a job of the     *)
(* streams has open commands.                                              *)
LEMMA InvConsume ==
  ASSUME IInv, TypeOK', NEW p \in Procs, NEW j \in Jobs, NEW wanted, Consume(p, j, wanted)
  PROVE  IInv'
<1> DEFINE cur == Loaded(p, j)
           batch == cur.open \cap wanted
           next == [Idle EXCEPT !.pc = "drain", !.job = j, !.left = batch, !.got = batch]
<1>1. Real(cur, fold[j])
  BY LoadedReal
<1>2. \A q \in Procs, k \in Jobs : Real(idx'[q][k], fold[k])
  BY <1>1, IndexReal DEF Consume
<1>3. \/ op' = [op EXCEPT ![p] = Idle]
      \/ batch # {} /\ op' = [op EXCEPT ![p] = next]
  BY DEF Consume
<1>4. ASSUME batch # {} PROVE Shape(p, next) /\ Grounded(next, fold)
  <2>1. Exists(fold[j])
    BY <1>1, <1>4 DEF Real
  <2>2. next.pc = "drain" /\ next.job = j
    BY DEF Idle
  <2> HIDE DEF next
  <2> QED
    BY <2>1, <2>2 DEF Shape, Grounded, Acting, InSession
<1>5. UNCHANGED <<fold, row, sync>>
  BY DEF Consume
<1> HIDE DEF next, cur, batch
<1> QED
  BY <1>2, <1>3, <1>4, <1>5, IdleShape, LocalStep

(* The consumption of one command keeps the invariant. *)
LEMMA InvDrain ==
  ASSUME IInv, TypeOK', NEW p \in Procs, NEW c \in Cmds, Drain(p, c)
  PROVE  IInv'
<1> DEFINE o == op[p]
           left == o.left \ {c}
           event == Command("consumed", c)
           next == [o EXCEPT !.pc = "emit", !.left = left, !.then = "drain", !.todo = <<event>>]
<1>1. o \in Op /\ Shape(p, o) /\ Grounded(o, fold) /\ o.pc = "drain"
  BY OpAt DEF Drain
<1>2. o.job \in Jobs /\ Exists(fold[o.job])
  BY <1>1 DEF Shape, Grounded
<1>3. op' = [op EXCEPT ![p] = next] /\ idx' = idx /\ UNCHANGED <<fold, row, sync>>
  BY DEF Drain
<1>4. next.pc = "emit" /\ next.job = o.job /\ next.then = "drain" /\ next.todo = <<event>>
  BY <1>1 DEF Op
<1>5. event \in Event /\ event.type # "enqueued"
  BY EventTypes, EventKinds
<1> HIDE DEF next, event
<1>6. Shape(p, next) /\ Grounded(next, fold)
  BY <1>2, <1>4, <1>5, LoopShape
<1> QED
  BY <1>3, <1>6, CopiesStay, LocalStep

(* The return of leaseNext and of consumeCommands keeps the invariant. *)
LEMMA InvReturn ==
  ASSUME IInv, TypeOK', NEW p \in Procs, PickNone(p) \/ DrainDone(p)
  PROVE  IInv'
<1>1. op' = [op EXCEPT ![p] = Idle] /\ idx' = idx /\ UNCHANGED <<fold, row, sync>>
  BY DEF PickNone, DrainDone
<1> QED
  BY <1>1, IdleShape, CopiesStay, LocalStep

(* The start of enqueue keeps the invariant. *)
LEMMA InvEnqueue ==
  ASSUME IInv, TypeOK', NEW p \in Procs, NEW j \in Jobs, Enqueue(p, j)
  PROVE  IInv'
<1> DEFINE all == [k \in Jobs |-> IF Exists(idx[p][k]) THEN idx[p][k] ELSE Loaded(p, k)]
           next == [Idle EXCEPT !.pc = "admit", !.new = j]
<1>1. \A k \in Jobs : Real(all[k], fold[k])
  BY LoadedReal DEF IInv, CopiesInv
<1>2. idx' = idx \/ idx' = [idx EXCEPT ![p] = all]
  BY DEF Enqueue
<1>3. \A q \in Procs, k \in Jobs : Real(idx'[q][k], fold[k])
  <2> HIDE DEF all
  <2> QED
    BY <1>1, <1>2 DEF IInv, TypeOK, CopiesInv
<1>4. next.pc = "admit" /\ next.new = j
  BY DEF Idle
<1>5. op' = [op EXCEPT ![p] = next] /\ p \in Enqueuers /\ UNCHANGED <<fold, row, sync>>
  BY DEF Enqueue
<1> HIDE DEF next
<1>6. Shape(p, next) /\ Grounded(next, fold)
  BY <1>4, <1>5 DEF Shape, Grounded, Acting, InSession
<1> QED
  BY <1>3, <1>5, <1>6, LocalStep

(* The second look of enqueue keeps the invariant: a job it does not find  *)
(* is not in the streams, the jobs of the session it finds are.            *)
LEMMA InvAdmit == ASSUME IInv, TypeOK', NEW p \in Procs, Admit(p) PROVE IInv'
<1> DEFINE o == op[p]
           j == o.new
           cur == Loaded(p, j)
           left == SessionActive(p, j)
           next == [o EXCEPT !.pc = "session", !.left = left]
<1>1. o \in Op /\ Shape(p, o) /\ o.pc = "admit"
  BY OpAt DEF Admit
<1>2. j \in Jobs /\ p \in Enqueuers
  BY <1>1 DEF Shape
<1>3. Real(cur, fold[j])
  BY <1>2, LoadedReal
<1>4. UNCHANGED <<fold, row, sync>>
  BY DEF Admit
<1>5. CASE Exists(cur)
  <2>1. op' = [op EXCEPT ![p] = Idle] /\ Index(p, j, cur)
    BY <1>5 DEF Admit
  <2>2. \A q \in Procs, k \in Jobs : Real(idx'[q][k], fold[k])
    BY <1>2, <1>3, <2>1, IndexReal
  <2> QED
    BY <1>4, <2>1, <2>2, IdleShape, LocalStep
<1>6. CASE ~Exists(cur)
  <2>1. op' = [op EXCEPT ![p] = next] /\ idx' = idx
    BY <1>6 DEF Admit
  <2>2. ~Exists(fold[j])
    BY <1>6 DEF Loaded
  <2>3. \A k \in left \cap Jobs : k # j /\ Exists(fold[k])
    BY DEF SessionActive, IInv, CopiesInv, Real
  <2>4. next.pc = "session" /\ next.left = left /\ next.new = j
    BY <1>1 DEF Op
  <2> HIDE DEF next, left, j
  <2>5. Shape(p, next) /\ Grounded(next, fold)
    BY <1>2, <2>2, <2>3, <2>4 DEF Shape, Grounded, Acting, InSession
  <2> QED
    BY <1>4, <2>1, <2>5, CopiesStay, LocalStep
<1> QED
  BY <1>5, <1>6

(* An enqueue tells an earlier job of its session to end. *)
LEMMA PriorShape ==
  ASSUME NEW p, NEW f, NEW o \in Op, Shape(p, o), Grounded(o, f), o.pc = "session",
         NEW k \in o.left \cap Jobs, NEW event, event.type # "enqueued",
         NEW next, next = [o EXCEPT !.pc = "emit", !.job = k, !.left = o.left \ {k},
                                    !.then = "session", !.todo = <<event>>]
  PROVE  Shape(p, next) /\ Grounded(next, f)
<1>1. /\ next.pc = "emit" /\ next.job = k /\ next.left = o.left \ {k}
      /\ next.then = "session" /\ next.todo = <<event>> /\ next.new = o.new
  BY DEF Op
<1>2. /\ o.new \in Jobs /\ p \in Enqueuers /\ ~Exists(f[o.new])
      /\ \A i \in o.left \cap Jobs : i # o.new /\ Exists(f[i])
  BY DEF Shape, Grounded, InSession
<1>3. Head(next.todo) = event /\ next.todo # << >> /\ Len(next.todo) = 1
  BY <1>1
<1>4. Shape(p, next)
  BY <1>1, <1>2, <1>3 DEF Shape, Acting, Creates, InSession
<1>5. Grounded(next, f)
  BY <1>1, <1>2, <1>3 DEF Grounded, Acting, Creates, InSession
<1> QED
  BY <1>4, <1>5

(* Telling a job of the session to end keeps the invariant. *)
LEMMA InvPrior ==
  ASSUME IInv, TypeOK', NEW p \in Procs, NEW k \in Jobs,
         CancelPrior(p, k) \/ \E c \in Cmds : AbortPrior(p, k, c)
  PROVE  IInv'
<1> DEFINE o == op[p]
           next(event) == [o EXCEPT !.pc = "emit", !.job = k, !.left = o.left \ {k},
                                    !.then = "session", !.todo = <<event>>]
<1>1. o \in Op /\ Shape(p, o) /\ Grounded(o, fold)
  BY OpAt
<1>2. /\ k \in o.left \cap Jobs /\ o.pc = "session"
      /\ idx' = idx /\ UNCHANGED <<fold, row, sync>>
  BY DEF CancelPrior, AbortPrior
<1>3. PICK event : event.type # "enqueued" /\ op' = [op EXCEPT ![p] = next(event)]
  <2>1. CASE CancelPrior(p, k)
    BY <2>1, EventKinds DEF CancelPrior
  <2>2. ASSUME NEW c \in Cmds, AbortPrior(p, k, c)
        PROVE  \E event : event.type # "enqueued" /\ op' = [op EXCEPT ![p] = next(event)]
    BY <2>2, EventKinds DEF AbortPrior
  <2> QED
    BY <2>1, <2>2
<1>4. Shape(p, next(event)) /\ Grounded(next(event), fold)
  BY <1>1, <1>2, <1>3, PriorShape
<1> QED
  BY <1>2, <1>3, <1>4, CopiesStay, LocalStep

(* Steering a job of the session instead keeps the invariant. *)
LEMMA InvSteerPrior ==
  ASSUME IInv, TypeOK', NEW p \in Procs, NEW k \in Jobs, NEW c \in Cmds, SteerPrior(p, k, c)
  PROVE  IInv'
<1> DEFINE events == <<Command("command", c)>>
<1>1. events \in Seq(Event) /\ events # << >> /\ \A n \in 1..Len(events) : events[n].type # "enqueued"
  BY EventTypes, EventKinds
<1>2. Shape(p, op[p]) /\ Grounded(op[p], fold) /\ op[p].pc = "session" /\ k \in op[p].left
  BY OpAt DEF SteerPrior
<1>3. Exists(fold[k])
  BY <1>2 DEF Grounded, InSession
<1>4. op' = [op EXCEPT ![p] = Emitting(k, events)] /\ idx' = idx /\ UNCHANGED <<fold, row, sync>>
  BY DEF SteerPrior
<1> HIDE DEF events
<1> QED
  BY <1>1, <1>3, <1>4, EmittingShape, CopiesStay, LocalStep

(* The decision to create the job keeps the invariant. *)
LEMMA InvEnqueueNew == ASSUME IInv, TypeOK', NEW p \in Procs, EnqueueNew(p) PROVE IInv'
<1> DEFINE o == op[p]
           event == Plain("enqueued")
           next == Emitting(o.new, <<event>>)
<1>1. /\ Shape(p, o) /\ Grounded(o, fold) /\ o.pc = "session"
      /\ op' = [op EXCEPT ![p] = next] /\ idx' = idx /\ UNCHANGED <<fold, row, sync>>
  BY OpAt DEF EnqueueNew
<1>2. o.new \in Jobs /\ p \in Enqueuers /\ ~Exists(fold[o.new])
  BY <1>1 DEF Shape, Grounded, InSession
<1>3. next.pc = "emit" /\ next.job = o.new /\ next.todo = <<event>> /\ next.then = "idle"
  BY DEF Emitting, Idle
<1>4. event.type = "enqueued"
  BY EventKinds
<1> HIDE DEF next, event
<1>5. Head(next.todo) = event /\ next.todo # << >> /\ Len(next.todo) = 1
  BY <1>3
<1>6. Shape(p, next)
  BY <1>2, <1>3, <1>5 DEF Shape, Acting, Creates, InSession
<1>7. Grounded(next, fold)
  BY <1>2, <1>3, <1>4, <1>5 DEF Grounded, Acting, Creates, InSession
<1> QED
  BY <1>1, <1>6, <1>7, CopiesStay, LocalStep

(* The read of the state after an append keeps the invariant. *)
LEMMA InvReadState == ASSUME IInv, TypeOK', NEW p \in Procs, ReadState(p) PROVE IInv'
<1> DEFINE o == op[p]
           snap == fold[o.job]
           next == [o EXCEPT !.pc = "write", !.snap = snap]
<1>1. /\ o \in Op /\ Shape(p, o) /\ Grounded(o, fold) /\ o.pc = "read"
      /\ op' = [op EXCEPT ![p] = next] /\ idx' = idx /\ UNCHANGED <<fold, row, sync>>
  BY OpAt DEF ReadState
<1>2. /\ next.pc = "write" /\ next.job = o.job /\ next.todo = o.todo /\ next.then = o.then
      /\ next.left = o.left /\ next.new = o.new /\ next.worker = o.worker /\ next.snap = snap
  BY <1>1 DEF Op
<1>3. o.job \in Jobs
  BY <1>1 DEF Shape, Acting
<1>4. Real(snap, fold[o.job])
  BY <1>3, RealSelf DEF IInv
<1> HIDE DEF next, snap
<1>5. Shape(p, next)
  BY <1>1, <1>2 DEF Shape, Acting, Creates, InSession
<1>6. Grounded(next, fold)
  BY <1>1, <1>2, <1>4 DEF Grounded, Acting, InSession
<1> QED
  BY <1>1, <1>5, <1>6, CopiesStay, LocalStep

(* After a row is written the operation may rely on what it then needs. *)
LEMMA AfterShape ==
  ASSUME NEW p, NEW f, NEW o \in Op, Shape(p, o), Grounded(o, f), o.pc = "write"
  PROVE  Shape(p, After(o)) /\ Grounded(After(o), f)
<1>1. o.todo \in Seq(Event) /\ o.todo # << >> /\ o.job \in Jobs /\ Exists(f[o.job])
  BY DEF Op, Shape, Grounded, Acting
<1>2. CASE Len(o.todo) > 1
  <2> DEFINE tail == Tail(o.todo)
             next == [o EXCEPT !.pc = "emit", !.todo = tail, !.snap = NoJob]
  <2>1. /\ next.pc = "emit" /\ next.job = o.job /\ next.todo = tail /\ next.then = o.then
        /\ next.left = o.left /\ next.new = o.new /\ next.worker = o.worker
    BY DEF Op
  <2>2. /\ tail # << >>
        /\ \A n \in 1..Len(tail) : tail[n].type # "enqueued"
    <3>1. Len(tail) = Len(o.todo) - 1 /\ \A n \in 1..Len(tail) : tail[n] = o.todo[n + 1]
      BY <1>1, <1>2
    <3>2. \A n \in 2..Len(o.todo) : o.todo[n].type # "enqueued"
      BY DEF Shape, Acting
    <3>3. Len(o.todo) \in Nat
      BY <1>1
    <3>4. tail # << >>
      <4>1. Len(tail) = Len(o.todo) - 1
        BY <3>1
      <4> HIDE DEF tail
      <4>2. Len(tail) > 0
        BY <1>2, <3>3, <4>1
      <4>3. Len(<< >>) = 0
        OBVIOUS
      <4> QED
        BY <4>2, <4>3
    <3>5. ASSUME NEW n \in 1..Len(tail) PROVE tail[n].type # "enqueued"
      <4>1. n + 1 \in 2..Len(o.todo)
        BY <3>1, <3>3
      <4> QED
        BY <3>1, <3>2, <4>1
    <3> QED
      BY <3>4, <3>5
  <2>3. Head(tail).type # "enqueued"
    BY <1>1, <2>2
  <2> HIDE DEF next, tail
  <2>4. Shape(p, next)
    <3>1. \A n \in 2..Len(tail) : tail[n].type # "enqueued"
      BY <2>2
    <3> QED
      BY <1>1, <2>1, <2>2, <2>3, <3>1 DEF Shape, Acting, Creates, InSession
  <2>5. Grounded(next, f)
    BY <1>1, <2>1, <2>3 DEF Grounded, Acting, Creates, InSession
  <2>6. After(o) = next
    BY <1>2 DEF After, next, tail
  <2> QED
    BY <2>4, <2>5, <2>6
<1>3. CASE ~(Len(o.todo) > 1) /\ o.then \in {"idle", "grant"}
  BY <1>3, IdleShape DEF After
<1>4. CASE ~(Len(o.todo) > 1) /\ o.then \notin {"idle", "grant"}
  <2> DEFINE next == [o EXCEPT !.pc = o.then, !.todo = << >>, !.then = "idle", !.snap = NoJob]
  <2>1. /\ next.pc = o.then /\ next.then = "idle" /\ next.job = o.job
        /\ next.left = o.left /\ next.new = o.new
    BY DEF Op
  <2>2. o.then \in {"session", "expire", "drain"}
    BY <1>4 DEF Op
  <2>3. After(o) = next
    BY <1>4 DEF After
  <2> HIDE DEF next
  <2>4. Shape(p, next)
    BY <1>1, <2>1, <2>2 DEF Shape, Acting, InSession
  <2>5. Grounded(next, f)
    BY <1>1, <2>1, <2>2 DEF Grounded, Acting, InSession
  <2> QED
    BY <2>3, <2>4, <2>5
<1> QED
  BY <1>2, <1>3, <1>4

(* The row an event leads to is not ahead of the stream, also when a       *)
(* heartbeat touches its deadline only.                                    *)
LEMMA ProjectedReal ==
  ASSUME NEW r \in Job, NEW snap, NEW f, NEW type, Real(r, f), Real(snap, f)
  PROVE  Real(ProjectedRow(r, snap, type), f)
<1> DEFINE touched == [r EXCEPT !.lease = snap.lease]
<1>1. touched.status = r.status /\ touched.open = r.open
  BY DEF Job
<1> HIDE DEF touched
<1>2. Real(touched, f)
  BY <1>1 DEF Real, Exists, Terminal
<1> QED
  BY <1>2 DEF ProjectedRow, touched

(* The write of a row, however late, keeps the invariant. *)
LEMMA InvWriteRow == ASSUME IInv, TypeOK', NEW p \in Procs, WriteRow(p) PROVE IInv'
<1> DEFINE o == op[p]
           next == After(o)
           written == ProjectedRow(row[o.job], o.snap, Head(o.todo).type)
<1>1. o \in Op /\ Shape(p, o) /\ Grounded(o, fold) /\ o.pc = "write"
  BY OpAt DEF WriteRow
<1>2. /\ row' = [row EXCEPT ![o.job] = written] /\ Index(p, o.job, o.snap)
      /\ op' = [op EXCEPT ![p] = next] /\ UNCHANGED <<fold, sync>>
  BY DEF WriteRow, After
<1>3. o.job \in Jobs /\ Real(o.snap, fold[o.job])
  BY <1>1 DEF Shape, Grounded, Acting
<1>4. Shape(p, next) /\ Grounded(next, fold)
  BY <1>1, AfterShape
<1> HIDE DEF next
<1>5. OpInv'
  <2>1. \A q \in Procs : op'[q] = IF q = p THEN next ELSE op[q]
    BY <1>2 DEF IInv, TypeOK
  <2>2. \A q \in Procs : Shape(q, op'[q]) /\ Grounded(op'[q], fold')
    BY <1>2, <1>4, <2>1 DEF IInv, OpInv
  <2> QED
    BY <2>2 DEF OpInv
<1>6. CopiesInv'
  <2>1. \A q \in Procs, k \in Jobs : Real(idx'[q][k], fold[k])
    BY <1>2, <1>3, IndexReal
  <2>2. Real(written, fold[o.job])
    <3>1. row[o.job] \in Job /\ Real(row[o.job], fold[o.job])
      BY <1>3 DEF IInv, TypeOK, CopiesInv
    <3> QED
      BY <1>3, <3>1, ProjectedReal
  <2> HIDE DEF written
  <2>3. \A k \in Jobs : Real(row'[k], fold[k])
    BY <1>2, <2>2 DEF IInv, TypeOK, CopiesInv
  <2> QED
    BY <1>2, <2>1, <2>3 DEF IInv, CopiesInv
<1>7. FoldInv'
  BY <1>2 DEF IInv, FoldInv
<1> QED
  BY <1>5, <1>6, <1>7 DEF IInv

(* The projection sync of a follower keeps the invariant. *)
LEMMA InvSync ==
  ASSUME IInv, TypeOK', NEW p \in Procs, SyncWrite(p) \/ \E j \in Jobs : SyncRead(p, j)
  PROVE  IInv'
<1>1. UNCHANGED <<fold, idx, op>>
  BY DEF SyncWrite, SyncRead
<1>2. FoldInv' /\ OpInv'
  BY <1>1 DEF IInv, FoldInv, OpInv
<1>3. \A k \in Jobs : Real(row'[k], fold[k])
  <2>1. CASE SyncWrite(p)
    <3> DEFINE j == sync[p].job
               snap == sync[p].snap
    <3>1. j \in Jobs /\ Real(snap, fold[j])
      BY <2>1 DEF SyncWrite, IInv, TypeOK, CopiesInv
    <3>2. row' = [row EXCEPT ![j] = snap]
      BY <2>1 DEF SyncWrite
    <3> HIDE DEF j, snap
    <3> QED
      BY <3>1, <3>2 DEF IInv, TypeOK, CopiesInv
  <2>2. CASE \E j \in Jobs : SyncRead(p, j)
    BY <2>2 DEF SyncRead, IInv, CopiesInv
  <2> QED
    BY <2>1, <2>2
<1>4. \A q \in Procs : sync'[q].job # None => Real(sync'[q].snap, fold[sync'[q].job])
  <2>1. CASE SyncWrite(p)
    BY <2>1 DEF SyncWrite, NoSync, IInv, TypeOK, CopiesInv
  <2>2. ASSUME NEW j \in Jobs, SyncRead(p, j)
        PROVE  \A q \in Procs : sync'[q].job # None => Real(sync'[q].snap, fold[sync'[q].job])
    <3> DEFINE read == [job |-> j, snap |-> fold[j]]
    <3>1. Real(read.snap, fold[read.job])
      BY RealSelf DEF IInv
    <3>2. sync' = [sync EXCEPT ![p] = read]
      BY <2>2 DEF SyncRead
    <3> HIDE DEF read
    <3> QED
      BY <3>1, <3>2 DEF IInv, TypeOK, CopiesInv
  <2> QED
    BY <2>1, <2>2
<1>5. CopiesInv'
  BY <1>1, <1>3, <1>4 DEF IInv, CopiesInv
<1> QED
  BY <1>2, <1>5 DEF IInv

(* Exceptions, crashes and ends of runs keep the invariant. *)
LEMMA InvFaults ==
  ASSUME IInv, TypeOK', \/ \E p \in Procs : Throw(p) \/ Crash(p)
                        \/ \E r \in runs : EndRun(r)
  PROVE  IInv'
<1>1. ASSUME NEW p \in Procs, Throw(p) PROVE IInv'
  <2>1. op' = [op EXCEPT ![p] = Idle] /\ idx' = idx /\ UNCHANGED <<fold, row, sync>>
    BY <1>1 DEF Throw
  <2> QED
    BY <2>1, IdleShape, CopiesStay, LocalStep
<1>2. ASSUME NEW p \in Procs, Crash(p) PROVE IInv'
  <2>1. /\ op' = [op EXCEPT ![p] = Idle] /\ idx' = [idx EXCEPT ![p] = [j \in Jobs |-> NoJob]]
        /\ sync' = [sync EXCEPT ![p] = NoSync] /\ UNCHANGED <<fold, row>>
    BY <1>2 DEF Crash
  <2>2. OpInv'
    <3>1. \A q \in Procs : op'[q] = IF q = p THEN Idle ELSE op[q]
      BY <2>1 DEF IInv, TypeOK
    <3>2. \A q \in Procs : Shape(q, op'[q]) /\ Grounded(op'[q], fold')
      BY <2>1, <3>1, IdleShape DEF IInv, OpInv
    <3> QED
      BY <3>2 DEF OpInv
  <2>3. \A q \in Procs, k \in Jobs : Real(idx'[q][k], fold[k])
    BY <2>1, NoJobReal DEF IInv, TypeOK, CopiesInv
  <2>4. \A q \in Procs : sync'[q].job # None => Real(sync'[q].snap, fold[sync'[q].job])
    BY <2>1 DEF NoSync, IInv, TypeOK, CopiesInv
  <2>5. FoldInv' /\ CopiesInv'
    BY <2>1, <2>3, <2>4 DEF IInv, FoldInv, CopiesInv
  <2> QED
    BY <2>2, <2>5 DEF IInv
<1>3. ASSUME NEW r \in runs, EndRun(r) PROVE IInv'
  BY <1>3 DEF EndRun, IInv, FoldInv, CopiesInv, OpInv
<1> QED
  BY <1>1, <1>2, <1>3

-----------------------------------------------------------------------------
(* The reducer. *)

(* An event that creates a job only where there is none leads to a job, and *)
(* leaves a finished one as it finished.                                    *)
LEMMA ReduceGrows ==
  ASSUME NEW r \in Job, NEW e \in Event, e.type = "enqueued" <=> ~Exists(r)
  PROVE  /\ Exists(Reduce(r, e))
         /\ Terminal(r) => Reduce(r, e).status = r.status
<1>1. CASE e.type = "enqueued"
  <2>1. Reduce(r, e) = [NoJob EXCEPT !.status = "queued"]
    BY <1>1 DEF Reduce, Applies, Effect
  <2>2. Reduce(r, e).status = "queued"
    BY <2>1 DEF NoJob
  <2> QED
    BY <1>1, <2>2 DEF Exists, Terminal
<1>2. CASE e.type # "enqueued" /\ ~Applies(r, e)
  BY <1>2 DEF Reduce
<1>3. CASE e.type # "enqueued" /\ Applies(r, e)
  <2> DEFINE g == Effect(r, e)
  <2>1. Reduce(r, e) = g
    BY <1>3 DEF Reduce
  <2>2. CASE e.type \in {"command", "consumed"}
    <3>1. g.status = r.status
      BY <2>2 DEF Effect, Job
    <3> QED
      BY <1>3, <2>1, <3>1 DEF Exists
  <2>3. CASE e.type \notin {"command", "consumed"}
    <3>1. ~Terminal(r)
      BY <1>3, <2>3 DEF Applies, Terminal, Active
    <3>2. g.status # "none"
      <4>1. CASE e.type = "leased"
        BY <4>1 DEF Effect, Job
      <4>2. CASE e.type \in {"heartbeat", "progress"}
        BY <4>2 DEF Effect, Job
      <4>3. CASE e.type = "completed"
        BY <4>3 DEF Effect, Job
      <4>4. CASE e.type \in {"failed", "lease_expired"}
        BY <4>4 DEF Effect, Release, Job
      <4>5. CASE e.type = "canceled"
        BY <4>5 DEF Effect, Job
      <4> QED
        BY <1>3, <2>3, <4>1, <4>2, <4>3, <4>4, <4>5 DEF Event
    <3> QED
      BY <2>1, <3>1, <3>2 DEF Exists
  <2> QED
    BY <2>2, <2>3
<1> QED
  BY <1>1, <1>2, <1>3

(* What the operation of q relies on survives a step of the streams that   *)
(* loses no job and, if q is the one who enqueues, creates none.           *)
LEMMA GroundedGrows ==
  ASSUME NEW q, NEW o, NEW f, NEW g, Shape(q, o), Grounded(o, f),
         \A k \in Jobs : /\ Exists(f[k]) => Exists(g[k])
                         /\ Terminal(f[k]) => g[k].status = f[k].status,
         q \in Enqueuers => \A k \in Jobs : Exists(g[k]) => Exists(f[k])
  PROVE  Grounded(o, g)
<1>1. o.pc = "emit" => (Creates(o) <=> ~Exists(g[o.job]))
  BY DEF Shape, Grounded, Acting
<1>2. o.pc \in {"read", "write", "drain"} => o.job \in Jobs /\ Exists(g[o.job])
  BY DEF Shape, Grounded, Acting
<1>3. o.pc = "write" => Real(o.snap, g[o.job])
  <2> SUFFICES ASSUME o.pc = "write" PROVE Real(o.snap, g[o.job])
    OBVIOUS
  <2>1. o.job \in Jobs /\ Real(o.snap, f[o.job])
    BY <1>2 DEF Grounded
  <2> QED
    BY <2>1, RealGrows
<1>4. InSession(o) => /\ ~Exists(g[o.new])
                      /\ \A k \in o.left \cap Jobs : k # o.new /\ Exists(g[k])
  BY DEF Shape, Grounded
<1> QED
  BY <1>1, <1>2, <1>3, <1>4 DEF Grounded

(* An append keeps the invariant.  Of the operations of the other          *)
(* processes none creates a job, so none relied on the absence of the one  *)
(* that is created.                                                        *)
LEMMA InvEmit ==
  ASSUME SingleEnqueuer, IInv, TypeOK', NEW p \in Procs, Emit(p)
  PROVE  IInv'
<1> DEFINE o == op[p]
           j == o.job
           e == Head(o.todo)
           next == [o EXCEPT !.pc = "read"]
<1>1. o \in Op /\ Shape(p, o) /\ Grounded(o, fold) /\ o.pc = "emit"
  BY OpAt DEF Emit
<1>2. j \in Jobs /\ o.todo # << >>
  BY <1>1 DEF Shape, Acting
<1>3. fold[j] \in Job /\ e \in Event
  BY <1>1, <1>2 DEF IInv, TypeOK, Op
<1>4. e.type = "enqueued" <=> ~Exists(fold[j])
  BY <1>1 DEF Grounded, Creates
<1>5. \A k \in Jobs : fold'[k] = IF k = j THEN Reduce(fold[j], e) ELSE fold[k]
  BY <1>2 DEF Emit, IInv, TypeOK
<1>6. UNCHANGED <<row, idx, sync>> /\ \A q \in Procs : op'[q] = IF q = p THEN next ELSE op[q]
  BY DEF Emit, IInv, TypeOK
<1>7. /\ next.pc = "read" /\ next.job = j /\ next.todo = o.todo /\ next.then = o.then
      /\ next.left = o.left /\ next.new = o.new /\ next.worker = o.worker
  BY <1>1 DEF Op
<1>8. /\ Exists(fold'[j])
      /\ Terminal(fold[j]) => fold'[j].status = fold[j].status
  BY <1>2, <1>3, <1>4, <1>5, ReduceGrows
<1>9. \A k \in Jobs : /\ Exists(fold[k]) => Exists(fold'[k])
                      /\ Terminal(fold[k]) => fold'[k].status = fold[k].status
  BY <1>5, <1>8
<1> HIDE DEF next, e
<1>10. FoldInv'
  BY <1>5, <1>8 DEF IInv, FoldInv
<1>11. CopiesInv'
  <2>1. \A k \in Jobs : Real(row'[k], fold'[k])
    BY <1>6, <1>9, RealGrows DEF IInv, CopiesInv
  <2>2. \A q \in Procs, k \in Jobs : Real(idx'[q][k], fold'[k])
    BY <1>6, <1>9, RealGrows DEF IInv, CopiesInv
  <2>3. ASSUME NEW q \in Procs, sync'[q].job # None
        PROVE  Real(sync'[q].snap, fold'[sync'[q].job])
    <3>1. sync[q].job \in Jobs
      BY <1>6, <2>3 DEF IInv, TypeOK
    <3>2. Real(sync[q].snap, fold[sync[q].job])
      BY <1>6, <2>3 DEF IInv, CopiesInv
    <3> QED
      BY <1>6, <1>9, <3>1, <3>2, RealGrows
  <2> QED
    BY <2>1, <2>2, <2>3 DEF CopiesInv
<1>12. Shape(p, next) /\ Grounded(next, fold')
  <2>1. Shape(p, next)
    BY <1>1, <1>7 DEF Shape, Acting, Creates, InSession
  <2>2. InSession(next) => /\ ~Exists(fold'[o.new])
                           /\ \A k \in o.left \cap Jobs : k # o.new /\ Exists(fold'[k])
    <3> SUFFICES ASSUME InSession(next)
                 PROVE  /\ ~Exists(fold'[o.new])
                        /\ \A k \in o.left \cap Jobs : k # o.new /\ Exists(fold'[k])
      OBVIOUS
    <3>1. o.then = "session" /\ InSession(o)
      BY <1>1, <1>7 DEF InSession, Acting
    <3>2. o.new \in Jobs /\ o.new # j
      BY <1>1, <3>1 DEF Shape, Grounded, Acting
    <3> QED
      BY <1>1, <1>5, <1>9, <3>1, <3>2 DEF Grounded
  <2>3. next.then = "session" => j # o.new
    BY <1>1, <1>7 DEF Grounded, Acting
  <2> QED
    BY <1>7, <1>8, <2>1, <2>2, <2>3 DEF Grounded
<1>13. ASSUME NEW q \in Procs, q # p PROVE Shape(q, op[q]) /\ Grounded(op[q], fold')
  <2>1. Shape(q, op[q]) /\ Grounded(op[q], fold)
    BY OpAt
  <2>2. q \in Enqueuers => \A k \in Jobs : Exists(fold'[k]) => Exists(fold[k])
    <3> SUFFICES ASSUME q \in Enqueuers, ~Exists(fold[j]) PROVE FALSE
      BY <1>5
    <3>1. p \in Enqueuers
      BY <1>1, <1>4 DEF Shape, Acting, Creates, e
    <3> QED
      BY <1>13, <3>1 DEF SingleEnqueuer
  <2> QED
    BY <1>9, <2>1, <2>2, GroundedGrows
<1>14. OpInv'
  <2>1. \A q \in Procs : Shape(q, op'[q]) /\ Grounded(op'[q], fold')
    BY <1>6, <1>12, <1>13
  <2> QED
    BY <2>1 DEF OpInv
<1> QED
  BY <1>10, <1>11, <1>14 DEF IInv

-----------------------------------------------------------------------------
(* Time changes deadlines only. *)
LEMMA AgeKeeps ==
  ASSUME NEW r \in Job
  PROVE  Age(r).status = r.status /\ Age(r).open = r.open /\ Age(r).abort = r.abort
  BY DEF Age, Job

(* A copy and a stream whose deadlines pass stay as they were to each      *)
(* other.                                                                  *)
LEMMA RealAges ==
  ASSUME NEW r \in Job, NEW f \in Job, Real(r, f)
  PROVE  Real(Age(r), Age(f))
  BY AgeKeeps DEF Real, Exists, Terminal

(* The passing of all deadlines keeps the invariant. *)
LEMMA InvTimePasses == ASSUME IInv, TypeOK', TimePasses PROVE IInv'
<1>1. \A j \in Jobs : /\ fold[j] \in Job /\ row[j] \in Job
                      /\ fold'[j] = Age(fold[j]) /\ row'[j] = Age(row[j])
  BY DEF TimePasses, IInv, TypeOK
<1>2. \A q \in Procs, j \in Jobs : idx[q][j] \in Job /\ idx'[q][j] = Age(idx[q][j])
  BY DEF TimePasses, IInv, TypeOK
<1>3. FoldInv'
  <2>1. Age(NoJob) = NoJob
    BY DEF Age, NoJob
  <2> QED
    BY <1>1, <2>1, AgeKeeps DEF IInv, FoldInv, Exists
<1>4. CopiesInv'
  <2>1. \A j \in Jobs : Real(row'[j], fold'[j])
    BY <1>1, RealAges DEF IInv, CopiesInv
  <2>2. \A q \in Procs, j \in Jobs : Real(idx'[q][j], fold'[j])
    BY <1>1, <1>2, RealAges DEF IInv, CopiesInv
  <2>3. ASSUME NEW q \in Procs, sync'[q].job # None
        PROVE  Real(sync'[q].snap, fold'[sync'[q].job])
    <3>1. sync[q] \in [job : Jobs \cup {None}, snap : Job]
      BY DEF IInv, TypeOK
    <3>2. sync'[q] = [sync[q] EXCEPT !.snap = Age(sync[q].snap)]
      BY DEF TimePasses
    <3>3. sync'[q].job = sync[q].job /\ sync'[q].snap = Age(sync[q].snap)
      BY <3>1, <3>2
    <3>4. sync[q].job \in Jobs /\ sync[q].snap \in Job /\ Real(sync[q].snap, fold[sync[q].job])
      BY <2>3, <3>1, <3>3 DEF IInv, CopiesInv
    <3> QED
      BY <1>1, <3>3, <3>4, RealAges
  <2> QED
    BY <2>1, <2>2, <2>3 DEF CopiesInv
<1>5. OpInv'
  <2>1. ASSUME NEW q \in Procs PROVE Shape(q, op'[q]) /\ Grounded(op'[q], fold')
    <3> DEFINE o == op[q]
               next == op'[q]
    <3>1. o \in Op /\ Shape(q, o) /\ Grounded(o, fold)
      BY OpAt
    <3>2. next = [o EXCEPT !.snap = Age(o.snap)]
      BY DEF TimePasses
    <3>3. /\ next.pc = o.pc /\ next.job = o.job /\ next.todo = o.todo /\ next.then = o.then
          /\ next.left = o.left /\ next.new = o.new /\ next.worker = o.worker
          /\ next.snap = Age(o.snap)
      BY <3>1, <3>2 DEF Op
    <3> HIDE DEF next
    <3>4. Shape(q, next)
      BY <3>1, <3>3 DEF Shape, Acting, Creates, InSession
    <3>5. \A k \in Jobs : /\ Exists(fold[k]) <=> Exists(fold'[k])
                          /\ Terminal(fold[k]) => fold'[k].status = fold[k].status
      BY <1>1, AgeKeeps DEF Exists
    <3>6. Grounded(o, fold')
      BY <3>1, <3>5, GroundedGrows
    <3>7. next.pc = "write" => Real(next.snap, fold'[next.job])
      <4> SUFFICES ASSUME o.pc = "write" PROVE Real(Age(o.snap), fold'[o.job])
        BY <3>3
      <4>1. o.job \in Jobs /\ o.snap \in Job /\ Real(o.snap, fold[o.job])
        BY <3>1 DEF Shape, Grounded, Acting, Op
      <4> QED
        BY <1>1, <4>1, RealAges
    <3>8. Grounded(next, fold')
      BY <3>3, <3>6, <3>7 DEF Grounded, Acting, Creates, InSession
    <3> QED
      BY <3>4, <3>8 DEF next
  <2> QED
    BY <2>1 DEF OpInv
<1> QED
  BY <1>3, <1>4, <1>5 DEF IInv

-----------------------------------------------------------------------------
(* The invariant is inductive. *)
LEMMA InitInv == Init => IInv
<1> SUFFICES ASSUME Init PROVE IInv
  OBVIOUS
<1>1. TypeOK
  <2>1. NoSync \in [job : Jobs \cup {None}, snap : Job]
    BY NoJobType DEF NoSync
  <2> QED
    BY <2>1, NoJobType, IdleType DEF Init, TypeOK
<1>2. FoldInv
  BY DEF Init, FoldInv
<1>3. CopiesInv
  BY NoJobReal DEF Init, CopiesInv, NoSync
<1>4. OpInv
  BY IdleShape DEF Init, OpInv
<1> QED
  BY <1>1, <1>2, <1>3, <1>4 DEF IInv

(* Every call of a worker keeps the invariant. *)
LEMMA WorkerCallInv ==
  ASSUME IInv, NEW p \in Procs, NEW w \in Workers, NEW j \in Jobs, WorkerCall(p, w, j)
  PROVE  IInv'
<1>0. TypeOK
  BY DEF IInv
<1>1. CASE \/ Heartbeat(p, w, j) \/ Progress(p, w, j) \/ Complete(p, w, j)
           \/ \E noRetry \in BOOLEAN : Fail(p, w, j, noRetry)
  <2>1. TypeOK'
    BY <1>0, <1>1, TypeWorkerReport
  <2> QED
    BY <1>1, <2>1, InvWorkerReport
<1>2. CASE LeaseNext(p, w)
  BY <1>0, <1>2, TypeLeaseNext, InvLeaseNext
<1>3. CASE LeaseJob(p, w, j)
  BY <1>0, <1>3, TypeLeaseJob, InvLeaseJob
<1> QED
  BY <1>1, <1>2, <1>3 DEF WorkerCall

(* Every call of a client keeps the invariant. *)
LEMMA ClientCallInv ==
  ASSUME IInv, NEW p \in Procs, NEW j \in Jobs, ClientCall(p, j)
  PROVE  IInv'
<1>0. TypeOK
  BY DEF IInv
<1>1. CASE GetJob(p, j) \/ Cancel(p, j) \/ \E c \in Cmds : QueueCommand(p, j, c)
  <2>1. TypeOK'
    BY <1>0, <1>1, TypeClient
  <2> QED
    BY <1>1, <2>1, InvClient
<1>2. CASE Enqueue(p, j)
  BY <1>0, <1>2, TypeEnqueue, InvEnqueue
<1>3. CASE Refresh(p)
  BY <1>0, <1>3, TypeRefresh, InvRefresh
<1>4. ASSUME NEW wanted \in {Cmds, AbortCmds}, Consume(p, j, wanted) PROVE IInv'
  <2>1. wanted \in SUBSET Cmds
    BY RecordAssumption
  <2>2. TypeOK'
    BY <1>0, <1>4, <2>1, TypeConsume
  <2> QED
    BY <1>4, <2>2, InvConsume
<1> QED
  BY <1>1, <1>2, <1>3, <1>4 DEF ClientCall

(* Every step of an operation keeps the invariant. *)
LEMMA OpStepInv ==
  ASSUME SingleEnqueuer, IInv, NEW p \in Procs, OpStep(p)
  PROVE  IInv'
<1>0. TypeOK /\ Shape(p, op[p])
  BY OpAt DEF IInv
<1>1. ASSUME NEW j \in Jobs, ExpireScan(p, j) PROVE IInv'
  BY <1>0, <1>1, TypeExpireScan, InvExpireScan
<1>2. ASSUME NEW j \in Jobs, Pick(p, j) PROVE IInv'
  BY <1>0, <1>2, TypePick, InvPick
<1>3. ASSUME \/ Admit(p) \/ EnqueueNew(p)
             \/ \E k \in Jobs : CancelPrior(p, k)
                             \/ \E c \in Cmds : AbortPrior(p, k, c) \/ SteerPrior(p, k, c)
      PROVE  IInv'
  <2>1. op[p].pc \in {"admit", "session"} => op[p].new \in Jobs
    BY <1>0 DEF Shape, InSession
  <2>2. TypeOK'
    BY <1>0, <1>3, <2>1, TypeSession
  <2> QED
    BY <1>3, <2>2, InvAdmit, InvEnqueueNew, InvPrior, InvSteerPrior
<1>4. ASSUME NEW c \in Cmds, Drain(p, c) PROVE IInv'
  BY <1>0, <1>4, TypeDrain, InvDrain
<1>5. CASE ExpireDone(p)
  BY <1>0, <1>5, TypeExpireDone, InvExpireDone
<1>6. CASE PickNone(p) \/ DrainDone(p)
  <2>1. TypeOK'
    BY <1>0, <1>6, TypeDrainDone, IdleType DEF PickNone, TypeOK
  <2> QED
    BY <1>6, <2>1, InvReturn
<1>7. CASE Emit(p)
  BY <1>0, <1>7, TypeEmit, InvEmit
<1>8. CASE ReadState(p)
  BY <1>0, <1>8, TypeReadState, InvReadState
<1>9. CASE WriteRow(p)
  BY <1>0, <1>9, TypeWriteRow, InvWriteRow
<1> QED
  BY <1>1, <1>2, <1>3, <1>4, <1>5, <1>6, <1>7, <1>8, <1>9 DEF OpStep

(* Every step keeps the invariant. *)
LEMMA NextInv == ASSUME SingleEnqueuer, IInv, [Next]_vars PROVE IInv'
<1>0. TypeOK
  BY DEF IInv
<1>1. ASSUME NEW p \in Procs, NEW w \in Workers, NEW j \in Jobs, WorkerCall(p, w, j)
      PROVE  IInv'
  BY <1>1, WorkerCallInv
<1>2. ASSUME NEW p \in Procs, NEW j \in Jobs, ClientCall(p, j) PROVE IInv'
  BY <1>2, ClientCallInv
<1>3. ASSUME NEW p \in Procs, OpStep(p) PROVE IInv'
  BY <1>3, OpStepInv
<1>4. ASSUME NEW p \in Procs, SyncWrite(p) \/ \E j \in Jobs : SyncRead(p, j) PROVE IInv'
  <2>1. TypeOK'
    BY <1>0, <1>4, TypeSync
  <2> QED
    BY <1>4, <2>1, InvSync
<1>5. ASSUME \/ \E p \in Procs : Throw(p) \/ Crash(p)
             \/ \E r \in runs : EndRun(r)
      PROVE  IInv'
  <2>1. TypeOK'
    BY <1>0, <1>5, TypeFaults
  <2> QED
    BY <1>5, <2>1, InvFaults
<1>6. CASE TimePasses
  BY <1>0, <1>6, TypeTimePasses, InvTimePasses
<1>7. CASE UNCHANGED vars
  BY <1>7 DEF vars, IInv, TypeOK, FoldInv, CopiesInv, OpInv
<1> QED
  BY <1>1, <1>2, <1>3, <1>4, <1>5, <1>6, <1>7 DEF Next

(* Types and the agreement of all copies with their streams, in every      *)
(* reachable state of any number of processes, workers, jobs and faults.   *)
THEOREM Inductive == ASSUME SingleEnqueuer PROVE Spec => []IInv
<1>1. Init => IInv
  BY InitInv
<1>2. IInv /\ [Next]_vars => IInv'
  BY NextInv
<1> QED
  BY <1>1, <1>2, PTL DEF Spec

(* Every variable keeps the type its module gives it. *)
THEOREM TypeCorrect == ASSUME SingleEnqueuer PROVE Spec => []TypeOK
<1>1. IInv => TypeOK
  BY DEF IInv
<1> QED
  BY <1>1, Inductive, PTL

(* No process reports an outcome the stream does not have, however stale   *)
(* the row or the index it answers from.                                   *)
THEOREM RealOutcomes == ASSUME SingleEnqueuer PROVE Spec => []OutcomesAreReal
<1>1. IInv => OutcomesAreReal
  BY DEF IInv, CopiesInv, Real, OutcomesAreReal
<1> QED
  BY <1>1, Inductive, PTL

(* No operation appends an event to a stream it does not fit. *)
THEOREM EventsAlwaysFit == ASSUME SingleEnqueuer PROVE Spec => []EventsFit
<1>1. IInv => EventsFit
  BY DEF IInv, OpInv, Grounded, Creates, EventsFit
<1> QED
  BY <1>1, Inductive, PTL

-----------------------------------------------------------------------------
(* What a step does to the streams: nothing, one event that creates a job  *)
(* just when there is none, or the time.                                   *)
Appends(j, e) ==
  /\ e.type = "enqueued" <=> ~Exists(fold[j])
  /\ fold' = [fold EXCEPT ![j] = Reduce(fold[j], e)]

(* A step leaves the streams alone, appends one event, or is the time. *)
LEMMA StreamSteps ==
  ASSUME IInv, [Next]_vars
  PROVE  \/ fold' = fold
         \/ \E j \in Jobs, e \in Event : Appends(j, e)
         \/ fold' = [j \in Jobs |-> Age(fold[j])]
<1>1. ASSUME NEW p \in Procs, NEW w \in Workers, NEW j \in Jobs, WorkerCall(p, w, j)
      PROVE  fold' = fold
  BY <1>1 DEF WorkerCall, Heartbeat, Progress, Complete, Fail, Report, LeaseNext, LeaseJob
<1>2. ASSUME NEW p \in Procs, NEW j \in Jobs, ClientCall(p, j) PROVE fold' = fold
  BY <1>2 DEF ClientCall, GetJob, Cancel, Enqueue, Refresh, QueueCommand, Consume
<1>3. ASSUME NEW p \in Procs, OpStep(p)
      PROVE  fold' = fold \/ \E j \in Jobs, e \in Event : Appends(j, e)
  <2>1. CASE Emit(p)
    <3> DEFINE o == op[p]
               e == Head(o.todo)
    <3>1. o \in Op /\ Shape(p, o) /\ Grounded(o, fold) /\ o.pc = "emit"
      BY <2>1, OpAt DEF Emit
    <3>2. o.job \in Jobs /\ o.todo # << >>
      BY <3>1 DEF Shape, Acting
    <3>3. e \in Event
      BY <3>1, <3>2 DEF Op
    <3>4. Appends(o.job, e)
      BY <2>1, <3>1 DEF Appends, Grounded, Creates, Emit
    <3> QED
      BY <3>2, <3>3, <3>4
  <2>2. CASE ~Emit(p)
    BY <1>3, <2>2 DEF OpStep, ExpireScan, Pick, CancelPrior, AbortPrior, SteerPrior, Drain,
      ExpireDone, PickNone, DrainDone, Admit, EnqueueNew, ReadState, WriteRow
  <2> QED
    BY <2>1, <2>2
<1>4. CASE \/ \E p \in Procs, j \in Jobs : SyncRead(p, j)
           \/ \E p \in Procs : SyncWrite(p) \/ Throw(p) \/ Crash(p)
           \/ \E r \in runs : EndRun(r)
           \/ UNCHANGED vars
  BY <1>4 DEF SyncRead, SyncWrite, Throw, Crash, EndRun, vars
<1>5. CASE TimePasses
  BY <1>5 DEF TimePasses
<1> QED
  BY <1>1, <1>2, <1>3, <1>4, <1>5 DEF Next

(* A finished job stays finished with the outcome it has. *)
THEOREM FinalOutcomes == ASSUME SingleEnqueuer PROVE Spec => TerminalIsFinal
<1>1. IInv /\ [Next]_vars
        => [\A j \in Jobs : Terminal(fold[j]) => fold'[j].status = fold[j].status]_fold
  <2> SUFFICES ASSUME IInv, [Next]_vars, NEW j \in Jobs, Terminal(fold[j]), fold' # fold
               PROVE  fold'[j].status = fold[j].status
    OBVIOUS
  <2>1. fold \in [Jobs -> Job]
    BY DEF IInv, TypeOK
  <2>2. ASSUME NEW k \in Jobs, NEW e \in Event, Appends(k, e)
        PROVE  fold'[j].status = fold[j].status
    <3>1. CASE j = k
      BY <2>1, <2>2, <3>1, ReduceGrows DEF Appends
    <3>2. CASE j # k
      BY <2>1, <2>2, <3>2 DEF Appends
    <3> QED
      BY <3>1, <3>2
  <2>3. CASE fold' = [k \in Jobs |-> Age(fold[k])]
    BY <2>1, <2>3, AgeKeeps
  <2> QED
    BY <2>2, <2>3, StreamSteps
<1> QED
  BY <1>1, Inductive, PTL DEF Spec, TerminalIsFinal

-----------------------------------------------------------------------------
(* The lifecycle. *)

(* An event moves a job along its lifecycle, or leaves it where it is. *)
Moves(a, b) ==
  \/ b = a
  \/ a.phase = "none" /\ b = [a EXCEPT !.phase = "queued"]
  \/ a.phase = "queued" /\ b = [a EXCEPT !.phase = "active"]
  \/ a.phase = "active" /\ \E to \in {"queued", "completed", "failed"} : b = [a EXCEPT !.phase = to]
  \/ a.phase \in {"queued", "active"} /\ b = [phase |-> "canceled", abort |-> TRUE]
  \/ a.phase # "none" /\ b = [a EXCEPT !.abort = TRUE]

(* An event of the queue moves the job it is about along the lifecycle,    *)
(* whatever state the job is in when the event is appended.                *)
LEMMA EventMoves ==
  ASSUME NEW r \in Job, NEW e \in Event, e.type = "enqueued" <=> ~Exists(r),
         ~Exists(r) => r = NoJob
  PROVE  Moves(LifecycleOf(r), LifecycleOf(Reduce(r, e)))
<1> DEFINE a == LifecycleOf(r)
           g == Effect(r, e)
           b == LifecycleOf(g)
<1>1. a.phase = (IF Active(r) THEN "active" ELSE r.status) /\ a.abort = r.abort
  BY DEF LifecycleOf
<1>2. b = [phase |-> IF Active(g) THEN "active" ELSE g.status, abort |-> g.abort]
  BY DEF LifecycleOf
<1>3. ASSUME NEW to PROVE [a EXCEPT !.phase = to] = [phase |-> to, abort |-> r.abort]
  <2> DEFINE x == IF Active(r) THEN "active" ELSE r.status
  <2>1. a = [phase |-> x, abort |-> r.abort]
    BY DEF LifecycleOf
  <2> HIDE DEF a, x
  <2> QED
    BY <2>1
<1>4. [a EXCEPT !.abort = TRUE] = [phase |-> a.phase, abort |-> TRUE]
      /\ a = [phase |-> a.phase, abort |-> r.abort]
  <2> DEFINE x == IF Active(r) THEN "active" ELSE r.status
             y == r.abort
  <2>1. a = [phase |-> x, abort |-> y]
    BY DEF LifecycleOf
  <2> HIDE DEF a, x, y
  <2>2. a.phase = x
    BY <2>1
  <2>3. ASSUME NEW t PROVE [a EXCEPT !.abort = t] = [phase |-> x, abort |-> t]
    BY <2>1
  <2> QED
    BY <2>1, <2>2, <2>3 DEF y
<1>5. CASE ~Applies(r, e)
  BY <1>5 DEF Reduce, Moves
<1>6. CASE Applies(r, e)
  <2>0. Reduce(r, e) = g
    BY <1>6 DEF Reduce
  <2>1. CASE e.type = "enqueued"
    <3>1. g.status = "queued" /\ g.abort = r.abort /\ r.status = "none"
      BY <2>1 DEF Effect, NoJob, Exists
    <3>2. b = [a EXCEPT !.phase = "queued"]
      BY <1>2, <1>3, <3>1 DEF Active
    <3>3. Moves(a, b)
      <4> HIDE DEF a, b, g
      <4> QED
        BY <1>1, <3>1, <3>2 DEF Moves, Active
    <3> QED
      BY <2>0, <3>3
  <2>2. CASE e.type = "leased"
    <3>1. g.status = "leased" /\ g.abort = r.abort /\ r.status = "queued"
      BY <1>6, <2>2 DEF Effect, Applies, Job
    <3>2. b = [a EXCEPT !.phase = "active"]
      BY <1>2, <1>3, <3>1 DEF Active
    <3>3. Moves(a, b)
      <4> HIDE DEF a, b, g
      <4> QED
        BY <1>1, <3>1, <3>2 DEF Moves, Active
    <3> QED
      BY <2>0, <3>3
  <2>3. CASE e.type \in {"heartbeat", "progress"}
    <3>1. g.status = "running" /\ g.abort = r.abort /\ Active(r)
      BY <1>6, <2>3 DEF Effect, Applies, Job
    <3> HIDE DEF a, b, g
    <3> QED
      BY <1>1, <1>2, <1>4, <2>0, <3>1 DEF Moves, Active, a, b
  <2>4. CASE e.type \in {"completed", "failed", "lease_expired"}
    <3>1. g.status \in {"queued", "completed", "failed"} /\ g.abort = r.abort /\ Active(r)
      <4>1. CASE e.type = "completed"
        BY <1>6, <4>1 DEF Effect, Applies, Job
      <4>2. CASE e.type \in {"failed", "lease_expired"}
        BY <1>6, <4>2 DEF Effect, Release, Applies, Job
      <4> QED
        BY <2>4, <4>1, <4>2
    <3>2. b = [a EXCEPT !.phase = g.status]
      BY <1>2, <1>3, <3>1 DEF Active
    <3>3. Moves(a, b)
      <4> HIDE DEF a, b, g
      <4> QED
        BY <1>1, <3>1, <3>2 DEF Moves, Active
    <3> QED
      BY <2>0, <3>3
  <2>5. CASE e.type = "canceled"
    <3>1. g.status = "canceled" /\ g.abort = TRUE
      BY <2>5 DEF Effect, Job
    <3>2. r.status \in {"queued", "leased", "running"}
      BY <1>6, <2>5 DEF Applies, Terminal, Exists, Job, Statuses
    <3> HIDE DEF a, b, g
    <3> QED
      BY <1>1, <1>2, <2>0, <3>1, <3>2 DEF Moves, Active, a, b
  <2>6. CASE e.type = "command"
    <3>1. g.status = r.status /\ g.abort = (r.abort \/ e.cmds \subseteq AbortCmds)
      BY <2>6 DEF Effect, Job
    <3>2. r.abort \in BOOLEAN /\ r.status # "none"
      BY <2>6 DEF Exists, Job
    <3>3. g.abort = r.abort \/ g.abort = TRUE
      BY <3>1, <3>2
    <3> HIDE DEF a, b, g
    <3> QED
      BY <1>1, <1>2, <1>4, <2>0, <3>1, <3>2, <3>3 DEF Moves, Active, a, b
  <2>7. CASE e.type = "consumed"
    <3>1. g.status = r.status /\ g.abort = r.abort
      BY <2>7 DEF Effect, Job
    <3> HIDE DEF a, b, g
    <3> QED
      BY <1>1, <1>2, <1>4, <2>0, <3>1 DEF Moves, Active, a, b
  <2> QED
    BY <2>1, <2>2, <2>3, <2>4, <2>5, <2>6, <2>7 DEF Event
<1> QED
  BY <1>5, <1>6

(* What the readers of the streams see of the jobs. *)
Seen == [j \in Jobs |-> LifecycleOf(fold[j])]

(* A move of one job is a step of JobLifecycle, or none. *)
LEMMA MoveSteps ==
  ASSUME NEW j \in Jobs, NEW b, Moves(Seen[j], b), Seen' = [Seen EXCEPT ![j] = b]
  PROVE  [Lifecycle!Next]_Seen
<1> DEFINE a == Seen[j]
<1>1. CASE b = a
  BY <1>1 DEF Seen
<1>2. CASE a.phase = "none" /\ b = [a EXCEPT !.phase = "queued"]
  <2>1. Lifecycle!Enqueue(j)
    BY <1>2 DEF Lifecycle!Enqueue, Lifecycle!Phase, Lifecycle!Move, Seen
  <2> QED
    BY <2>1 DEF Lifecycle!Next
<1>3. CASE a.phase = "queued" /\ b = [a EXCEPT !.phase = "active"]
  <2>1. Lifecycle!Lease(j)
    BY <1>3 DEF Lifecycle!Lease, Lifecycle!Phase, Lifecycle!Move, Seen
  <2> QED
    BY <2>1 DEF Lifecycle!Next
<1>4. ASSUME a.phase = "active", NEW to \in {"queued", "completed", "failed"},
             b = [a EXCEPT !.phase = to]
      PROVE  Lifecycle!Next
  <2>1. CASE to = "queued"
    <3>1. Lifecycle!Requeue(j)
      BY <1>4, <2>1 DEF Lifecycle!Requeue, Lifecycle!Phase, Lifecycle!Move, Seen
    <3> QED
      BY <3>1 DEF Lifecycle!Next
  <2>2. CASE to \in {"completed", "failed"}
    <3>1. Lifecycle!Finish(j)
      BY <1>4, <2>2 DEF Lifecycle!Finish, Lifecycle!Phase, Lifecycle!Move, Seen
    <3> QED
      BY <3>1 DEF Lifecycle!Next
  <2> QED
    BY <2>1, <2>2
<1>5. CASE a.phase \in {"queued", "active"} /\ b = [phase |-> "canceled", abort |-> TRUE]
  <2>1. Lifecycle!Cancel(j)
    BY <1>5 DEF Lifecycle!Cancel, Lifecycle!Phase, Seen
  <2> QED
    BY <2>1 DEF Lifecycle!Next
<1>6. CASE a.phase # "none" /\ b = [a EXCEPT !.abort = TRUE]
  <2>1. Lifecycle!Abort(j)
    BY <1>6 DEF Lifecycle!Abort, Lifecycle!Phase, Seen
  <2> QED
    BY <2>1 DEF Lifecycle!Next
<1> QED
  BY <1>1, <1>2, <1>3, <1>4, <1>5, <1>6 DEF Moves

(* Whatever the processes do, a job only moves along its lifecycle. *)
THEOREM LifecycleRefined == ASSUME SingleEnqueuer PROVE Spec => ImplementsLifecycle
<1>1. Init => Lifecycle!Init
  <2>1. LifecycleOf(NoJob) = [phase |-> "none", abort |-> FALSE]
    BY DEF LifecycleOf, NoJob, Active
  <2> QED
    BY <2>1 DEF Init, Lifecycle!Init
<1>2. IInv /\ [Next]_vars => [Lifecycle!Next]_Seen
  <2> SUFFICES ASSUME IInv, [Next]_vars PROVE [Lifecycle!Next]_Seen
    OBVIOUS
  <2>1. fold \in [Jobs -> Job]
    BY DEF IInv, TypeOK
  <2>2. CASE fold' = fold
    BY <2>2 DEF Seen
  <2>3. ASSUME NEW j \in Jobs, NEW e \in Event, Appends(j, e) PROVE [Lifecycle!Next]_Seen
    <3> DEFINE r == fold[j]
               g == Reduce(r, e)
    <3>1. r \in Job /\ (~Exists(r) => r = NoJob)
      BY <2>1 DEF IInv, FoldInv
    <3>2. Moves(LifecycleOf(r), LifecycleOf(g))
      BY <2>3, <3>1, EventMoves DEF Appends
    <3>3. fold' = [fold EXCEPT ![j] = g]
      BY <2>3 DEF Appends
    <3> HIDE DEF g
    <3>4. Seen' = [Seen EXCEPT ![j] = LifecycleOf(g)]
      BY <2>1, <3>3 DEF Seen
    <3>5. Moves(Seen[j], LifecycleOf(g))
      BY <3>2 DEF Seen
    <3> QED
      BY <3>4, <3>5, MoveSteps
  <2>4. CASE fold' = [j \in Jobs |-> Age(fold[j])]
    <3>1. \A j \in Jobs : LifecycleOf(Age(fold[j])) = LifecycleOf(fold[j])
      BY <2>1, AgeKeeps DEF LifecycleOf, Active
    <3>2. Seen' = Seen
      BY <2>4, <3>1 DEF Seen
    <3> QED
      BY <3>2
  <2> QED
    BY <2>2, <2>3, <2>4, StreamSteps
<1>3. Init /\ [][Next]_vars /\ []IInv => Lifecycle!Init /\ [][Lifecycle!Next]_Seen
  BY <1>1, <1>2, PTL
<1> QED
  BY <1>3, Inductive, PTL DEF Spec, ImplementsLifecycle, Lifecycle!Spec, Seen

-----------------------------------------------------------------------------
(* The session.  Only the enqueuer creates jobs, so what it knows of them   *)
(* while it holds the lock stays complete: at "admit" its index has every  *)
(* job of the streams, from then on every job that is not settled is still *)
(* to be told, or is being told, to end.                                   *)

(* A job that no longer counts for the session, and never will again. *)
Settled(r) == Exists(r) => Terminal(r) \/ r.abort

(* The next event of the operation ends k. *)
Ending(o, k) ==
  /\ o.pc = "emit" /\ o.job = k
  /\ \/ Head(o.todo).type = "canceled"
     \/ Head(o.todo).type = "command" /\ Head(o.todo).cmds \subseteq AbortCmds

Singular(j) == SessionMode[j] # "allow"

(* What an enqueue of a singleton job knows of the streams f, ix being the *)
(* index of its process.                                                   *)
Sessioned(o, f, ix) ==
  /\ o.pc = "admit" /\ Singular(o.new) => \A k \in Jobs : Exists(f[k]) => Exists(ix[k])
  /\ InSession(o) /\ Singular(o.new) =>
       \A k \in Jobs \ {o.new} : Settled(f[k]) \/ k \in o.left \/ Ending(o, k)
  /\ o.pc = "emit" /\ Creates(o) /\ Singular(o.job) =>
       \A k \in Jobs \ {o.job} : Settled(f[k])

SInv ==
  /\ \A p \in Procs : Sessioned(op[p], fold, idx[p])
  /\ SessionIsSingleton

(* Operations that are not about to create a job. *)
Quiet(o) == o.pc # "admit" /\ ~InSession(o) /\ ~(o.pc = "emit" /\ Creates(o))

(* An operation that creates no job knows nothing of the session. *)
LEMMA QuietSessioned == ASSUME NEW o, NEW f, NEW ix, Quiet(o) PROVE Sessioned(o, f, ix)
  BY DEF Quiet, Sessioned

(* A step of one operation that leaves the streams alone. *)
LEMMA SessionLocal ==
  ASSUME IInv, SInv, fold' = fold, NEW p \in Procs,
         \A q \in Procs : q # p => idx'[q] = idx[q],
         NEW next, op' = [op EXCEPT ![p] = next], Sessioned(next, fold, idx'[p])
  PROVE  SInv'
<1>1. \A q \in Procs : op'[q] = IF q = p THEN next ELSE op[q]
  BY DEF IInv, TypeOK
<1>2. \A q \in Procs : Sessioned(op'[q], fold', idx'[q])
  BY <1>1 DEF SInv
<1>3. SessionIsSingleton'
  BY DEF SInv, SessionIsSingleton
<1> QED
  BY <1>2, <1>3 DEF SInv

(* The index of one process is no other's. *)
LEMMA OthersIndex ==
  ASSUME IInv, NEW p \in Procs,
         \/ idx' = idx
         \/ \E j \in Jobs, r \in Job : Index(p, j, r)
         \/ \E all : idx' = [idx EXCEPT ![p] = all]
  PROVE  \A q \in Procs : q # p => idx'[q] = idx[q]
  BY DEF IInv, TypeOK, Index

(* An idle process is about to create nothing. *)
LEMMA IdleQuiet == Quiet(Idle)
  BY DEF Quiet, Idle, InSession, Acting

(* Nor is one that is to emit anything but an enqueue for a caller. *)
LEMMA EmittingQuiet ==
  ASSUME NEW j, NEW events \in Seq(Event), events # << >>, events[1].type # "enqueued"
  PROVE  Quiet(Emitting(j, events))
<1> DEFINE o == Emitting(j, events)
<1>1. o.pc = "emit" /\ o.todo = events /\ o.then = "idle"
  BY DEF Emitting, Idle
<1>2. Head(events) = events[1]
  OBVIOUS
<1> HIDE DEF o
<1>3. Quiet(o)
  BY <1>1, <1>2 DEF Quiet, InSession, Acting, Creates
<1> QED
  BY <1>3 DEF o

(* A call about one job that creates none. *)
LEMMA SessionPerform ==
  ASSUME IInv, SInv, fold' = fold, NEW p \in Procs, NEW j \in Jobs, NEW events \in Seq(Event),
         Perform(p, j, events), events # << >> => events[1].type # "enqueued"
  PROVE  SInv'
<1>1. \A q \in Procs : q # p => idx'[q] = idx[q]
  BY CopyTypes, OthersIndex DEF Perform, IInv
<1>2. CASE events = << >>
  <2>1. op' = [op EXCEPT ![p] = Idle]
    BY <1>2 DEF Perform
  <2> QED
    BY <1>1, <2>1, IdleQuiet, QuietSessioned, SessionLocal
<1>3. CASE events # << >>
  <2>1. op' = [op EXCEPT ![p] = Emitting(j, events)]
    BY <1>3 DEF Perform
  <2>2. Quiet(Emitting(j, events))
    BY <1>3, EmittingQuiet
  <2> QED
    BY <1>1, <2>1, <2>2, QuietSessioned, SessionLocal
<1> QED
  BY <1>2, <1>3

(* heartbeat, progress, complete and fail have no say in the session. *)
LEMMA SessionReport ==
  ASSUME IInv, SInv, NEW p \in Procs, NEW w \in Workers, NEW j \in Jobs,
         NEW event \in Event, event.type # "enqueued", Report(p, w, j, event)
  PROVE  SInv'
<1> DEFINE events == IF MayReport(Loaded(p, j), w) THEN <<event>> ELSE << >>
<1>1. events \in Seq(Event) /\ (events # << >> => events[1].type # "enqueued")
  OBVIOUS
<1>2. Perform(p, j, events) /\ fold' = fold
  BY DEF Report
<1> HIDE DEF events
<1> QED
  BY <1>1, <1>2, SessionPerform

(* No call of a worker has. *)
LEMMA SessionWorkerCall ==
  ASSUME IInv, SInv, NEW p \in Procs, NEW w \in Workers, NEW j \in Jobs, WorkerCall(p, w, j)
  PROVE  SInv'
<1>1. \A again \in BOOLEAN : Failed(w, again) \in Event /\ Failed(w, again).type # "enqueued"
  BY EventTypes, EventKinds
<1>2. CASE Heartbeat(p, w, j)
  BY <1>2, EventTypes, EventKinds, SessionReport DEF Heartbeat
<1>3. CASE Progress(p, w, j)
  BY <1>3, EventTypes, EventKinds, SessionReport DEF Progress
<1>4. CASE Complete(p, w, j)
  BY <1>4, EventTypes, EventKinds, SessionReport DEF Complete
<1>5. ASSUME NEW noRetry \in BOOLEAN, Fail(p, w, j, noRetry) PROVE SInv'
  <2>1. (Retryable(Loaded(p, j)) /\ ~noRetry) \in BOOLEAN
    BY DEF Retryable
  <2> DEFINE event == Failed(w, Retryable(Loaded(p, j)) /\ ~noRetry)
  <2>2. event \in Event /\ event.type # "enqueued"
    BY <1>1, <2>1
  <2>3. Report(p, w, j, event)
    BY <1>5 DEF Fail
  <2> HIDE DEF event
  <2> QED
    BY <2>2, <2>3, SessionReport
<1>6. CASE LeaseNext(p, w)
  <2> DEFINE next == [Idle EXCEPT !.pc = "expire", !.worker = w,
                                  !.left = {k \in Jobs : Active(idx[p][k])}]
  <2>1. Quiet(next)
    BY DEF Quiet, Idle, InSession, Acting
  <2>2. op' = [op EXCEPT ![p] = next] /\ idx' = idx /\ fold' = fold
    BY <1>6 DEF LeaseNext
  <2> HIDE DEF next
  <2> QED
    BY <2>1, <2>2, QuietSessioned, SessionLocal
<1>7. CASE LeaseJob(p, w, j)
  <2> DEFINE cur == Loaded(p, j)
             event == Leased(w, cur.attempt + 1)
             em == Emitting(j, <<event>>)
             next == [em EXCEPT !.worker = w, !.then = "grant"]
  <2>1. cur \in Job /\ fold' = fold
    BY <1>7, CopyTypes DEF LeaseJob, IInv
  <2>2. Index(p, j, cur)
    BY <1>7 DEF LeaseJob
  <2>3. \A q \in Procs : q # p => idx'[q] = idx[q]
    BY <2>1, <2>2, OthersIndex
  <2>4. CASE cur.status = "queued"
    <3>1. op' = [op EXCEPT ![p] = next]
      BY <1>7, <2>4 DEF LeaseJob
    <3>2. next.pc = "emit" /\ next.then = "grant" /\ Head(next.todo) = event
      <4>1. em.pc = "emit" /\ em.todo = <<event>>
        BY DEF Emitting, Idle
      <4>2. \A x, y : LET n == [em EXCEPT !.worker = x, !.then = y]
                     IN  n.pc = em.pc /\ n.then = y /\ n.todo = em.todo
        BY DEF Emitting, Idle
      <4> HIDE DEF em, event
      <4>3. next.pc = "emit" /\ next.then = "grant" /\ next.todo = <<event>>
        BY <4>1, <4>2
      <4> QED
        BY <4>3
    <3>3. event.type = "leased"
      BY DEF Leased, Plain
    <3> HIDE DEF event
    <3> HIDE DEF next
    <3>4. Quiet(next)
      BY <3>2, <3>3 DEF Quiet, InSession, Acting, Creates
    <3> QED
      BY <2>1, <2>3, <3>1, <3>4, QuietSessioned, SessionLocal
  <2>5. CASE cur.status # "queued"
    <3>1. op' = op
      BY <1>7, <2>5 DEF LeaseJob
    <3>2. op' = [op EXCEPT ![p] = op[p]]
      BY <3>1 DEF IInv, TypeOK
    <3>3. op[p].pc = "idle"
      BY <1>7 DEF LeaseJob, Free
    <3>4. Quiet(op[p])
      BY <3>3 DEF Quiet, InSession, Acting
    <3> HIDE DEF cur
    <3> QED
      BY <2>1, <2>3, <3>2, <3>4, QuietSessioned, SessionLocal
  <2> QED
    BY <2>4, <2>5
<1> QED
  BY <1>2, <1>3, <1>4, <1>5, <1>6, <1>7 DEF WorkerCall

(* An enqueue in a singleton mode knows every job of the streams. *)
LEMMA SessionEnqueue ==
  ASSUME IInv, SInv, NEW p \in Procs, NEW j \in Jobs, Enqueue(p, j)
  PROVE  SInv'
<1> DEFINE all == [k \in Jobs |-> IF Exists(idx[p][k]) THEN idx[p][k] ELSE Loaded(p, k)]
           next == [Idle EXCEPT !.pc = "admit", !.new = j]
<1>1. idx' = idx \/ idx' = [idx EXCEPT ![p] = all]
  BY DEF Enqueue
<1>2. \A q \in Procs : q # p => idx'[q] = idx[q]
  BY <1>1, OthersIndex
<1>3. op' = [op EXCEPT ![p] = next] /\ fold' = fold
  BY DEF Enqueue
<1>4. /\ next.pc = "admit" /\ next.new = j
  BY DEF Idle
<1>5. ASSUME Singular(j), NEW k \in Jobs, Exists(fold[k]) PROVE Exists(idx'[p][k])
  <2>1. idx' = [idx EXCEPT ![p] = all]
    BY <1>5 DEF Enqueue, Singular
  <2>2. idx'[p][k] = all[k]
    BY <2>1 DEF IInv, TypeOK
  <2>3. Exists(Loaded(p, k))
    BY <1>5 DEF Loaded
  <2> QED
    BY <2>2, <2>3
<1> HIDE DEF next
<1>6. Sessioned(next, fold, idx'[p])
  BY <1>4, <1>5 DEF Sessioned, InSession, Acting
<1> QED
  BY <1>2, <1>3, <1>6, SessionLocal

(* The calls of clients keep what the enqueuer knows. *)
LEMMA SessionClientCall ==
  ASSUME IInv, SInv, NEW p \in Procs, NEW j \in Jobs, ClientCall(p, j)
  PROVE  SInv'
<1>1. CASE GetJob(p, j)
  <2>1. << >> \in Seq(Event)
    OBVIOUS
  <2> QED
    BY <1>1, <2>1, SessionPerform DEF GetJob
<1>2. CASE Cancel(p, j)
  <2> DEFINE events == IF Terminal(Loaded(p, j)) THEN << >> ELSE <<Plain("canceled")>>
  <2>1. events \in Seq(Event) /\ (events # << >> => events[1].type # "enqueued")
    BY EventTypes, EventKinds
  <2>2. Perform(p, j, events) /\ fold' = fold
    BY <1>2 DEF Cancel
  <2> HIDE DEF events
  <2> QED
    BY <2>1, <2>2, SessionPerform
<1>3. ASSUME NEW c \in Cmds, QueueCommand(p, j, c) PROVE SInv'
  <2> DEFINE events == IF c \in AbortCmds /\ Loaded(p, j).status = "queued"
                       THEN <<Command("command", c), Plain("canceled")>>
                       ELSE <<Command("command", c)>>
  <2>1. events \in Seq(Event) /\ events[1].type # "enqueued"
    BY EventTypes, EventKinds
  <2>2. Perform(p, j, events) /\ fold' = fold
    BY <1>3 DEF QueueCommand
  <2> HIDE DEF events
  <2> QED
    BY <2>1, <2>2, SessionPerform
<1>4. CASE Enqueue(p, j)
  BY <1>4, SessionEnqueue
<1>5. CASE Refresh(p)
  <2>1. PICK all : /\ idx' = [idx EXCEPT ![p] = all]
                   /\ op' = [op EXCEPT ![p] = [Idle EXCEPT !.pc = "expire",
                                                 !.left = {k \in Jobs : Active(all[k])}]]
    BY <1>5 DEF Refresh
  <2> DEFINE next == [Idle EXCEPT !.pc = "expire", !.left = {k \in Jobs : Active(all[k])}]
  <2>2. Quiet(next)
    BY DEF Quiet, Idle, InSession, Acting
  <2>3. \A q \in Procs : q # p => idx'[q] = idx[q]
    BY <2>1, OthersIndex
  <2>4. op' = [op EXCEPT ![p] = next] /\ fold' = fold
    BY <1>5, <2>1 DEF Refresh
  <2> HIDE DEF next
  <2> QED
    BY <2>2, <2>3, <2>4, QuietSessioned, SessionLocal
<1>6. ASSUME NEW wanted \in {Cmds, AbortCmds}, Consume(p, j, wanted) PROVE SInv'
  <2> DEFINE batch == Loaded(p, j).open \cap wanted
             next == [Idle EXCEPT !.pc = "drain", !.job = j, !.left = batch, !.got = batch]
  <2>1. Quiet(next)
    BY DEF Quiet, Idle, InSession, Acting
  <2>2. \A q \in Procs : q # p => idx'[q] = idx[q]
    BY <1>6, CopyTypes, OthersIndex DEF Consume, IInv
  <2>3. fold' = fold /\ \E o \in {Idle, next} : op' = [op EXCEPT ![p] = o]
    BY <1>6 DEF Consume
  <2> HIDE DEF next
  <2> QED
    BY <2>1, <2>2, <2>3, IdleQuiet, QuietSessioned, SessionLocal
<1> QED
  BY <1>1, <1>2, <1>3, <1>4, <1>5, <1>6 DEF ClientCall

(* A settled job stays settled, whatever is appended to its stream. *)
LEMMA ReduceSettled ==
  ASSUME NEW r \in Job, NEW e \in Event, e.type = "enqueued" <=> ~Exists(r),
         Exists(r), Settled(r)
  PROVE  Settled(Reduce(r, e))
<1>1. CASE Terminal(r)
  <2>1. Reduce(r, e).status = r.status
    BY <1>1, ReduceGrows
  <2> QED
    BY <1>1, <2>1 DEF Settled, Terminal
<1>2. CASE ~Terminal(r)
  <2>1. r.abort /\ e.type # "enqueued"
    BY <1>2 DEF Settled
  <2>2. CASE ~Applies(r, e)
    BY <2>2 DEF Reduce
  <2>3. CASE Applies(r, e)
    <3> DEFINE g == Effect(r, e)
    <3>1. Reduce(r, e) = g
      BY <2>3 DEF Reduce
    <3>2. g.abort = TRUE
      <4>0. r.abort = TRUE
        BY <2>1 DEF Job
      <4>1. CASE e.type \in {"leased", "heartbeat", "progress", "completed"}
        BY <4>0, <4>1 DEF Effect, Job
      <4>2. CASE e.type \in {"failed", "lease_expired"}
        BY <4>0, <4>2 DEF Effect, Release, Job
      <4>3. CASE e.type = "canceled"
        BY <4>3 DEF Effect, Job
      <4>4. CASE e.type = "command"
        <5>1. g = [r EXCEPT !.abort = r.abort \/ e.cmds \subseteq AbortCmds,
                            !.open = r.open \cup e.cmds]
          BY <4>4 DEF Effect
        <5>2. g.abort = (r.abort \/ e.cmds \subseteq AbortCmds)
          BY <5>1 DEF Job
        <5> QED
          BY <4>0, <5>2
      <4>5. CASE e.type = "consumed"
        BY <4>0, <4>5 DEF Effect, Job
      <4> QED
        BY <2>1, <4>1, <4>2, <4>3, <4>4, <4>5 DEF Event
    <3> HIDE DEF g
    <3> QED
      BY <3>1, <3>2 DEF Settled
  <2> QED
    BY <2>2, <2>3
<1> QED
  BY <1>1, <1>2

(* A cancel and an abort command settle the job. *)
LEMMA EndingSettles ==
  ASSUME NEW r \in Job, NEW e \in Event,
         e.type = "canceled" \/ (e.type = "command" /\ e.cmds \subseteq AbortCmds)
  PROVE  Settled(Reduce(r, e))
<1>1. CASE e.type = "canceled"
  <2>1. CASE Terminal(r)
    <3>1. Reduce(r, e) = r
      BY <1>1, <2>1 DEF Reduce, Applies
    <3> QED
      BY <2>1, <3>1 DEF Settled
  <2>2. CASE ~Terminal(r)
    <3>1. Reduce(r, e) = [r EXCEPT !.status = "canceled", !.lease = "none", !.abort = TRUE]
      BY <1>1, <2>2 DEF Reduce, Applies, Effect
    <3>2. Reduce(r, e).status = "canceled"
      BY <3>1 DEF Job
    <3> QED
      BY <3>2 DEF Settled, Terminal
  <2> QED
    BY <2>1, <2>2
<1>2. CASE e.type = "command" /\ e.cmds \subseteq AbortCmds
  <2>1. Reduce(r, e) = [r EXCEPT !.abort = r.abort \/ e.cmds \subseteq AbortCmds,
                                 !.open = r.open \cup e.cmds]
    BY <1>2 DEF Reduce, Applies, Effect
  <2>2. Reduce(r, e).abort
    BY <1>2, <2>1 DEF Job
  <2> QED
    BY <2>2 DEF Settled
<1> QED
  BY <1>1, <1>2

(* What an enqueue knows survives a step of the streams that creates no    *)
(* job and unsettles none.                                                 *)
LEMMA SessionedGrows ==
  ASSUME NEW o, NEW f, NEW g, NEW ix, NEW iy, Sessioned(o, f, ix),
         \A k \in Jobs : /\ Exists(g[k]) => Exists(f[k])
                         /\ Settled(f[k]) => Settled(g[k])
                         /\ Exists(ix[k]) => Exists(iy[k])
  PROVE  Sessioned(o, g, iy)
  BY DEF Sessioned

(* An operation that does not enqueue is quiet. *)
LEMMA OthersQuiet ==
  ASSUME NEW p, NEW o, Shape(p, o), p \notin Enqueuers
  PROVE  Quiet(o)
  BY DEF Shape, Quiet, Acting

(* An append keeps the session single: the enqueuer creates a job once all *)
(* others are settled, and what it was told to end ends.                   *)
LEMMA SessionEmit ==
  ASSUME SingleEnqueuer, IInv, SInv, NEW p \in Procs, Emit(p)
  PROVE  SInv'
<1> DEFINE o == op[p]
           j == o.job
           e == Head(o.todo)
           next == [o EXCEPT !.pc = "read"]
<1>1. o \in Op /\ Shape(p, o) /\ Grounded(o, fold) /\ o.pc = "emit"
  BY OpAt DEF Emit
<1>2. j \in Jobs /\ o.todo # << >>
  BY <1>1 DEF Shape, Acting
<1>3. fold[j] \in Job /\ e \in Event
  BY <1>1, <1>2 DEF IInv, TypeOK, Op
<1>4. e.type = "enqueued" <=> ~Exists(fold[j])
  BY <1>1 DEF Grounded, Creates
<1>5. \A k \in Jobs : fold'[k] = IF k = j THEN Reduce(fold[j], e) ELSE fold[k]
  BY <1>2 DEF Emit, IInv, TypeOK
<1>6. idx' = idx /\ \A q \in Procs : op'[q] = IF q = p THEN next ELSE op[q]
  BY DEF Emit, IInv, TypeOK
<1>7. /\ next.pc = "read" /\ next.job = j /\ next.todo = o.todo /\ next.then = o.then
      /\ next.left = o.left /\ next.new = o.new
  BY <1>1 DEF Op
<1>8. Sessioned(o, fold, idx[p])
  BY DEF SInv
<1>9. \A k \in Jobs : Exists(fold[k]) /\ Settled(fold[k]) => Settled(fold'[k])
  BY <1>3, <1>4, <1>5, ReduceSettled
<1> HIDE DEF next, e
<1>10. Sessioned(next, fold', idx'[p])
  <2> SUFFICES ASSUME InSession(next), Singular(o.new), NEW k \in Jobs \ {o.new}
               PROVE  Settled(fold'[k]) \/ k \in o.left
    BY <1>7 DEF Sessioned
  <2>1. o.then = "session" /\ InSession(o)
    BY <1>1, <1>7 DEF InSession, Acting
  <2>2. Exists(fold[j]) /\ e.type # "enqueued"
    <3>1. o.job # o.new /\ ~Creates(o)
      BY <1>1, <2>1 DEF Grounded, Shape, Acting
    <3> QED
      BY <1>4, <3>1 DEF Creates, e
  <2>3. Settled(fold[k]) \/ k \in o.left \/ Ending(o, k)
    BY <1>8, <2>1 DEF Sessioned
  <2>4. CASE Settled(fold[k])
    <3>1. CASE k = j
      BY <1>9, <2>2, <2>4, <3>1
    <3>2. CASE k # j
      BY <1>5, <2>4, <3>2
    <3> QED
      BY <3>1, <3>2
  <2>5. CASE Ending(o, k)
    <3>1. k = j /\ (e.type = "canceled" \/ (e.type = "command" /\ e.cmds \subseteq AbortCmds))
      BY <2>5 DEF Ending, e
    <3>2. Settled(Reduce(fold[j], e))
      BY <1>3, <3>1, EndingSettles
    <3> QED
      BY <1>5, <3>1, <3>2
  <2> QED
    BY <2>3, <2>4, <2>5
<1>11. ASSUME NEW q \in Procs, q # p PROVE Sessioned(op[q], fold', idx[q])
  <2>1. Shape(q, op[q]) /\ Sessioned(op[q], fold, idx[q])
    BY OpAt DEF SInv
  <2>2. CASE Exists(fold[j])
    <3>1. \A k \in Jobs : Exists(fold'[k]) => Exists(fold[k])
      BY <1>5, <2>2
    <3>2. \A k \in Jobs : Settled(fold[k]) => Settled(fold'[k])
      BY <1>5, <1>9, <2>2
    <3> QED
      BY <2>1, <3>1, <3>2, SessionedGrows
  <2>3. CASE ~Exists(fold[j])
    <3>1. p \in Enqueuers
      BY <1>1, <1>4, <2>3 DEF Shape, Acting, Creates, e
    <3>2. q \notin Enqueuers
      BY <1>11, <3>1 DEF SingleEnqueuer
    <3> QED
      BY <2>1, <3>2, OthersQuiet, QuietSessioned
  <2> QED
    BY <2>2, <2>3
<1>12. SessionIsSingleton'
  <2> SUFFICES ASSUME NEW a \in Jobs, NEW b \in Jobs, Singular(a), Singular(b),
                      ~Settled(fold'[a]), ~Settled(fold'[b])
               PROVE  a = b
    BY DEF SessionIsSingleton, Singular, Settled
  <2>1. CASE Exists(fold[j])
    <3>1. ~Settled(fold[a]) /\ ~Settled(fold[b])
      BY <1>5, <1>9, <2>1
    <3> QED
      BY <3>1 DEF SInv, SessionIsSingleton, Singular, Settled
  <2>2. CASE ~Exists(fold[j])
    <3>1. Creates(o)
      BY <1>4, <2>2 DEF Creates, e
    <3>2. ASSUME Singular(j), NEW k \in Jobs \ {j} PROVE Settled(fold'[k])
      BY <1>1, <1>5, <1>8, <3>1, <3>2 DEF Sessioned
    <3>3. \A k \in Jobs \ {j} : Settled(fold'[k]) <=> Settled(fold[k])
      BY <1>5
    <3>4. CASE a = j \/ b = j
      BY <3>2, <3>4
    <3>5. CASE a # j /\ b # j
      BY <3>3, <3>5 DEF SInv, SessionIsSingleton, Singular, Settled
    <3> QED
      BY <3>4, <3>5
  <2> QED
    BY <2>1, <2>2
<1> QED
  BY <1>6, <1>10, <1>11, <1>12 DEF SInv

(* The second look of enqueue finds every job that is to end. *)
LEMMA SessionAdmit ==
  ASSUME IInv, SInv, NEW p \in Procs, Admit(p)
  PROVE  SInv'
<1> DEFINE o == op[p]
           j == o.new
           cur == Loaded(p, j)
           left == SessionActive(p, j)
           next == [o EXCEPT !.pc = "session", !.left = left]
<1>1. /\ o \in Op /\ Shape(p, o) /\ o.pc = "admit" /\ fold' = fold
      /\ Sessioned(o, fold, idx[p])
  BY OpAt DEF Admit, SInv
<1>2. j \in Jobs
  BY <1>1 DEF Shape
<1>3. CASE Exists(cur)
  <2>1. op' = [op EXCEPT ![p] = Idle] /\ Index(p, j, cur)
    BY <1>3 DEF Admit
  <2>2. cur \in Job
    BY <1>2, CopyTypes DEF IInv
  <2>3. \A q \in Procs : q # p => idx'[q] = idx[q]
    BY <1>2, <2>1, <2>2, OthersIndex
  <2> QED
    BY <1>1, <2>1, <2>3, IdleQuiet, QuietSessioned, SessionLocal
<1>4. CASE ~Exists(cur)
  <2>1. op' = [op EXCEPT ![p] = next] /\ idx' = idx
    BY <1>4 DEF Admit
  <2>2. next.pc = "session" /\ next.left = left /\ next.new = j
    BY <1>1 DEF Op
  <2>3. ASSUME Singular(j), NEW k \in Jobs \ {j} PROVE Settled(fold[k]) \/ k \in left
    <3> SUFFICES ASSUME Exists(fold[k]), k \notin left PROVE Terminal(fold[k])
      BY DEF Settled
    <3>1. Exists(idx[p][k])
      BY <1>1, <2>3 DEF Sessioned
    <3>2. Terminal(idx[p][k])
      BY <2>3, <3>1 DEF SessionActive, Singular
    <3> QED
      BY <3>2 DEF IInv, CopiesInv, Real, Terminal
  <2> HIDE DEF next, left
  <2>4. Sessioned(next, fold, idx'[p])
    BY <2>2, <2>3 DEF Sessioned
  <2> QED
    BY <1>1, <2>1, <2>4, SessionLocal
<1> QED
  BY <1>3, <1>4

(* A job taken off the loop of an enqueue is being told to end. *)
LEMMA SessionPrior ==
  ASSUME IInv, SInv, NEW p \in Procs, NEW k \in Jobs,
         CancelPrior(p, k) \/ \E c \in Cmds : AbortPrior(p, k, c)
  PROVE  SInv'
<1> DEFINE o == op[p]
           next(event) == [o EXCEPT !.pc = "emit", !.job = k, !.left = o.left \ {k},
                                    !.then = "session", !.todo = <<event>>]
           Ends(event) == \/ event.type = "canceled"
                          \/ event.type = "command" /\ event.cmds \subseteq AbortCmds
<1>1. o \in Op /\ Sessioned(o, fold, idx[p])
  BY OpAt DEF SInv
<1>2. o.pc = "session" /\ idx' = idx /\ fold' = fold
  BY DEF CancelPrior, AbortPrior
<1>3. PICK event : Ends(event) /\ op' = [op EXCEPT ![p] = next(event)]
  <2>1. CASE CancelPrior(p, k)
    BY <2>1, EventKinds DEF CancelPrior
  <2>2. ASSUME NEW c \in Cmds, AbortPrior(p, k, c)
        PROVE  \E event : Ends(event) /\ op' = [op EXCEPT ![p] = next(event)]
    <3>1. Command("command", c).type = "command" /\ Command("command", c).cmds = {c}
      BY DEF Command, Plain
    <3>2. c \in AbortCmds
      BY <2>2 DEF AbortPrior
    <3>3. Ends(Command("command", c))
      BY <3>1, <3>2
    <3> QED
      BY <2>2, <3>3 DEF AbortPrior
  <2> QED
    BY <2>1, <2>2
<1>4. /\ next(event).pc = "emit" /\ next(event).job = k /\ next(event).left = o.left \ {k}
      /\ next(event).new = o.new /\ next(event).todo = <<event>>
  BY <1>1 DEF Op
<1>5. Head(next(event).todo) = event
  BY <1>4
<1>6. ~Creates(next(event)) /\ Ending(next(event), k)
  BY <1>3, <1>4, <1>5 DEF Creates, Ending
<1> DEFINE n == next(event)
<1> HIDE DEF next
<1>7. Sessioned(n, fold, idx'[p])
  BY <1>1, <1>2, <1>4, <1>6 DEF Sessioned, InSession, Ending
<1> QED
  BY <1>2, <1>3, <1>7, SessionLocal

(* The job is created once no other is left to end. *)
LEMMA SessionEnqueueNew == ASSUME IInv, SInv, NEW p \in Procs, EnqueueNew(p) PROVE SInv'
<1> DEFINE o == op[p]
           next == Emitting(o.new, <<Plain("enqueued")>>)
<1>1. /\ o.pc = "session" /\ o.left = {} /\ Sessioned(o, fold, idx[p])
      /\ op' = [op EXCEPT ![p] = next] /\ idx' = idx /\ fold' = fold
  BY DEF EnqueueNew, SInv
<1>2. next.pc = "emit" /\ next.job = o.new /\ next.then = "idle"
  BY DEF Emitting, Idle
<1> HIDE DEF next
<1>3. Sessioned(next, fold, idx'[p])
  BY <1>1, <1>2 DEF Sessioned, InSession, Acting, Ending
<1> QED
  BY <1>1, <1>3, SessionLocal

(* The read after an append keeps what an enqueue knows. *)
LEMMA SessionReadState == ASSUME IInv, SInv, NEW p \in Procs, ReadState(p) PROVE SInv'
<1> DEFINE o == op[p]
           next == [o EXCEPT !.pc = "write", !.snap = fold[o.job]]
<1>1. /\ o \in Op /\ o.pc = "read" /\ Sessioned(o, fold, idx[p])
      /\ op' = [op EXCEPT ![p] = next] /\ idx' = idx /\ fold' = fold
  BY OpAt DEF ReadState, SInv
<1>2. /\ next.pc = "write" /\ next.then = o.then /\ next.left = o.left /\ next.new = o.new
  BY <1>1 DEF Op
<1> HIDE DEF next
<1>3. Sessioned(next, fold, idx'[p])
  BY <1>1, <1>2 DEF Sessioned, InSession, Acting, Ending
<1> QED
  BY <1>1, <1>3, SessionLocal

(* So does the write of the row. *)
LEMMA SessionWriteRow == ASSUME IInv, SInv, NEW p \in Procs, WriteRow(p) PROVE SInv'
<1> DEFINE o == op[p]
           next == After(o)
<1>1. /\ o \in Op /\ Shape(p, o) /\ Grounded(o, fold) /\ o.pc = "write"
      /\ Sessioned(o, fold, idx[p])
      /\ op' = [op EXCEPT ![p] = next] /\ fold' = fold
  BY OpAt DEF WriteRow, SInv, After
<1>2. o.job \in Jobs /\ Exists(fold[o.job]) /\ o.snap \in Job
  BY <1>1 DEF Shape, Grounded, Acting, Op
<1>3. \A q \in Procs : q # p => idx'[q] = idx[q]
  <2>1. Index(p, o.job, o.snap)
    BY DEF WriteRow
  <2> QED
    BY <1>2, <2>1, OthersIndex
<1>4. /\ next.pc # "admit"
      /\ next.pc = "emit" => next.job = o.job
      /\ InSession(next) => o.then = "session" /\ next.left = o.left /\ next.new = o.new
  <2>1. CASE Len(o.todo) > 1
    <3>1. next = [o EXCEPT !.pc = "emit", !.todo = Tail(o.todo), !.snap = NoJob]
      BY <2>1 DEF After
    <3>2. /\ next.pc = "emit" /\ next.job = o.job /\ next.then = o.then
          /\ next.left = o.left /\ next.new = o.new
      BY <1>1, <3>1 DEF Op
    <3> QED
      BY <3>2 DEF InSession, Acting
  <2>2. CASE ~(Len(o.todo) > 1) /\ o.then \in {"idle", "grant"}
    <3>1. next = Idle
      BY <2>2 DEF After
    <3> QED
      BY <3>1 DEF Idle, InSession, Acting
  <2>3. CASE ~(Len(o.todo) > 1) /\ o.then \notin {"idle", "grant"}
    <3>1. next = [o EXCEPT !.pc = o.then, !.todo = << >>, !.then = "idle", !.snap = NoJob]
      BY <2>3 DEF After
    <3>2. /\ next.pc = o.then /\ next.then = "idle" /\ next.left = o.left /\ next.new = o.new
      BY <1>1, <3>1 DEF Op
    <3>3. o.then \in {"session", "expire", "drain"}
      BY <1>1, <2>3 DEF Op
    <3> QED
      BY <3>2, <3>3 DEF InSession, Acting
  <2> QED
    BY <2>1, <2>2, <2>3
<1>5. next.pc = "emit" => ~Creates(next)
  BY <1>1, <1>2, <1>4, AfterShape DEF Grounded
<1> HIDE DEF next
<1>6. Sessioned(next, fold, idx'[p])
  BY <1>1, <1>4, <1>5 DEF Sessioned, InSession, Acting, Ending
<1> QED
  BY <1>1, <1>3, <1>6, SessionLocal

(* A step of a loop that neither creates a job nor tells one to end. *)
LEMMA SessionLoop ==
  ASSUME IInv, SInv, NEW p \in Procs,
         \/ \E j \in Jobs : ExpireScan(p, j) \/ Pick(p, j)
         \/ \E c \in Cmds : Drain(p, c)
         \/ ExpireDone(p) \/ PickNone(p) \/ DrainDone(p)
         \/ \E k \in Jobs, c \in Cmds : SteerPrior(p, k, c)
         \/ Throw(p) \/ Crash(p)
  PROVE  SInv'
<1> DEFINE o == op[p]
<1>1. o \in Op
  BY OpAt
<1>2. ASSUME NEW next, Quiet(next), op' = [op EXCEPT ![p] = next], fold' = fold,
             \/ idx' = idx
             \/ \E j \in Jobs, r \in Job : Index(p, j, r)
             \/ \E all : idx' = [idx EXCEPT ![p] = all]
      PROVE  SInv'
  BY <1>2, OthersIndex, QuietSessioned, SessionLocal
<1>3. ASSUME NEW j \in Jobs, ExpireScan(p, j) PROVE SInv'
  <2> DEFINE cur == Loaded(p, j)
             left == o.left \ {j}
             event == Expired(Retryable(cur))
             more == [o EXCEPT !.pc = "emit", !.job = j, !.left = left, !.then = "expire",
                               !.todo = <<event>>]
             skip == [o EXCEPT !.left = left]
  <2>1. cur \in Job
    BY CopyTypes DEF IInv
  <2>2. idx' = idx \/ Index(p, j, cur)
    BY <1>3 DEF ExpireScan
  <2>3. event.type # "enqueued"
    BY DEF Expired, Plain
  <2>4. o.pc = "expire" /\ fold' = fold
        /\ (op' = [op EXCEPT ![p] = more] \/ op' = [op EXCEPT ![p] = skip])
    BY <1>3 DEF ExpireScan
  <2> HIDE DEF event, cur
  <2>5. Quiet(more)
    BY <1>1, <2>3 DEF Quiet, InSession, Acting, Creates, Op
  <2>6. Quiet(skip)
    BY <1>1, <2>4 DEF Quiet, InSession, Acting, Op
  <2> HIDE DEF more, skip
  <2> QED
    BY <1>2, <2>1, <2>2, <2>4, <2>5, <2>6
<1>4. ASSUME NEW j \in Jobs, Pick(p, j) PROVE SInv'
  <2> DEFINE cur == Loaded(p, j)
             left == o.left \ {j}
             event == Leased(o.worker, cur.attempt + 1)
             lease == [o EXCEPT !.pc = "emit", !.job = j, !.left = {}, !.then = "grant",
                                !.todo = <<event>>]
             skip == [o EXCEPT !.left = left]
  <2>1. cur \in Job
    BY CopyTypes DEF IInv
  <2>2. Index(p, j, cur)
    BY <1>4 DEF Pick
  <2>3. event.type # "enqueued"
    BY DEF Leased, Plain
  <2>4. o.pc = "pick" /\ fold' = fold
        /\ (op' = [op EXCEPT ![p] = lease] \/ op' = [op EXCEPT ![p] = skip])
    BY <1>4 DEF Pick
  <2> HIDE DEF event, cur
  <2>5. Quiet(lease)
    BY <1>1, <2>3 DEF Quiet, InSession, Acting, Creates, Op
  <2>6. Quiet(skip)
    BY <1>1, <2>4 DEF Quiet, InSession, Acting, Op
  <2> HIDE DEF lease, skip
  <2> QED
    BY <1>2, <2>1, <2>2, <2>4, <2>5, <2>6
<1>5. ASSUME NEW c \in Cmds, Drain(p, c) PROVE SInv'
  <2> DEFINE left == o.left \ {c}
             event == Command("consumed", c)
             next == [o EXCEPT !.pc = "emit", !.left = left, !.then = "drain", !.todo = <<event>>]
  <2>1. event.type # "enqueued"
    BY DEF Command, Plain
  <2>2. op' = [op EXCEPT ![p] = next] /\ idx' = idx /\ fold' = fold
    BY <1>5 DEF Drain
  <2> HIDE DEF event
  <2>3. Quiet(next)
    BY <1>1, <2>1 DEF Quiet, InSession, Acting, Creates, Op
  <2> HIDE DEF next
  <2> QED
    BY <1>2, <2>2, <2>3
<1>6. CASE ExpireDone(p)
  <2> DEFINE pick == [o EXCEPT !.pc = "pick", !.left = {j \in Jobs : ShouldQueue(idx[p][j])}]
  <2>1. Quiet(pick)
    BY <1>1 DEF Quiet, InSession, Acting, Op
  <2>2. idx' = idx /\ fold' = fold
        /\ (op' = [op EXCEPT ![p] = pick] \/ op' = [op EXCEPT ![p] = Idle])
    BY <1>6 DEF ExpireDone
  <2> HIDE DEF pick
  <2> QED
    BY <1>2, <2>1, <2>2, IdleQuiet
<1>7. CASE PickNone(p) \/ DrainDone(p) \/ Throw(p)
  BY <1>2, <1>7, IdleQuiet DEF PickNone, DrainDone, Throw
<1>8. CASE Crash(p)
  BY <1>2, <1>8, IdleQuiet DEF Crash
<1>9. ASSUME NEW k \in Jobs, NEW c \in Cmds, SteerPrior(p, k, c) PROVE SInv'
  <2> DEFINE events == <<Command("command", c)>>
  <2>1. events \in Seq(Event) /\ events # << >> /\ events[1].type # "enqueued"
    BY EventTypes, EventKinds
  <2>2. op' = [op EXCEPT ![p] = Emitting(k, events)] /\ idx' = idx /\ fold' = fold
    BY <1>9 DEF SteerPrior
  <2> HIDE DEF events
  <2> QED
    BY <1>2, <2>1, <2>2, EmittingQuiet
<1> QED
  BY <1>3, <1>4, <1>5, <1>6, <1>7, <1>8, <1>9

(* The passing of deadlines keeps what an enqueue knows. *)
LEMMA SessionTimePasses == ASSUME IInv, SInv, TimePasses PROVE SInv'
<1>1. \A k \in Jobs : fold[k] \in Job /\ fold'[k] = Age(fold[k])
  BY DEF TimePasses, IInv, TypeOK
<1>2. \A q \in Procs, k \in Jobs : idx[q][k] \in Job /\ idx'[q][k] = Age(idx[q][k])
  BY DEF TimePasses, IInv, TypeOK
<1>3. \A k \in Jobs : /\ fold'[k].status = fold[k].status
                      /\ fold'[k].abort = fold[k].abort
  BY <1>1, AgeKeeps
<1>4. \A q \in Procs, k \in Jobs : Exists(idx[q][k]) => Exists(idx'[q][k])
  BY <1>2, AgeKeeps DEF Exists
<1>5. ASSUME NEW q \in Procs PROVE Sessioned(op'[q], fold', idx'[q])
  <2> DEFINE o == op[q]
             next == op'[q]
  <2>1. o \in Op /\ Sessioned(o, fold, idx[q])
    BY OpAt DEF SInv
  <2>2. next = [o EXCEPT !.snap = Age(o.snap)]
    BY DEF TimePasses
  <2>3. /\ next.pc = o.pc /\ next.job = o.job /\ next.todo = o.todo /\ next.then = o.then
        /\ next.left = o.left /\ next.new = o.new
    BY <2>1, <2>2 DEF Op
  <2>4. Sessioned(o, fold', idx'[q])
    BY <1>3, <1>4, <2>1, SessionedGrows DEF Exists, Settled, Terminal
  <2> HIDE DEF next
  <2>5. Sessioned(next, fold', idx'[q])
    BY <2>3, <2>4 DEF Sessioned, InSession, Acting, Creates, Ending
  <2> QED
    BY <2>5 DEF next
<1>6. SessionIsSingleton'
  BY <1>3 DEF SInv, SessionIsSingleton, Exists, Terminal
<1> QED
  BY <1>5, <1>6 DEF SInv

(* Every step keeps what the enqueuer knows. *)
LEMMA SessionNext == ASSUME SingleEnqueuer, IInv, SInv, [Next]_vars PROVE SInv'
<1>1. ASSUME NEW p \in Procs, NEW w \in Workers, NEW j \in Jobs, WorkerCall(p, w, j)
      PROVE  SInv'
  BY <1>1, SessionWorkerCall
<1>2. ASSUME NEW p \in Procs, NEW j \in Jobs, ClientCall(p, j) PROVE SInv'
  BY <1>2, SessionClientCall
<1>3. ASSUME NEW p \in Procs, OpStep(p) PROVE SInv'
  <2>1. CASE \/ \E j \in Jobs : CancelPrior(p, j)
             \/ \E j \in Jobs, c \in Cmds : AbortPrior(p, j, c)
    BY <2>1, SessionPrior
  <2>2. CASE \/ \E j \in Jobs : ExpireScan(p, j) \/ Pick(p, j)
             \/ \E c \in Cmds : Drain(p, c)
             \/ ExpireDone(p) \/ PickNone(p) \/ DrainDone(p)
             \/ \E k \in Jobs, c \in Cmds : SteerPrior(p, k, c)
    BY <2>2, SessionLoop
  <2>3. CASE Admit(p) \/ EnqueueNew(p) \/ Emit(p) \/ ReadState(p) \/ WriteRow(p)
    BY <2>3, SessionAdmit, SessionEnqueueNew, SessionEmit, SessionReadState, SessionWriteRow
  <2> QED
    BY <1>3, <2>1, <2>2, <2>3 DEF OpStep
<1>4. ASSUME NEW p \in Procs, Throw(p) \/ Crash(p) PROVE SInv'
  BY <1>4, SessionLoop
<1>5. CASE \/ \E p \in Procs, j \in Jobs : SyncRead(p, j)
           \/ \E p \in Procs : SyncWrite(p)
           \/ \E r \in runs : EndRun(r)
           \/ UNCHANGED vars
  <2>1. UNCHANGED <<fold, idx, op>>
    BY <1>5 DEF SyncRead, SyncWrite, EndRun, vars
  <2> QED
    BY <2>1 DEF SInv, SessionIsSingleton
<1>6. CASE TimePasses
  BY <1>6, SessionTimePasses
<1> QED
  BY <1>1, <1>2, <1>3, <1>4, <1>5, <1>6 DEF Next

(* enqueue with singletonMode "cancel" or "steer" never leaves a session   *)
(* with two unfinished jobs of which none was told to abort, for any       *)
(* number of jobs, processes, followers and faults, if one process         *)
(* enqueues.                                                               *)
THEOREM SessionStaysSingle == ASSUME SingleEnqueuer PROVE Spec => []SessionIsSingleton
<1>1. Init => SInv
  <2> SUFFICES ASSUME Init PROVE SInv
    OBVIOUS
  <2>1. \A p \in Procs : Sessioned(op[p], fold, idx[p])
    BY IdleQuiet, QuietSessioned DEF Init
  <2>2. SessionIsSingleton
    BY DEF Init, SessionIsSingleton, NoJob, Exists
  <2> QED
    BY <2>1, <2>2 DEF SInv
<1>2. IInv /\ SInv /\ [Next]_vars => SInv'
  BY SessionNext
<1>3. SInv => SessionIsSingleton
  BY DEF SInv
<1> QED
  BY <1>1, <1>2, <1>3, Inductive, PTL DEF Spec


-----------------------------------------------------------------------------
(***************************************************************************)
(* Theorems about JobQueue for one queue over a database: one process, no  *)
(* follower; any number of workers, jobs, commands, attempts, exceptions   *)
(* and crashes.  With a second queue or a follower's sync rows are written *)
(* outside the lock they are read under, and LeaseIsExclusive and          *)
(* ProjectionFollows have counterexamples.                                 *)
(*                                                                         *)
(* The argument.  Under the write lock every guard is taken on the copy of *)
(* the job (Base: the row, or the stream if there is no row), and nothing  *)
(* changes the copy until the event that was offered on it is appended     *)
(* (Promised).  The copy may be behind the stream for good, since a throw  *)
(* between append and projection loses the write of the row, and then      *)
(*   - LeaseInv: the copy is never of a later attempt than the stream, no  *)
(*     run is of a later attempt than the copy, and whoever is of the      *)
(*     attempt of the other agrees with it about the owner;                *)
(*   - CmdInv: a command is open, in stream or row, in one job at most,    *)
(*     and in none once it was handed out;                                 *)
(*   - FollowInv: until something is thrown the copies are the stream, but *)
(*     for leased against running and for the job being projected.  This   *)
(*     is what makes every append a step of the ledger.                    *)
(* OneStep sorts the actions by what they do to streams, rows and          *)
(* commands; each invariant is shown once per sort.                        *)
(***************************************************************************)

-----------------------------------------------------------------------------
(* One queue.  The database is used by one process, which reads it under    *)
(* its write lock only: no second queue appends behind its back, and no    *)
(* follower's sync writes a row outside the lock.  The process may throw   *)
(* and crash as often as it likes.  What leases, commands and projections  *)
(* promise holds under this assumption only.                               *)
OneQueue == (\A p, q \in Procs : p = q) /\ Followers = {}

(* The copy every guard is taken on. *)
Base(j) == IF Exists(row[j]) THEN row[j] ELSE fold[j]

(* The events an operation may set out to emit, b being the copy of the    *)
(* job at that time.                                                       *)
Offered(o, b) ==
  \/ \E w \in Workers, type \in {"heartbeat", "progress", "completed"} :
       MayReport(b, w) /\ o.todo = <<By(type, w)>> /\ o.then = "idle"
  \/ \E w \in Workers, again \in BOOLEAN :
       /\ MayReport(b, w) /\ (again => Retryable(b))
       /\ o.todo = <<Failed(w, again)>> /\ o.then = "idle"
  \/ LeasePast(b) /\ o.todo = <<Expired(Retryable(b))>> /\ o.then = "expire"
  \/ /\ b.status = "queued" /\ (Targeted = {} => ~b.abort)
     /\ o.worker \in Workers /\ o.then = "grant"
     /\ o.todo = <<Leased(o.worker, b.attempt + 1)>>
  \/ o.todo = <<Plain("canceled")>> /\ o.then \in {"idle", "session"}
  \/ o.todo = <<Plain("enqueued")>> /\ o.then = "idle"

(* The events that issue command c. *)
Told(o, c) ==
  /\ \/ o.todo = <<Command("command", c)>>
     \/ o.todo = <<Command("command", c), Plain("canceled")>>
  /\ o.then \in {"idle", "session"}

Resting(o) == o.pc \in {"idle", "admit", "session", "expire", "pick"}

(* What a step copies into the index. *)
Copied(p) == \A j \in Jobs : idx'[p][j] \in {idx[p][j], Base(j), NoJob}

(* What the steps of one queue do to all but sync.  An operation that goes *)
(* on, returns or is abandoned;                                            *)
Rests(p) ==
  /\ UNCHANGED <<fold, row, used, delivered>> /\ Copied(p)
  /\ runs' \subseteq runs
  /\ faults' = 0 => faults = 0 /\ Resting(op[p])
  /\ \E next \in Op : Resting(next) /\ op' = [op EXCEPT ![p] = next]

(* a lease the worker already owns, handed out again;                      *)
Hands(p) ==
  /\ UNCHANGED <<fold, row, op, used, delivered, faults>> /\ Copied(p) /\ Free(p)
  /\ \E w \in Workers, j \in Jobs :
       /\ Active(Base(j)) /\ Base(j).worker = w
       /\ runs' = runs \cup {[worker |-> w, job |-> j, attempt |-> Base(j).attempt]}

(* events offered on the copy of a job;                                    *)
Offers(p) ==
  /\ UNCHANGED <<fold, row, runs, used, delivered, faults>> /\ Copied(p) /\ Resting(op[p])
  /\ \E next \in Op :
       /\ next.pc = "emit" /\ next.job \in Jobs /\ Offered(next, Base(next.job))
       /\ op' = [op EXCEPT ![p] = next]

(* a command issued;                                                       *)
Tells(p) ==
  /\ UNCHANGED <<fold, row, runs, delivered, faults>> /\ Copied(p) /\ Resting(op[p])
  /\ \E c \in Cmds \ used, next \in Op :
       /\ used' = used \cup {c}
       /\ next.pc = "emit" /\ next.job \in Jobs /\ Told(next, c)
       /\ op' = [op EXCEPT ![p] = next]

(* commands taken out of the copy of a job to be consumed.                 *)
Takes(p) ==
  /\ UNCHANGED <<fold, row, runs, used, delivered, faults>> /\ Copied(p) /\ Resting(op[p])
  /\ \E next \in Op :
       /\ next.pc = "drain" /\ next.job \in Jobs
       /\ next.left = next.got /\ next.got \subseteq Base(next.job).open
       /\ op' = [op EXCEPT ![p] = next]

(* A run ends, or nothing happens. *)
Passes == UNCHANGED <<fold, row, idx, op, used, delivered, faults>> /\ runs' \subseteq runs

Effects(p) ==
  \/ Rests(p) \/ Hands(p) \/ Offers(p) \/ Tells(p) \/ Takes(p)
  \/ (\E c \in Cmds : Drain(p, c)) \/ DrainDone(p)
  \/ Emit(p) \/ ReadState(p) \/ WriteRow(p)

-----------------------------------------------------------------------------
(* What an operation loads is the copy, wherever there is the job. *)
LEMMA LoadedBase ==
  ASSUME IInv, NEW p \in Procs, NEW j \in Jobs
  PROVE  /\ Loaded(p, j) \in {idx[p][j], Base(j)}
         /\ Exists(Loaded(p, j)) => Loaded(p, j) = Base(j)
         /\ Loaded(p, j).open \subseteq Base(j).open
         /\ Loaded(p, j) \in Job
<1>1. Real(idx[p][j], fold[j])
  BY DEF IInv, CopiesInv
<1>2. Loaded(p, j) \in Job
  BY CopyTypes DEF IInv
<1> QED
  BY <1>1, <1>2 DEF Loaded, Base, Real

(* Loading a job copies it. *)
LEMMA CopiesLoaded ==
  ASSUME IInv, NEW p \in Procs, NEW j \in Jobs, Index(p, j, Loaded(p, j)) \/ idx' = idx
  PROVE  Copied(p)
<1>1. Loaded(p, j) \in {idx[p][j], Base(j)}
  BY LoadedBase
<1> QED
  BY <1>1 DEF Copied, Index, IInv, TypeOK

(* Putting events offered or told in op. *)
LEMMA EmittingFields ==
  ASSUME NEW j \in Jobs, NEW events \in Seq(Event)
  PROVE  /\ Emitting(j, events) \in Op
         /\ Emitting(j, events).pc = "emit"
         /\ Emitting(j, events).job = j
         /\ Emitting(j, events).todo = events
         /\ Emitting(j, events).then = "idle"
  BY EmittingType DEF Emitting, Idle

(* A call about one job rests, or offers what its guard allows. *)
LEMMA PerformEffect ==
  ASSUME IInv, NEW p \in Procs, NEW j \in Jobs, NEW events \in Seq(Event),
         Perform(p, j, events), UNCHANGED <<fold, row, runs, used, delivered, faults>>,
         events # << >> => Offered(Emitting(j, events), Loaded(p, j))
  PROVE  Rests(p) \/ Offers(p)
<1>1. Copied(p) /\ Loaded(p, j) = Base(j) /\ Resting(op[p])
  BY CopiesLoaded, LoadedBase DEF Perform, Free, Resting
<1>2. CASE events = << >>
  <2>1. op' = [op EXCEPT ![p] = Idle]
    BY <1>2 DEF Perform
  <2> QED
    BY <1>1, <2>1, IdleType DEF Rests, Resting, Idle
<1>3. CASE events # << >>
  <2> DEFINE next == Emitting(j, events)
  <2>1. op' = [op EXCEPT ![p] = next]
    BY <1>3 DEF Perform
  <2>2. next \in Op /\ next.pc = "emit" /\ next.job = j
    BY EmittingFields
  <2>3. Offered(next, Base(next.job))
    BY <1>1, <1>3, <2>2
  <2> HIDE DEF next
  <2> QED
    BY <1>1, <2>1, <2>2, <2>3 DEF Offers
<1> QED
  BY <1>2, <1>3

(* A report of a worker is offered if the worker may report. *)
LEMMA ReportEffect ==
  ASSUME IInv, NEW p \in Procs, NEW w \in Workers, NEW j \in Jobs, NEW event \in Event,
         Report(p, w, j, event),
         MayReport(Loaded(p, j), w) => Offered(Emitting(j, <<event>>), Loaded(p, j))
  PROVE  Rests(p) \/ Offers(p)
<1> DEFINE events == IF MayReport(Loaded(p, j), w) THEN <<event>> ELSE << >>
<1>1. events \in Seq(Event) /\ (events # << >> => Offered(Emitting(j, events), Loaded(p, j)))
  OBVIOUS
<1>2. Perform(p, j, events) /\ UNCHANGED <<fold, row, runs, used, delivered, faults>>
  BY DEF Report
<1> HIDE DEF events
<1> QED
  BY <1>1, <1>2, PerformEffect

(* The calls of a worker. *)
LEMMA WorkerEffect ==
  ASSUME IInv, NEW p \in Procs, NEW w \in Workers, NEW j \in Jobs, WorkerCall(p, w, j)
  PROVE  Rests(p) \/ Hands(p) \/ Offers(p)
<1> DEFINE cur == Loaded(p, j)
<1>0. cur \in Job
  BY LoadedBase
<1>1. ASSUME NEW type \in {"heartbeat", "progress", "completed"}, Report(p, w, j, By(type, w))
      PROVE  Rests(p) \/ Offers(p)
  <2>1. By(type, w) \in Event
    BY EventTypes
  <2> DEFINE events == <<By(type, w)>>
             next == Emitting(j, events)
  <2>2. events \in Seq(Event)
    BY <2>1
  <2> HIDE DEF events
  <2>3. next.todo = events /\ next.then = "idle"
    BY <2>2, EmittingFields
  <2> HIDE DEF next
  <2>4. MayReport(cur, w) => Offered(next, cur)
    BY <2>3 DEF Offered, events
  <2> QED
    BY <1>1, <2>1, <2>4, ReportEffect DEF next, events
<1>2. CASE Heartbeat(p, w, j) \/ Progress(p, w, j) \/ Complete(p, w, j)
  BY <1>1, <1>2 DEF Heartbeat, Progress, Complete
<1>3. ASSUME NEW noRetry \in BOOLEAN, Fail(p, w, j, noRetry) PROVE Rests(p) \/ Offers(p)
  <2> DEFINE again == Retryable(cur) /\ ~noRetry
             events == <<Failed(w, again)>>
             next == Emitting(j, events)
  <2>1. again \in BOOLEAN /\ (again => Retryable(cur))
    BY DEF Retryable
  <2>2. Report(p, w, j, Failed(w, again))
    BY <1>3 DEF Fail
  <2> HIDE DEF again
  <2>3. Failed(w, again) \in Event
    BY <2>1, EventTypes
  <2>4. events \in Seq(Event)
    BY <2>3
  <2> HIDE DEF events
  <2>5. next.todo = events /\ next.then = "idle"
    BY <2>4, EmittingFields
  <2> HIDE DEF next
  <2>6. MayReport(cur, w) => Offered(next, cur)
    BY <2>1, <2>5 DEF Offered, events
  <2> QED
    BY <2>2, <2>3, <2>6, ReportEffect DEF next, events
<1>4. CASE LeaseNext(p, w)
  <2> DEFINE next == [Idle EXCEPT !.pc = "expire", !.worker = w,
                                  !.left = {k \in Jobs : Active(idx[p][k])}]
  <2>1. next \in Op /\ next.pc = "expire"
    BY IdleType DEF Op, PCs
  <2>2. op' = [op EXCEPT ![p] = next]
    BY <1>4 DEF LeaseNext
  <2>3. UNCHANGED <<fold, row, runs, used, delivered, faults>> /\ Copied(p) /\ Resting(op[p])
    BY <1>4 DEF LeaseNext, Copied, Free, Resting
  <2> HIDE DEF next
  <2> QED
    BY <2>1, <2>2, <2>3 DEF Rests, Resting
<1>5. CASE LeaseJob(p, w, j)
  <2> DEFINE event == Leased(w, cur.attempt + 1)
             events == <<event>>
             em == Emitting(j, events)
             next == [em EXCEPT !.worker = w, !.then = "grant"]
  <2>1. /\ UNCHANGED <<fold, row, used, delivered, faults>> /\ Copied(p) /\ Free(p)
        /\ cur = Base(j) /\ w \in Targeted /\ Resting(op[p])
    BY <1>5, CopiesLoaded, LoadedBase DEF LeaseJob, Free, Resting
  <2>2. CASE cur.status = "queued"
    <3>1. op' = [op EXCEPT ![p] = next] /\ runs' = runs
      BY <1>5, <2>2 DEF LeaseJob
    <3>2. cur.attempt + 1 \in Nat
      BY <1>0 DEF Job
    <3>3. events \in Seq(Event)
      <4> DEFINE n == cur.attempt + 1
      <4> HIDE DEF n
      <4>1. Leased(w, n) \in Event
        BY <3>2, EventTypes DEF n
      <4> QED
        BY <4>1 DEF n
    <3> HIDE DEF events
    <3>4. em \in Op /\ em.pc = "emit" /\ em.job = j /\ em.todo = events
      BY <3>3, EmittingFields
    <3> HIDE DEF em
    <3>5. /\ next \in Op /\ next.pc = "emit" /\ next.job = j /\ next.todo = events
          /\ next.worker = w /\ next.then = "grant"
      BY <3>4 DEF Op
    <3> HIDE DEF next
    <3>6. Offered(next, Base(next.job))
      BY <2>1, <2>2, <3>5 DEF Offered, events
    <3> QED
      BY <2>1, <3>1, <3>5, <3>6 DEF Offers
  <2>3. CASE cur.status # "queued" /\ OwnedBy(cur, w, cur.attempt)
    <3>1. op' = op /\ runs' = runs \cup {[worker |-> w, job |-> j, attempt |-> cur.attempt]}
      BY <1>5, <2>3 DEF LeaseJob
    <3> HIDE DEF cur
    <3> QED
      BY <2>1, <2>3, <3>1 DEF Hands, OwnedBy
  <2>4. CASE cur.status # "queued" /\ ~OwnedBy(cur, w, cur.attempt)
    <3>1. op' = op /\ runs' = runs
      BY <1>5, <2>4 DEF LeaseJob
    <3>2. op' = [op EXCEPT ![p] = op[p]] /\ op[p] \in Op
      BY <3>1 DEF IInv, TypeOK
    <3> HIDE DEF cur
    <3> QED
      BY <2>1, <3>1, <3>2 DEF Rests
  <2> QED
    BY <2>2, <2>3, <2>4
<1> QED
  BY <1>2, <1>3, <1>4, <1>5 DEF WorkerCall

(* The calls of a client. *)
LEMMA ClientEffect ==
  ASSUME IInv, NEW p \in Procs, NEW j \in Jobs, ClientCall(p, j)
  PROVE  Rests(p) \/ Offers(p) \/ Tells(p) \/ Takes(p)
<1> DEFINE cur == Loaded(p, j)
<1>1. CASE GetJob(p, j)
  <2>1. << >> \in Seq(Event)
    OBVIOUS
  <2> QED
    BY <1>1, <2>1, PerformEffect DEF GetJob
<1>2. CASE Cancel(p, j)
  <2> DEFINE events == IF Terminal(cur) THEN << >> ELSE <<Plain("canceled")>>
             next == Emitting(j, events)
  <2>1. events \in Seq(Event) /\ (events # << >> => events = <<Plain("canceled")>>)
    BY EventTypes
  <2>2. Perform(p, j, events) /\ UNCHANGED <<fold, row, runs, used, delivered, faults>>
    BY <1>2 DEF Cancel
  <2> HIDE DEF events
  <2>3. next.todo = events /\ next.then = "idle"
    BY <2>1, EmittingFields
  <2> HIDE DEF next
  <2>4. events # << >> => Offered(next, cur)
    BY <2>1, <2>3 DEF Offered
  <2> QED
    BY <2>1, <2>2, <2>4, PerformEffect DEF next
<1>3. ASSUME NEW c \in Cmds, QueueCommand(p, j, c) PROVE Tells(p)
  <2> DEFINE events == IF c \in AbortCmds /\ cur.status = "queued"
                       THEN <<Command("command", c), Plain("canceled")>>
                       ELSE <<Command("command", c)>>
             next == Emitting(j, events)
  <2>1. events \in Seq(Event) /\ events # << >>
    BY EventTypes
  <2>2. events \in {<<Command("command", c)>>, <<Command("command", c), Plain("canceled")>>}
    OBVIOUS
  <2>3. /\ Perform(p, j, events) /\ UNCHANGED <<fold, row, runs, delivered, faults>>
        /\ c \in Cmds \ used /\ used' = used \cup {c}
    BY <1>3 DEF QueueCommand
  <2> HIDE DEF events
  <2>4. op' = [op EXCEPT ![p] = next]
    BY <2>1, <2>3 DEF Perform
  <2>5. next \in Op /\ next.pc = "emit" /\ next.job = j /\ next.todo = events /\ next.then = "idle"
    BY <2>1, EmittingFields
  <2> HIDE DEF next
  <2>6. Copied(p) /\ Resting(op[p])
    BY <2>3, CopiesLoaded DEF Perform, Free, Resting
  <2>7. Told(next, c)
    BY <2>2, <2>5 DEF Told
  <2> QED
    BY <2>3, <2>4, <2>5, <2>6, <2>7 DEF Tells
<1>4. CASE Enqueue(p, j)
  <2> DEFINE all == [k \in Jobs |-> IF Exists(idx[p][k]) THEN idx[p][k] ELSE Loaded(p, k)]
             next == [Idle EXCEPT !.pc = "admit", !.new = j]
  <2>1. next \in Op /\ next.pc = "admit"
    BY IdleType DEF Op, PCs
  <2>2. op' = [op EXCEPT ![p] = next] /\ UNCHANGED <<fold, row, runs, used, delivered, faults>>
        /\ (idx' = idx \/ idx' = [idx EXCEPT ![p] = all]) /\ Resting(op[p])
    BY <1>4 DEF Enqueue, Free, Resting
  <2> HIDE DEF next
  <2>3. Copied(p)
    <3>1. \A k \in Jobs : all[k] \in {idx[p][k], Base(k)}
      BY LoadedBase
    <3> HIDE DEF all
    <3> QED
      BY <2>2, <3>1 DEF Copied, IInv, TypeOK
  <2> QED
    BY <2>1, <2>2, <2>3 DEF Rests, Resting
<1>5. CASE Refresh(p)
  <2>1. PICK all \in {[k \in Jobs |-> IF Terminal(idx[p][k]) THEN idx[p][k]
                                      ELSE IF Exists(row[k]) THEN row[k] ELSE fold[k]]} :
          /\ idx' = [idx EXCEPT ![p] = all]
          /\ op' = [op EXCEPT ![p] = [Idle EXCEPT !.pc = "expire",
                                        !.left = {k \in Jobs : Active(all[k])}]]
    BY <1>5 DEF Refresh
  <2> DEFINE next == [Idle EXCEPT !.pc = "expire", !.left = {k \in Jobs : Active(all[k])}]
  <2>2. next \in Op /\ next.pc = "expire"
    BY IdleType DEF Op, PCs
  <2>3. Copied(p)
    <3>1. \A k \in Jobs : all[k] \in {idx[p][k], Base(k)}
      BY DEF Base
    <3> QED
      BY <2>1, <3>1 DEF Copied, IInv, TypeOK
  <2>4. op' = [op EXCEPT ![p] = next] /\ UNCHANGED <<fold, row, runs, used, delivered, faults>>
        /\ Resting(op[p])
    BY <1>5, <2>1 DEF Refresh, Free, Resting
  <2> HIDE DEF next
  <2> QED
    BY <2>2, <2>3, <2>4 DEF Rests, Resting
<1>6. ASSUME NEW wanted \in {Cmds, AbortCmds}, Consume(p, j, wanted) PROVE Rests(p) \/ Takes(p)
  <2> DEFINE batch == cur.open \cap wanted
             next == [Idle EXCEPT !.pc = "drain", !.job = j, !.left = batch, !.got = batch]
  <2>1. UNCHANGED <<fold, row, runs, used, delivered, faults>> /\ Copied(p) /\ Resting(op[p])
    BY <1>6, CopiesLoaded DEF Consume, Free, Resting
  <2>2. batch \subseteq Base(j).open /\ batch \subseteq Cmds
    BY LoadedBase, RecordAssumption DEF Job
  <2>3. op' = [op EXCEPT ![p] = Idle] \/ op' = [op EXCEPT ![p] = next]
    BY <1>6 DEF Consume
  <2> HIDE DEF batch
  <2>4. next \in Op /\ next.pc = "drain" /\ next.job = j /\ next.left = batch /\ next.got = batch
    BY <2>2, IdleType DEF Op, PCs, Idle
  <2>5. Idle \in Op /\ Resting(Idle)
    BY IdleType DEF Idle, Resting
  <2> HIDE DEF next
  <2> QED
    BY <2>1, <2>2, <2>3, <2>4, <2>5 DEF Rests, Takes
<1> QED
  BY <1>1, <1>2, <1>3, <1>4, <1>5, <1>6 DEF ClientCall

(* The steps of handleExpiredLeases and of the search for a queued job. *)
LEMMA LoopEffect ==
  ASSUME IInv, NEW p \in Procs,
         (\E j \in Jobs : ExpireScan(p, j) \/ Pick(p, j)) \/ ExpireDone(p) \/ PickNone(p)
  PROVE  Rests(p) \/ Offers(p)
<1> DEFINE o == op[p]
<1>0. o \in Op /\ Shape(p, o)
  BY OpAt
<1>1. UNCHANGED <<fold, row, runs, used, delivered, faults>> /\ Resting(op[p])
  BY DEF ExpireScan, Pick, ExpireDone, PickNone, Resting
<1>2. ASSUME NEW j \in Jobs, ExpireScan(p, j) PROVE Rests(p) \/ Offers(p)
  <2> DEFINE cur == Loaded(p, j)
             left == o.left \ {j}
             event == Expired(Retryable(cur))
             more == [o EXCEPT !.pc = "emit", !.job = j, !.left = left, !.then = "expire",
                               !.todo = <<event>>]
             skip == [o EXCEPT !.left = left]
  <2>1. Copied(p)
    BY <1>2, CopiesLoaded DEF ExpireScan
  <2>2. \/ op' = [op EXCEPT ![p] = skip]
        \/ LeasePast(cur) /\ op' = [op EXCEPT ![p] = more]
    BY <1>2 DEF ExpireScan
  <2>3. o.pc = "expire"
    BY <1>2 DEF ExpireScan
  <2>4. left \in SUBSET (Jobs \cup Cmds)
    BY LeftType DEF IInv
  <2>5. event \in Event
    <3>1. Retryable(cur) \in BOOLEAN
      BY DEF Retryable
    <3> QED
      BY <3>1, EventTypes
  <2> HIDE DEF left, event
  <2>6. skip \in Op /\ skip.pc = "expire"
    BY <1>0, <2>3, <2>4 DEF Op
  <2>7. <<event>> \in Seq(Event)
    BY <2>5
  <2>8. /\ more \in Op /\ more.pc = "emit" /\ more.job = j /\ more.then = "expire"
        /\ more.todo = <<event>>
    BY <1>0, <2>4, <2>7 DEF Op, PCs
  <2> HIDE DEF skip, more
  <2>9. CASE op' = [op EXCEPT ![p] = skip]
    BY <1>1, <2>1, <2>6, <2>9 DEF Rests, Resting
  <2>10. CASE LeasePast(cur) /\ op' = [op EXCEPT ![p] = more]
    <3>1. cur = Base(j)
      BY <2>10, LoadedBase DEF LeasePast, Active, Exists
    <3>2. Offered(more, Base(j))
      BY <2>8, <2>10, <3>1 DEF Offered, event
    <3> QED
      BY <1>1, <2>1, <2>8, <2>10, <3>2 DEF Offers
  <2> QED
    BY <2>2, <2>9, <2>10
<1>3. ASSUME NEW j \in Jobs, Pick(p, j) PROVE Rests(p) \/ Offers(p)
  <2> DEFINE cur == Loaded(p, j)
             left == o.left \ {j}
             event == Leased(o.worker, cur.attempt + 1)
             lease == [o EXCEPT !.pc = "emit", !.job = j, !.left = {}, !.then = "grant",
                                !.todo = <<event>>]
             skip == [o EXCEPT !.left = left]
  <2>1. Copied(p)
    BY <1>3, CopiesLoaded DEF Pick
  <2>2. \/ op' = [op EXCEPT ![p] = skip]
        \/ ShouldQueue(cur) /\ op' = [op EXCEPT ![p] = lease]
    BY <1>3 DEF Pick
  <2>3. o.pc = "pick" /\ o.worker \in Workers
    BY <1>0, <1>3 DEF Pick, Shape
  <2>4. left \in SUBSET (Jobs \cup Cmds)
    BY LeftType DEF IInv
  <2>5. event \in Event
    <3> DEFINE n == cur.attempt + 1
    <3>1. n \in Nat
      BY LoadedBase DEF Job
    <3> HIDE DEF n
    <3>2. Leased(o.worker, n) \in Event
      BY <2>3, <3>1, EventTypes
    <3> QED
      BY <3>2 DEF n
  <2> HIDE DEF left, event
  <2>6. skip \in Op /\ skip.pc = "pick"
    BY <1>0, <2>3, <2>4 DEF Op
  <2>7. <<event>> \in Seq(Event)
    BY <2>5
  <2>8. /\ lease \in Op /\ lease.pc = "emit" /\ lease.job = j /\ lease.then = "grant"
        /\ lease.todo = <<event>> /\ lease.worker = o.worker
    BY <1>0, <2>7 DEF Op, PCs
  <2> HIDE DEF skip, lease
  <2>9. CASE op' = [op EXCEPT ![p] = skip]
    BY <1>1, <2>1, <2>6, <2>9 DEF Rests, Resting
  <2>10. CASE ShouldQueue(cur) /\ op' = [op EXCEPT ![p] = lease]
    <3>1. cur = Base(j)
      BY <2>10, LoadedBase DEF ShouldQueue, Exists
    <3>2. Offered(lease, Base(j))
      BY <2>3, <2>8, <2>10, <3>1 DEF Offered, event, ShouldQueue
    <3> QED
      BY <1>1, <2>1, <2>8, <2>10, <3>2 DEF Offers
  <2> QED
    BY <2>2, <2>9, <2>10
<1>4. CASE ExpireDone(p)
  <2> DEFINE pick == [o EXCEPT !.pc = "pick", !.left = {j \in Jobs : ShouldQueue(idx[p][j])}]
  <2>1. pick \in Op /\ pick.pc = "pick"
    BY <1>0 DEF Op, PCs
  <2>2. Copied(p) /\ (op' = [op EXCEPT ![p] = pick] \/ op' = [op EXCEPT ![p] = Idle])
    BY <1>4 DEF ExpireDone, Copied
  <2>3. Idle \in Op /\ Resting(Idle)
    BY IdleType DEF Idle, Resting
  <2> HIDE DEF pick
  <2> QED
    BY <1>1, <2>1, <2>2, <2>3 DEF Rests, Resting
<1>5. CASE PickNone(p)
  BY <1>1, <1>5, IdleType DEF PickNone, Rests, Resting, Idle, Copied
<1> QED
  BY <1>2, <1>3, <1>4, <1>5

(* The later steps of enqueue. *)
LEMMA EnqueueEffect ==
  ASSUME IInv, NEW p \in Procs,
         \/ Admit(p) \/ EnqueueNew(p)
         \/ \E k \in Jobs : CancelPrior(p, k)
                         \/ \E c \in Cmds : AbortPrior(p, k, c) \/ SteerPrior(p, k, c)
  PROVE  Rests(p) \/ Offers(p) \/ Tells(p)
<1> DEFINE o == op[p]
<1>0. o \in Op /\ Shape(p, o) /\ Resting(op[p])
  BY OpAt DEF Admit, EnqueueNew, CancelPrior, AbortPrior, SteerPrior, Resting
<1>1. CASE Admit(p)
  <2> DEFINE cur == Loaded(p, o.new)
             next == [o EXCEPT !.pc = "session", !.left = SessionActive(p, o.new)]
  <2>1. o.new \in Jobs
    BY <1>0, <1>1 DEF Admit, Shape
  <2>2. Copied(p)
    <3>1. Index(p, o.new, cur) \/ idx' = idx
      BY <1>1 DEF Admit
    <3> QED
      BY <2>1, <3>1, CopiesLoaded
  <2>3. next \in Op /\ next.pc = "session"
    BY <1>0 DEF Op, PCs, SessionActive
  <2>4. Idle \in Op /\ Resting(Idle)
    BY IdleType DEF Idle, Resting
  <2>5. UNCHANGED <<fold, row, runs, used, delivered, faults>>
        /\ (op' = [op EXCEPT ![p] = next] \/ op' = [op EXCEPT ![p] = Idle])
    BY <1>1 DEF Admit
  <2> HIDE DEF next
  <2> QED
    BY <1>0, <2>2, <2>3, <2>4, <2>5 DEF Rests, Resting
<1>2. CASE EnqueueNew(p)
  <2> DEFINE events == <<Plain("enqueued")>>
             next == Emitting(o.new, events)
  <2>1. o.new \in Jobs
    BY <1>0, <1>2 DEF EnqueueNew, Shape, InSession
  <2>2. events \in Seq(Event)
    BY EventTypes
  <2>3. op' = [op EXCEPT ![p] = next] /\ UNCHANGED <<fold, row, runs, used, delivered, faults>>
        /\ Copied(p)
    BY <1>2 DEF EnqueueNew, Copied
  <2> HIDE DEF events
  <2>4. next \in Op /\ next.pc = "emit" /\ next.job = o.new /\ next.todo = events /\ next.then = "idle"
    BY <2>1, <2>2, EmittingFields
  <2> HIDE DEF next
  <2>5. Offered(next, Base(next.job))
    BY <2>4 DEF Offered, events
  <2> QED
    BY <1>0, <2>1, <2>3, <2>4, <2>5 DEF Offers
<1>3. ASSUME NEW k \in Jobs, CancelPrior(p, k) PROVE Offers(p)
  <2> DEFINE left == o.left \ {k}
             events == <<Plain("canceled")>>
             next == [o EXCEPT !.pc = "emit", !.job = k, !.left = left,
                               !.then = "session", !.todo = events]
  <2>1. events \in Seq(Event)
    BY EventTypes
  <2>2. op' = [op EXCEPT ![p] = next] /\ UNCHANGED <<fold, row, runs, used, delivered, faults>>
        /\ Copied(p)
    BY <1>3 DEF CancelPrior, Copied
  <2>3. left \in SUBSET (Jobs \cup Cmds)
    BY LeftType DEF IInv
  <2> HIDE DEF left, events
  <2>4. next \in Op /\ next.pc = "emit" /\ next.job = k /\ next.todo = events /\ next.then = "session"
    BY <1>0, <2>1, <2>3 DEF Op, PCs
  <2> HIDE DEF next
  <2>5. Offered(next, Base(next.job))
    BY <2>4 DEF Offered, events
  <2> QED
    BY <1>0, <2>2, <2>4, <2>5 DEF Offers
<1>4. ASSUME NEW k \in Jobs, NEW c \in Cmds, AbortPrior(p, k, c) PROVE Tells(p)
  <2> DEFINE left == o.left \ {k}
             events == <<Command("command", c)>>
             next == [o EXCEPT !.pc = "emit", !.job = k, !.left = left,
                               !.then = "session", !.todo = events]
  <2>1. events \in Seq(Event)
    BY EventTypes
  <2>2. /\ op' = [op EXCEPT ![p] = next] /\ UNCHANGED <<fold, row, runs, delivered, faults>>
        /\ Copied(p) /\ c \in Cmds \ used /\ used' = used \cup {c}
    BY <1>4, RecordAssumption DEF AbortPrior, Copied
  <2>3. left \in SUBSET (Jobs \cup Cmds)
    BY LeftType DEF IInv
  <2> HIDE DEF left, events
  <2>4. next \in Op /\ next.pc = "emit" /\ next.job = k /\ next.todo = events /\ next.then = "session"
    BY <1>0, <2>1, <2>3 DEF Op, PCs
  <2> HIDE DEF next
  <2>5. Told(next, c)
    BY <2>4 DEF Told, events
  <2> QED
    BY <1>0, <2>2, <2>4, <2>5 DEF Tells
<1>5. ASSUME NEW k \in Jobs, NEW c \in Cmds, SteerPrior(p, k, c) PROVE Tells(p)
  <2> DEFINE events == <<Command("command", c)>>
             next == Emitting(k, events)
  <2>1. events \in Seq(Event)
    BY EventTypes
  <2>2. /\ op' = [op EXCEPT ![p] = next] /\ UNCHANGED <<fold, row, runs, delivered, faults>>
        /\ Copied(p) /\ c \in Cmds \ used /\ used' = used \cup {c}
    BY <1>5 DEF SteerPrior, Copied
  <2> HIDE DEF events
  <2>3. next \in Op /\ next.pc = "emit" /\ next.job = k /\ next.todo = events /\ next.then = "idle"
    BY <2>1, EmittingFields
  <2> HIDE DEF next
  <2>4. Told(next, c)
    BY <2>3 DEF Told, events
  <2> QED
    BY <1>0, <2>2, <2>3, <2>4 DEF Tells
<1> QED
  BY <1>1, <1>2, <1>3, <1>4, <1>5

(* Every step of one queue, by what it does. *)
LEMMA OneStep ==
  ASSUME OneQueue, IInv, \A p \in Procs : sync[p].job = None, [Next]_vars
  PROVE  Passes \/ TimePasses \/ \E p \in Procs : Effects(p)
<1>1. ASSUME NEW p \in Procs, NEW w \in Workers, NEW j \in Jobs, WorkerCall(p, w, j)
      PROVE  Effects(p)
  BY <1>1, WorkerEffect DEF Effects
<1>2. ASSUME NEW p \in Procs, NEW j \in Jobs, ClientCall(p, j) PROVE Effects(p)
  BY <1>2, ClientEffect DEF Effects
<1>3. ASSUME NEW p \in Procs, OpStep(p) PROVE Effects(p)
  <2>1. CASE (\E j \in Jobs : ExpireScan(p, j) \/ Pick(p, j)) \/ ExpireDone(p) \/ PickNone(p)
    BY <2>1, LoopEffect DEF Effects
  <2>2. CASE \/ Admit(p) \/ EnqueueNew(p)
             \/ \E k \in Jobs : CancelPrior(p, k)
                             \/ \E c \in Cmds : AbortPrior(p, k, c) \/ SteerPrior(p, k, c)
    BY <2>2, EnqueueEffect DEF Effects
  <2>3. CASE (\E c \in Cmds : Drain(p, c)) \/ DrainDone(p) \/ Emit(p) \/ ReadState(p) \/ WriteRow(p)
    BY <2>3 DEF Effects
  <2> QED
    BY <1>3, <2>1, <2>2, <2>3 DEF OpStep
<1>4. ASSUME NEW p \in Procs, Throw(p) \/ Crash(p) PROVE Rests(p)
  <2>1. Idle \in Op /\ Resting(Idle) /\ op' = [op EXCEPT ![p] = Idle]
    BY <1>4, IdleType DEF Idle, Resting, Throw, Crash
  <2>2. Copied(p)
    BY <1>4 DEF Throw, Crash, Copied, IInv, TypeOK
  <2>3. faults' # 0
    BY <1>4 DEF Throw, Crash, IInv, TypeOK
  <2> QED
    BY <1>4, <2>1, <2>2, <2>3 DEF Throw, Crash, Rests
<1>5. CASE \/ \E p \in Procs, j \in Jobs : SyncRead(p, j)
           \/ \E p \in Procs : SyncWrite(p)
  BY <1>5 DEF SyncRead, SyncWrite, OneQueue
<1>6. CASE (\E r \in runs : EndRun(r)) \/ UNCHANGED vars
  BY <1>6 DEF EndRun, vars, Passes
<1> QED
  BY <1>1, <1>2, <1>3, <1>4, <1>5, <1>6 DEF Next, Effects

-----------------------------------------------------------------------------
(* What the one operation relies on. *)
Consumes(o) == o.then = "drain" /\ \E c \in Cmds : o.todo = <<Command("consumed", c)>>

AbortsQueued(o) ==
  /\ o.then \in {"idle", "session"}
  /\ \E c \in Cmds : o.todo = <<Command("command", c), Plain("canceled")>>

NoSyncs == \A p \in Procs : sync[p].job = None

(* The events still to emit are those that were offered on the copy of the *)
(* job, which is still the same; the state read for the row is the stream. *)
Promised(o, b, f) ==
  /\ o.pc = "emit" => Offered(o, b) \/ (\E c \in Cmds : Told(o, c)) \/ Consumes(o)
  /\ Acting(o) => Len(o.todo) = 1 \/ AbortsQueued(o)
  /\ Acting(o) /\ o.then = "drain" => Consumes(o)
  /\ Acting(o) /\ o.then = "grant" => Head(o.todo).type = "leased"
  /\ o.pc = "write" => o.snap = f

Manned(r) == Active(r) => r.worker \in Workers

BInv ==
  /\ \A p \in Procs : Promised(op[p], Base(op[p].job), fold[op[p].job])
  /\ \A j \in Jobs : Manned(fold[j]) /\ Manned(row[j])

(* What an event makes of a job: the lease, the attempt and the commands.  *)
LEMMA ReduceLease ==
  ASSUME NEW r \in Job, NEW e \in Event
  PROVE  LET g == Reduce(r, e) IN
         /\ Active(g) =>
              \/ e.type = "leased" /\ r.status = "queued" /\ g.worker = e.worker
                 /\ g.attempt = e.attempt
              \/ e.type \in {"heartbeat", "progress"} /\ Active(r) /\ g.worker = e.worker
                 /\ g.attempt = r.attempt
              \/ Active(r) /\ g.worker = r.worker /\ g.attempt = r.attempt
         /\ \/ g.attempt = r.attempt
            \/ e.type = "leased" /\ r.status = "queued" /\ g.attempt = e.attempt
            \/ e.type = "enqueued" /\ g.attempt = 0
         /\ \/ g.open = r.open
            \/ e.type = "command" /\ g.open = r.open \cup e.cmds
            \/ e.type = "consumed" /\ g.open = r.open \ e.cmds
            \/ e.type = "enqueued" /\ g.open = {}
         /\ e.type = "command" => g.open = r.open \cup e.cmds
         /\ e.type = "consumed" => g.open = r.open \ e.cmds
<1> DEFINE g == Effect(r, e)
<1>1. CASE ~Applies(r, e)
  <2>1. Reduce(r, e) = r /\ e.type \notin {"command", "consumed"}
    BY <1>1 DEF Reduce, Applies
  <2> QED
    BY <2>1
<1>2. CASE Applies(r, e)
  <2>1. Reduce(r, e) = g
    BY <1>2 DEF Reduce
  <2>2. CASE e.type = "enqueued"
    <3>1. g.status = "queued" /\ g.attempt = 0 /\ g.open = {}
      BY <2>2 DEF Effect, NoJob
    <3> HIDE DEF g
    <3> QED
      BY <2>1, <2>2, <3>1 DEF Active
  <2>3. CASE e.type = "leased"
    <3>1. r.status = "queued" /\ g.worker = e.worker /\ g.attempt = e.attempt /\ g.open = r.open
      BY <1>2, <2>3 DEF Applies, Effect, Job
    <3> HIDE DEF g
    <3> QED
      BY <2>1, <2>3, <3>1
  <2>4. CASE e.type \in {"heartbeat", "progress"}
    <3>1. Active(r) /\ g.worker = e.worker /\ g.attempt = r.attempt /\ g.open = r.open
      BY <1>2, <2>4 DEF Applies, Effect, Job
    <3> HIDE DEF g
    <3> QED
      BY <2>1, <2>4, <3>1
  <2>5. CASE e.type \in {"completed", "failed", "lease_expired", "canceled"}
    <3>1. ~Active(g) /\ g.attempt = r.attempt /\ g.open = r.open
      <4>1. CASE e.type = "completed"
        BY <4>1 DEF Effect, Job, Active
      <4>2. CASE e.type \in {"failed", "lease_expired"}
        BY <4>2 DEF Effect, Release, Job, Active
      <4>3. CASE e.type = "canceled"
        BY <4>3 DEF Effect, Job, Active
      <4> QED
        BY <2>5, <4>1, <4>2, <4>3
    <3> HIDE DEF g
    <3> QED
      BY <2>1, <2>5, <3>1
  <2>6. CASE e.type = "command"
    <3> DEFINE a == r.abort \/ e.cmds \subseteq AbortCmds
               u == r.open \cup e.cmds
    <3>1. g = [r EXCEPT !.abort = a, !.open = u]
      BY <2>6 DEF Effect
    <3> HIDE DEF a, u, g
    <3>2. g.status = r.status /\ g.worker = r.worker /\ g.attempt = r.attempt /\ g.open = u
      BY <3>1 DEF Job
    <3> QED
      BY <2>1, <2>6, <3>2 DEF Active, u
  <2>7. CASE e.type = "consumed"
    <3> DEFINE u == r.open \ e.cmds
    <3>1. g = [r EXCEPT !.open = u]
      BY <2>7 DEF Effect
    <3> HIDE DEF u, g
    <3>2. g.status = r.status /\ g.worker = r.worker /\ g.attempt = r.attempt /\ g.open = u
      BY <3>1 DEF Job
    <3> QED
      BY <2>1, <2>7, <3>2 DEF Active, u
  <2> QED
    BY <2>2, <2>3, <2>4, <2>5, <2>6, <2>7 DEF Event
<1> QED
  BY <1>1, <1>2

(* What the events offered on copy b of a job rely on. *)
LEMMA OfferedEvent ==
  ASSUME NEW o, NEW b, Offered(o, b)
  PROVE  LET e == Head(o.todo) IN
         /\ e.type \in {"heartbeat", "progress"} => e.worker \in Workers /\ MayReport(b, e.worker)
         /\ e.type = "leased" => /\ e.worker \in Workers /\ e.attempt = b.attempt + 1
                                 /\ b.status = "queued"
         /\ e.type \notin {"command", "consumed"}
<1> DEFINE e == Head(o.todo)
<1>1. ASSUME NEW w \in Workers, NEW type \in {"heartbeat", "progress", "completed"},
             MayReport(b, w), o.todo = <<By(type, w)>>
      PROVE  e.type = type /\ e.worker = w
  BY <1>1 DEF By, Plain
<1>2. ASSUME NEW w \in Workers, NEW again \in BOOLEAN, o.todo = <<Failed(w, again)>>
      PROVE  e.type = "failed"
  <2>1. Failed(w, again).type = "failed"
    BY DEF Failed, Plain
  <2>2. e = Failed(w, again)
    BY <1>2
  <2> QED
    BY <2>1, <2>2
<1>3. o.todo = <<Expired(Retryable(b))>> => e.type = "lease_expired"
  BY DEF Expired, Plain
<1>4. ASSUME o.todo = <<Leased(o.worker, b.attempt + 1)>>
      PROVE  e.type = "leased" /\ e.worker = o.worker /\ e.attempt = b.attempt + 1
  <2> DEFINE n == b.attempt + 1
  <2> HIDE DEF n
  <2>1. Leased(o.worker, n).type = "leased" /\ Leased(o.worker, n).worker = o.worker
        /\ Leased(o.worker, n).attempt = n
    BY DEF Leased, Plain
  <2>2. o.todo = <<Leased(o.worker, n)>>
    BY <1>4 DEF n
  <2>3. Head(o.todo) = Leased(o.worker, n)
    BY <2>2
  <2> QED
    BY <2>1, <2>3 DEF n
<1>5. o.todo = <<Plain("canceled")>> => e.type = "canceled"
  BY DEF Plain
<1>6. o.todo = <<Plain("enqueued")>> => e.type = "enqueued"
  BY DEF Plain
<1> HIDE DEF e
<1>7. /\ e.type \in {"heartbeat", "progress"} => e.worker \in Workers /\ MayReport(b, e.worker)
      /\ e.type = "leased" => /\ e.worker \in Workers /\ e.attempt = b.attempt + 1
                              /\ b.status = "queued"
      /\ e.type \notin {"command", "consumed"}
  BY <1>1, <1>2, <1>3, <1>4, <1>5, <1>6 DEF Offered
<1> QED
  BY <1>7 DEF e

(* What is told is the command. *)
LEMMA ToldEvent ==
  ASSUME NEW o, NEW c, Told(o, c)
  PROVE  Head(o.todo).type = "command" /\ Head(o.todo).cmds = {c}
<1>1. Head(o.todo) = Command("command", c)
  BY DEF Told
<1> QED
  BY <1>1 DEF Command, Plain

(* What is consumed is a command. *)
LEMMA ConsumesEvent ==
  ASSUME NEW o, NEW c, o.todo = <<Command("consumed", c)>>
  PROVE  Head(o.todo).type = "consumed" /\ Head(o.todo).cmds = {c}
<1>1. Head(o.todo) = Command("consumed", c)
  OBVIOUS
<1> QED
  BY <1>1 DEF Command, Plain

(* The event an operation is about to append. *)
LEMMA NextEvent ==
  ASSUME IInv, BInv, NEW p \in Procs, op[p].pc = "emit"
  PROVE  LET o == op[p]
             e == Head(o.todo)
             b == Base(o.job) IN
         /\ o \in Op /\ o.job \in Jobs /\ e \in Event
         /\ e.type = "enqueued" <=> ~Exists(fold[o.job])
         /\ e.type \in {"heartbeat", "progress"} => e.worker \in Workers /\ MayReport(b, e.worker)
         /\ e.type = "leased" => /\ e.worker \in Workers /\ e.attempt = b.attempt + 1
                                 /\ b.status = "queued"
         /\ e.type = "command" => \E c \in Cmds : Told(o, c) /\ e.cmds = {c}
         /\ e.type = "consumed" => Consumes(o)
<1> DEFINE o == op[p]
           e == Head(o.todo)
           b == Base(o.job)
<1>1. o \in Op /\ Shape(p, o) /\ Grounded(o, fold) /\ Promised(o, Base(o.job), fold[o.job])
  BY OpAt DEF BInv
<1>2. o.job \in Jobs /\ o.todo # << >> /\ e \in Event
  BY <1>1 DEF Shape, Acting, Op
<1>3. e.type = "enqueued" <=> ~Exists(fold[o.job])
  BY <1>1 DEF Grounded, Creates
<1>4. Offered(o, b) \/ (\E c \in Cmds : Told(o, c)) \/ Consumes(o)
  BY <1>1 DEF Promised
<1>5. Offered(o, b) =>
         /\ e.type \in {"heartbeat", "progress"} => e.worker \in Workers /\ MayReport(b, e.worker)
         /\ e.type = "leased" => /\ e.worker \in Workers /\ e.attempt = b.attempt + 1
                                 /\ b.status = "queued"
         /\ e.type \notin {"command", "consumed"}
  BY OfferedEvent
<1>6. \A c \in Cmds : Told(o, c) => e.type = "command" /\ e.cmds = {c}
  BY ToldEvent
<1>7. Consumes(o) => e.type = "consumed"
  BY ConsumesEvent DEF Consumes
<1> HIDE DEF e, b, o
<1>8. /\ e.type \in {"heartbeat", "progress"} => e.worker \in Workers /\ MayReport(b, e.worker)
      /\ e.type = "leased" => /\ e.worker \in Workers /\ e.attempt = b.attempt + 1
                              /\ b.status = "queued"
      /\ e.type = "command" => \E c \in Cmds : Told(o, c) /\ e.cmds = {c}
      /\ e.type = "consumed" => Consumes(o)
  BY <1>4, <1>5, <1>6, <1>7
<1> QED
  BY <1>1, <1>2, <1>3, <1>8 DEF o, e, b

(* One process, one operation. *)
LEMMA OnlyOp ==
  ASSUME OneQueue, IInv, NEW p \in Procs, NEW next, op' = [op EXCEPT ![p] = next]
  PROVE  \A q \in Procs : q = p /\ op'[q] = next
  BY DEF OneQueue, IInv, TypeOK

(* What WriteRow goes on with. *)
LEMMA AfterFields ==
  ASSUME IInv, BInv, NEW p \in Procs, op[p].pc = "write"
  PROVE  LET o == op[p]
             next == After(o) IN
         \/ /\ AbortsQueued(o) /\ next.pc = "emit" /\ next.job = o.job
            /\ next.todo = <<Plain("canceled")>> /\ next.then = o.then
            /\ next.then \in {"idle", "session"}
         \/ /\ Len(o.todo) = 1 /\ next = Idle /\ o.then \in {"idle", "grant"}
         \/ /\ Len(o.todo) = 1 /\ o.then \in {"session", "expire", "drain"}
            /\ next.pc = o.then /\ next.job = o.job /\ next.left = o.left /\ next.got = o.got
            /\ next.then = "idle"
<1> DEFINE o == op[p]
           next == After(o)
<1>1. o \in Op /\ Promised(o, Base(o.job), fold[o.job]) /\ Acting(o)
  BY OpAt DEF BInv, Acting
<1>2. CASE AbortsQueued(o)
  <2>1. PICK c \in Cmds : o.todo = <<Command("command", c), Plain("canceled")>>
    BY <1>2 DEF AbortsQueued
  <2>2. Len(o.todo) > 1 /\ Tail(o.todo) = <<Plain("canceled")>>
    BY <2>1
  <2>3. next = [o EXCEPT !.pc = "emit", !.todo = Tail(o.todo), !.snap = NoJob]
    BY <2>2 DEF After
  <2> HIDE DEF next
  <2>4. next.pc = "emit" /\ next.job = o.job /\ next.todo = Tail(o.todo) /\ next.then = o.then
    BY <1>1, <2>3 DEF Op
  <2> QED
    BY <1>2, <2>2, <2>4 DEF next, AbortsQueued
<1>3. CASE ~AbortsQueued(o)
  <2>1. Len(o.todo) = 1
    BY <1>1, <1>3 DEF Promised
  <2>2. CASE o.then \in {"idle", "grant"}
    BY <2>1, <2>2 DEF After
  <2>3. CASE o.then \notin {"idle", "grant"}
    <3>1. next = [o EXCEPT !.pc = o.then, !.todo = << >>, !.then = "idle", !.snap = NoJob]
      BY <2>1, <2>3 DEF After
    <3>2. o.then \in {"session", "expire", "drain"}
      BY <1>1, <2>3 DEF Op
    <3> HIDE DEF next
    <3>3. /\ next.pc = o.then /\ next.job = o.job /\ next.left = o.left /\ next.got = o.got
          /\ next.then = "idle"
      BY <1>1, <3>1 DEF Op
    <3> QED
      BY <2>1, <3>2, <3>3 DEF next
  <2> QED
    BY <2>2, <2>3
<1> QED
  BY <1>2, <1>3

(* The write of a row: the stream, or a new deadline. *)
LEMMA Written ==
  ASSUME IInv, BInv, NEW p \in Procs, WriteRow(p)
  PROVE  LET o == op[p]
             e == Head(o.todo)
             f == fold[o.job]
             r == row[o.job]
             s == row'[o.job] IN
         /\ o.job \in Jobs /\ o.snap = f /\ f \in Job /\ r \in Job /\ Exists(f)
         /\ row' = [row EXCEPT ![o.job] = s]
         /\ s = f \/ (e.type = "heartbeat" /\ (s = r \/ s = [r EXCEPT !.lease = f.lease]))
         /\ e.type # "heartbeat" => s = f
         /\ e.type = "heartbeat" => s = IF Exists(r) /\ f.lease # "none"
                                        THEN [r EXCEPT !.lease = f.lease] ELSE r
<1> DEFINE o == op[p]
           f == fold[o.job]
           r == row[o.job]
           new == ProjectedRow(r, o.snap, Head(o.todo).type)
<1>1. o \in Op /\ Shape(p, o) /\ Grounded(o, fold) /\ o.pc = "write" /\ Promised(o, Base(o.job), fold[o.job])
  BY OpAt DEF WriteRow, BInv
<1>2. o.job \in Jobs /\ o.snap = f /\ Exists(f)
  BY <1>1 DEF Shape, Acting, Promised, Grounded
<1>3. f \in Job /\ r \in Job
  BY <1>2, CopyTypes DEF IInv
<1>4. row' = [row EXCEPT ![o.job] = new]
  BY DEF WriteRow
<1>5. row'[o.job] = new
  BY <1>2, <1>4 DEF IInv, TypeOK
<1> QED
  BY <1>2, <1>3, <1>4, <1>5 DEF ProjectedRow

(* What is offered to be granted is a lease. *)
LEMMA OfferedGrant ==
  ASSUME NEW o, NEW b, Offered(o, b), o.then = "grant"
  PROVE  Head(o.todo).type = "leased"
<1> DEFINE n == b.attempt + 1
           e == Leased(o.worker, n)
<1> HIDE DEF n
<1>1. o.todo = <<e>>
  BY DEF Offered, n
<1>2. e.type = "leased"
  BY DEF Leased, Plain
<1> HIDE DEF e
<1> QED
  BY <1>1, <1>2

(* The steps that neither append nor write keep what the operation relies  *)
(* on.                                                                     *)
LEMMA NearLocal ==
  ASSUME OneQueue, IInv, BInv, NEW p \in Procs,
         Rests(p) \/ Hands(p) \/ Offers(p) \/ Tells(p) \/ Takes(p)
         \/ (\E c \in Cmds : Drain(p, c)) \/ DrainDone(p) \/ ReadState(p)
  PROVE  BInv'
<1>1. UNCHANGED <<fold, row>>
  BY DEF Rests, Hands, Offers, Tells, Takes, Drain, DrainDone, ReadState
<1>2. ASSUME \A q \in Procs : Promised(op'[q], Base(op'[q].job), fold[op'[q].job]) PROVE BInv'
  <2>1. \A q \in Procs : Base(op[q].job)' = Base(op'[q].job)
    BY <1>1 DEF Base
  <2> QED
    BY <1>1, <1>2, <2>1 DEF BInv, Manned, Active
<1>3. ASSUME NEW next, op' = [op EXCEPT ![p] = next],
             Promised(next, Base(next.job), fold[next.job])
      PROVE  BInv'
  <2>1. \A q \in Procs : op'[q] = next
    BY <1>3, OnlyOp
  <2> QED
    BY <1>2, <1>3, <2>1
<1>5. CASE Hands(p)
  <2>1. op' = op
    BY <1>5 DEF Hands
  <2> QED
    BY <1>2, <2>1 DEF BInv
<1>6. ASSUME NEW next, next.pc \notin {"emit", "read", "write"}, op' = [op EXCEPT ![p] = next]
      PROVE  BInv'
  BY <1>3, <1>6 DEF Promised, Acting
<1>7. CASE Rests(p) \/ Takes(p)
  BY <1>6, <1>7 DEF Rests, Resting, Takes
<1>8. CASE DrainDone(p)
  BY <1>6, <1>8 DEF DrainDone, Idle
<1>9. ASSUME NEW next \in Op, next.pc = "emit", op' = [op EXCEPT ![p] = next],
             \/ Offered(next, Base(next.job))
             \/ \E c \in Cmds : Told(next, c)
             \/ Consumes(next)
      PROVE  BInv'
  <2>1. Len(next.todo) = 1 \/ AbortsQueued(next)
    BY <1>9 DEF Offered, Told, Consumes, AbortsQueued
  <2>2. next.then = "drain" => Consumes(next)
    BY <1>9 DEF Offered, Told
  <2>3. next.then = "grant" => Head(next.todo).type = "leased"
    BY <1>9, OfferedGrant DEF Told, Consumes
  <2>4. Promised(next, Base(next.job), fold[next.job])
    BY <1>9, <2>1, <2>2, <2>3 DEF Promised
  <2> QED
    BY <1>3, <1>9, <2>4
<1>10. CASE Offers(p)
  BY <1>9, <1>10 DEF Offers
<1>11. CASE Tells(p)
  BY <1>9, <1>11 DEF Tells
<1>12. ASSUME NEW c \in Cmds, Drain(p, c) PROVE BInv'
  <2> DEFINE o == op[p]
             left == o.left \ {c}
             events == <<Command("consumed", c)>>
             next == [o EXCEPT !.pc = "emit", !.left = left, !.then = "drain", !.todo = events]
  <2>1. o \in Op /\ left \in SUBSET (Jobs \cup Cmds)
    BY LeftType DEF IInv
  <2>2. events \in Seq(Event)
    BY EventTypes
  <2>3. op' = [op EXCEPT ![p] = next]
    BY <1>12 DEF Drain
  <2> HIDE DEF left, events
  <2>4. next \in Op /\ next.pc = "emit" /\ next.then = "drain" /\ next.todo = events
    BY <2>1, <2>2 DEF Op, PCs
  <2> HIDE DEF next
  <2>5. Consumes(next)
    BY <2>4 DEF Consumes, events
  <2> QED
    BY <1>9, <2>3, <2>4, <2>5
<1>13. CASE ReadState(p)
  <2> DEFINE o == op[p]
             next == [o EXCEPT !.pc = "write", !.snap = fold[o.job]]
  <2>1. o \in Op /\ o.pc = "read" /\ op' = [op EXCEPT ![p] = next] /\ Promised(o, Base(o.job), fold[o.job])
    BY <1>13, OpAt DEF ReadState, BInv
  <2>2. /\ next.pc = "write" /\ next.job = o.job /\ next.todo = o.todo /\ next.then = o.then
        /\ next.snap = fold[o.job]
    BY <2>1 DEF Op
  <2> HIDE DEF next
  <2>3. Promised(next, Base(next.job), fold[next.job])
    BY <2>1, <2>2 DEF Promised, Acting, AbortsQueued, Consumes
  <2> QED
    BY <1>3, <2>1, <2>3
<1> QED
  BY <1>5, <1>7, <1>8, <1>10, <1>11, <1>12, <1>13

(* An append keeps it: who gets or keeps the lease is a worker. *)
LEMMA NearEmit ==
  ASSUME OneQueue, IInv, BInv, NEW p \in Procs, Emit(p)
  PROVE  BInv'
<1> DEFINE o == op[p]
           e == Head(o.todo)
           j == o.job
           next == [o EXCEPT !.pc = "read"]
<1>0. o.pc = "emit" /\ op' = [op EXCEPT ![p] = next] /\ row' = row
  BY DEF Emit, IInv, TypeOK
<1>1. /\ o \in Op /\ j \in Jobs /\ e \in Event
      /\ e.type \in {"heartbeat", "progress"} => e.worker \in Workers
      /\ e.type = "leased" => e.worker \in Workers
  BY <1>0, NextEvent
<1>2. fold[j] \in Job
  BY <1>1 DEF IInv, TypeOK
<1>3. \A k \in Jobs : fold'[k] = IF k = j THEN Reduce(fold[j], e) ELSE fold[k]
  BY <1>1 DEF Emit, IInv, TypeOK
<1>4. Manned(Reduce(fold[j], e))
  <2> HIDE DEF e, j
  <2>1. Manned(fold[j])
    BY <1>1 DEF BInv
  <2> QED
    BY <1>1, <1>2, <2>1, ReduceLease DEF Manned
<1>5. \A k \in Jobs : Manned(fold[k])'
  <2> HIDE DEF e
  <2> QED
    BY <1>3, <1>4 DEF BInv, Manned, Active
<1>6. \A k \in Jobs : Manned(row[k])'
  BY <1>0 DEF BInv, Manned, Active
<1>7. /\ next.pc = "read" /\ next.todo = o.todo /\ next.then = o.then
  BY <1>1 DEF Op
<1>8. Promised(o, Base(j), fold[j])
  BY DEF BInv
<1> HIDE DEF next
<1>9. \A b, f : Promised(next, b, f)
  BY <1>0, <1>7, <1>8 DEF Promised, Acting, AbortsQueued, Consumes
<1>10. \A q \in Procs : Promised(op[q], Base(op[q].job), fold[op[q].job])'
  <2>1. \A q \in Procs : op'[q] = next
    BY <1>0, OnlyOp
  <2> QED
    BY <1>9, <2>1
<1> QED
  BY <1>5, <1>6, <1>10 DEF BInv

(* So does the write of a row. *)
LEMMA NearWrite ==
  ASSUME OneQueue, IInv, BInv, NEW p \in Procs, WriteRow(p)
  PROVE  BInv'
<1> DEFINE o == op[p]
           j == o.job
           next == After(o)
           s == row'[j]
<1>0. o.pc = "write" /\ op' = [op EXCEPT ![p] = next] /\ fold' = fold /\ o \in Op
  BY OpAt DEF WriteRow, After
<1>1. /\ j \in Jobs /\ row[j] \in Job /\ row' = [row EXCEPT ![j] = s]
      /\ s \in {fold[j], row[j], [row[j] EXCEPT !.lease = fold[j].lease]}
  BY Written
<1>2. Manned(s)
  <2>1. Manned(fold[j]) /\ Manned(row[j])
    BY <1>1 DEF BInv
  <2>2. Manned([row[j] EXCEPT !.lease = fold[j].lease])
    BY <1>1, <2>1 DEF Manned, Active, Job
  <2> HIDE DEF s
  <2> QED
    BY <1>1, <2>1, <2>2
<1>3. \A k \in Jobs : Manned(row[k])'
  <2> HIDE DEF s
  <2>1. \A k \in Jobs : row'[k] = IF k = j THEN s ELSE row[k]
    BY <1>1 DEF IInv, TypeOK
  <2> QED
    BY <1>2, <2>1 DEF BInv, Manned, Active
<1>4. \A k \in Jobs : Manned(fold[k])'
  BY <1>0 DEF BInv, Manned, Active
<1>5. \A b : Promised(next, b, fold[next.job])
  <2>1. \/ next.pc = "emit" /\ next.todo = <<Plain("canceled")>> /\ next.then \in {"idle", "session"}
        \/ next.pc \notin {"emit", "read", "write"}
    <3>1. Idle.pc = "idle"
      BY DEF Idle
    <3>2. \/ next.pc = "emit" /\ next.todo = <<Plain("canceled")>> /\ next.then \in {"idle", "session"}
          \/ next = Idle
          \/ next.pc \in {"session", "expire", "drain"}
      BY <1>0, AfterFields
    <3> HIDE DEF next
    <3> QED
      BY <3>1, <3>2
  <2> HIDE DEF next, j
  <2>2. CASE next.pc = "emit" /\ next.todo = <<Plain("canceled")>> /\ next.then \in {"idle", "session"}
    <3>1. \A b : Offered(next, b)
      BY <2>2 DEF Offered
    <3>2. Len(next.todo) = 1
      BY <2>2
    <3>3. next.then \notin {"drain", "grant"}
      BY <2>2
    <3> QED
      BY <2>2, <3>1, <3>2, <3>3 DEF Promised
  <2>3. CASE next.pc \notin {"emit", "read", "write"}
    BY <2>3 DEF Promised, Acting
  <2> QED
    BY <2>1, <2>2, <2>3
<1>6. \A q \in Procs : Promised(op[q], Base(op[q].job), fold[op[q].job])'
  <2> HIDE DEF next
  <2>1. \A q \in Procs : op'[q] = next
    BY <1>0, OnlyOp
  <2> QED
    BY <1>0, <1>5, <2>1
<1> QED
  BY <1>3, <1>4, <1>6 DEF BInv

(* Time changes nothing but deadlines. *)
LEMMA AgeFields ==
  ASSUME NEW r \in Job
  PROVE  /\ Age(r).status = r.status /\ Age(r).attempt = r.attempt /\ Age(r).worker = r.worker
         /\ Age(r).abort = r.abort /\ Age(r).open = r.open
         /\ r.lease = "past" => Age(r).lease = "past"
         /\ Age(r).lease = "none" <=> r.lease = "none"
         /\ Age(r) = [r EXCEPT !.lease = Age(r).lease]
         /\ Age(r).lease = IF r.lease = "live" THEN "past" ELSE r.lease
  BY DEF Age, Job

(* What the guards allowed they allow when deadlines have passed. *)
LEMMA OfferedAges ==
  ASSUME NEW o, NEW b \in Job, Offered(o, b)
  PROVE  Offered(o, Age(b))
<1> DEFINE a == Age(b)
<1>1. /\ a.status = b.status /\ a.attempt = b.attempt /\ a.worker = b.worker
      /\ a.abort = b.abort /\ (b.lease = "past" => a.lease = "past")
  BY AgeFields
<1> HIDE DEF a
<1>2. /\ \A w : MayReport(a, w) <=> MayReport(b, w)
      /\ Retryable(a) = Retryable(b)
      /\ LeasePast(b) => LeasePast(a)
  BY <1>1 DEF MayReport, Terminal, Retryable, LeasePast, Active
<1>3. Offered(o, a)
  BY <1>1, <1>2 DEF Offered
<1> QED
  BY <1>3 DEF a

(* The copy of a job ages with it. *)
LEMMA BaseAges ==
  ASSUME IInv, TimePasses, NEW j \in Jobs
  PROVE  /\ Base(j) \in Job /\ Base(j)' = Age(Base(j))
         /\ fold[j] \in Job /\ row[j] \in Job
         /\ fold'[j] = Age(fold[j]) /\ row'[j] = Age(row[j])
<1>1. /\ fold[j] \in Job /\ row[j] \in Job
      /\ fold'[j] = Age(fold[j]) /\ row'[j] = Age(row[j])
  BY DEF IInv, TypeOK, TimePasses
<1>2. Exists(row'[j]) <=> Exists(row[j])
  BY <1>1, AgeFields DEF Exists
<1> QED
  BY <1>1, <1>2 DEF Base

(* The operation ages with its snapshot. *)
LEMMA OpAges ==
  ASSUME IInv, TimePasses, NEW p \in Procs
  PROVE  LET o == op[p]
             next == op'[p] IN
         /\ o \in Op
         /\ next.pc = o.pc /\ next.job = o.job /\ next.todo = o.todo /\ next.then = o.then
         /\ next.left = o.left /\ next.new = o.new /\ next.worker = o.worker
         /\ next.got = o.got /\ next.snap = Age(o.snap)
<1> DEFINE o == op[p]
<1>1. o \in Op
  BY OpAt
<1>2. op'[p] = [o EXCEPT !.snap = Age(o.snap)]
  BY DEF TimePasses
<1> QED
  BY <1>1, <1>2 DEF Op

(* The passing of deadlines keeps what the operation relies on. *)
LEMMA NearTimePasses == ASSUME IInv, BInv, TimePasses PROVE BInv'
<1>1. ASSUME NEW j \in Jobs PROVE Manned(fold[j])' /\ Manned(row[j])'
  <2>1. Manned(fold[j]) /\ Manned(row[j])
    BY DEF BInv
  <2> QED
    BY <2>1, BaseAges, AgeFields DEF Manned, Active
<1>2. ASSUME NEW p \in Procs PROVE Promised(op'[p], Base(op[p].job)', fold'[op'[p].job])
  <2> DEFINE o == op[p]
             next == op'[p]
             b == Base(op[p].job)'
  <2>1. o \in Op /\ Shape(p, o) /\ Promised(o, Base(o.job), fold[o.job])
    BY OpAt DEF BInv
  <2>2. /\ next.pc = o.pc /\ next.job = o.job /\ next.todo = o.todo /\ next.then = o.then
        /\ next.worker = o.worker /\ next.snap = Age(o.snap)
    BY OpAges
  <2>3. Acting(o) => o.job \in Jobs /\ b = Age(Base(o.job)) /\ Base(o.job) \in Job
    <3> SUFFICES ASSUME Acting(o)
                 PROVE  o.job \in Jobs /\ b = Age(Base(o.job)) /\ Base(o.job) \in Job
      OBVIOUS
    <3>1. o.job \in Jobs
      BY <2>1 DEF Shape
    <3>2. b = Base(o.job)' /\ \A k \in Jobs : Base(k)' = Age(Base(k)) /\ Base(k) \in Job
      BY BaseAges
    <3>3. b = IF Exists(row'[next.job]) THEN row'[next.job] ELSE fold'[next.job]
      BY DEF Base
    <3>4. Age(Base(o.job)) = IF Exists(row'[o.job]) THEN row'[o.job] ELSE fold'[o.job]
      BY <3>1, <3>2 DEF Base
    <3> HIDE DEF b, next
    <3> QED
      BY <2>2, <3>1, <3>2, <3>3, <3>4
  <2>4. o.pc = "write" => next.snap = fold'[next.job]
    <3> SUFFICES ASSUME o.pc = "write" PROVE Age(o.snap) = fold'[o.job]
      BY <2>2
    <3>1. o.job \in Jobs /\ o.snap = fold[o.job]
      BY <2>1, <2>3 DEF Acting, Promised
    <3> QED
      BY <3>1, BaseAges
  <2> HIDE DEF next, b
  <2>5. ASSUME o.pc = "emit"
        PROVE  Offered(next, b) \/ (\E c \in Cmds : Told(next, c)) \/ Consumes(next)
    <3>1. CASE Offered(o, Base(o.job))
      <4>1. Offered(o, b)
        BY <2>3, <2>5, <3>1, OfferedAges DEF Acting
      <4> QED
        BY <2>2, <4>1 DEF Offered
    <3>2. CASE (\E c \in Cmds : Told(o, c)) \/ Consumes(o)
      BY <2>2, <3>2 DEF Told, Consumes
    <3> QED
      BY <2>1, <2>5, <3>1, <3>2 DEF Promised
  <2>6. Promised(next, b, fold'[next.job])
    BY <2>1, <2>2, <2>4, <2>5 DEF Promised, Acting, AbortsQueued, Consumes
  <2> QED
    BY <2>6 DEF next, b
<1> QED
  BY <1>1, <1>2 DEF BInv

(* Without followers nothing is synced. *)
LEMMA NoSyncsNext ==
  ASSUME OneQueue, IInv, NoSyncs, [Next]_vars
  PROVE  NoSyncs'
<1>1. ASSUME NEW p \in Procs, NEW w \in Workers, NEW j \in Jobs, WorkerCall(p, w, j)
      PROVE  sync' = sync
  BY <1>1 DEF WorkerCall, Heartbeat, Progress, Complete, Fail, Report, LeaseNext, LeaseJob
<1>2. ASSUME NEW p \in Procs, NEW j \in Jobs, ClientCall(p, j) PROVE sync' = sync
  BY <1>2 DEF ClientCall, GetJob, Cancel, Enqueue, Refresh, QueueCommand, Consume
<1>3. ASSUME NEW p \in Procs, OpStep(p) PROVE sync' = sync
  BY <1>3 DEF OpStep, ExpireScan, Pick, CancelPrior, AbortPrior, SteerPrior, Drain,
      ExpireDone, PickNone, DrainDone, Admit, EnqueueNew, Emit, ReadState, WriteRow
<1>4. ASSUME NEW p \in Procs, Throw(p) \/ Crash(p) PROVE NoSyncs'
  BY <1>4 DEF Throw, Crash, NoSyncs, NoSync, IInv, TypeOK
<1>5. CASE \/ \E p \in Procs, j \in Jobs : SyncRead(p, j)
           \/ \E p \in Procs : SyncWrite(p)
  BY <1>5 DEF SyncRead, SyncWrite, OneQueue, NoSyncs
<1>6. CASE (\E r \in runs : EndRun(r)) \/ UNCHANGED vars
  BY <1>6 DEF EndRun, vars, NoSyncs
<1>7. CASE TimePasses
  <2>1. \A p \in Procs : sync'[p].job = sync[p].job
    BY <1>7 DEF TimePasses, IInv, TypeOK
  <2> QED
    BY <2>1 DEF NoSyncs
<1>8. sync' = sync => NoSyncs'
  BY DEF NoSyncs
<1> QED
  BY <1>1, <1>2, <1>3, <1>4, <1>5, <1>6, <1>7, <1>8 DEF Next

QInv == IInv /\ NoSyncs /\ BInv

(* One queue is one enqueuer. *)
LEMMA OneEnqueues == ASSUME OneQueue PROVE SingleEnqueuer
  BY QueueAssumption DEF OneQueue, SingleEnqueuer

(* Every step of one queue keeps what its operation relies on. *)
LEMMA NearNext == ASSUME OneQueue, QInv, [Next]_vars PROVE QInv'
<1>1. IInv' /\ NoSyncs'
  BY OneEnqueues, NextInv, NoSyncsNext DEF QInv
<1>2. Passes \/ TimePasses \/ \E p \in Procs : Effects(p)
  BY OneStep DEF QInv, NoSyncs
<1>3. ASSUME Passes PROVE BInv'
  <2>1. UNCHANGED <<fold, row, op>>
    BY <1>3 DEF Passes
  <2>2. \A q \in Procs : Base(op[q].job)' = Base(op[q].job)
    BY <2>1 DEF Base
  <2> QED
    BY <2>1, <2>2 DEF QInv, BInv, Manned, Active
<1>4. ASSUME TimePasses PROVE BInv'
  BY <1>4, NearTimePasses DEF QInv
<1>5. ASSUME NEW p \in Procs, Effects(p) PROVE BInv'
  BY <1>5, NearLocal, NearEmit, NearWrite DEF Effects, QInv
<1>6. BInv'
  BY <1>2, <1>3, <1>4, <1>5
<1> QED
  BY <1>1, <1>6 DEF QInv

(* It holds from the start. *)
LEMMA NearInit == ASSUME Init PROVE QInv
<1>1. IInv
  BY InitInv
<1>2. NoSyncs
  BY DEF Init, NoSyncs, NoSync
<1>3. BInv
  BY DEF Init, BInv, Promised, Acting, Idle, Manned, Active, NoJob
<1> QED
  BY <1>1, <1>2, <1>3 DEF QInv

(* What the operation of one queue relies on holds in every state. *)
THEOREM NearInductive == ASSUME OneQueue PROVE Spec => []QInv
  BY NearInit, NearNext, PTL DEF Spec

-----------------------------------------------------------------------------
(* The append of one queue: only the copy of a job without a row changes.  *)
LEMMA Appended ==
  ASSUME IInv, BInv, NEW p \in Procs, Emit(p)
  PROVE  LET j == op[p].job
             e == Head(op[p].todo)
             g == Reduce(fold[j], e) IN
         /\ j \in Jobs /\ e \in Event /\ fold[j] \in Job /\ g \in Job /\ Base(j) \in Job
         /\ \A k \in Jobs : /\ fold'[k] = IF k = j THEN g ELSE fold[k]
                            /\ Base(k)' = IF k # j \/ Exists(row[j]) THEN Base(k) ELSE g
         /\ Base(j) = IF Exists(row[j]) THEN row[j] ELSE fold[j]
         /\ UNCHANGED <<row, idx, runs, used, delivered, faults>>
         /\ \A q \in Procs : q # p => op'[q] = op[q]
         /\ op'[p] = [op[p] EXCEPT !.pc = "read"]
<1> DEFINE j == op[p].job
           e == Head(op[p].todo)
           g == Reduce(fold[j], e)
<1>1. j \in Jobs /\ e \in Event
  BY NextEvent DEF Emit
<1>2. fold[j] \in Job /\ Base(j) \in Job
  BY <1>1 DEF IInv, TypeOK, Base
<1>3. g \in Job
  BY <1>1, <1>2, ReduceType
<1>4. \A k \in Jobs : fold'[k] = IF k = j THEN g ELSE fold[k]
  BY <1>1 DEF Emit, IInv, TypeOK
<1>5. UNCHANGED <<row, idx, runs, used, delivered, faults>>
  BY DEF Emit
<1>6. /\ \A q \in Procs : q # p => op'[q] = op[q]
      /\ op'[p] = [op[p] EXCEPT !.pc = "read"]
  BY DEF Emit, IInv, TypeOK
<1> HIDE DEF g, e
<1>7. \A k \in Jobs : Base(k)' = IF k # j \/ Exists(row[j]) THEN Base(k) ELSE g
  BY <1>4, <1>5 DEF Base
<1>8. Base(j) = IF Exists(row[j]) THEN row[j] ELSE fold[j]
  BY DEF Base
<1> QED
  BY <1>1, <1>2, <1>3, <1>4, <1>5, <1>6, <1>7, <1>8 DEF g, e

(* The write of a row: only the copy of its job changes, to the stream or  *)
(* in its deadline.                                                        *)
LEMMA Rewritten ==
  ASSUME IInv, BInv, NEW p \in Procs, WriteRow(p)
  PROVE  LET j == op[p].job
             f == fold[j] IN
         /\ j \in Jobs /\ f \in Job /\ Exists(f)
         /\ fold' = fold
         /\ \A k \in Jobs \ {j} : row'[k] = row[k] /\ Base(k)' = Base(k)
         /\ \A k \in Jobs : k = j =>
              \/ row'[k] = f /\ Base(k)' = f
              \/ /\ Head(op[p].todo).type = "heartbeat"
                 /\ row'[k] = row[k] /\ Base(k)' = Base(k)
              \/ /\ Head(op[p].todo).type = "heartbeat" /\ f.lease # "none" /\ Exists(row[k])
                 /\ row'[k] = [row[k] EXCEPT !.lease = f.lease] /\ Base(k) = row[k]
                 /\ Base(k)' = [row[k] EXCEPT !.lease = f.lease]
         /\ op' = [op EXCEPT ![p] = After(op[p])]
<1> DEFINE j == op[p].job
           f == fold[j]
           r == row[j]
           s == row'[j]
<1>1. /\ j \in Jobs /\ f \in Job /\ r \in Job /\ Exists(f)
      /\ row' = [row EXCEPT ![j] = s]
      /\ Head(op[p].todo).type # "heartbeat" => s = f
      /\ Head(op[p].todo).type = "heartbeat" =>
           s = IF Exists(r) /\ f.lease # "none" THEN [r EXCEPT !.lease = f.lease] ELSE r
  BY Written
<1>2. fold' = fold /\ op' = [op EXCEPT ![p] = After(op[p])]
  BY DEF WriteRow, After
<1>3. \A k \in Jobs : row'[k] = IF k = j THEN s ELSE row[k]
  <2> HIDE DEF s, j
  <2> QED
    BY <1>1 DEF IInv, TypeOK
<1>4. Exists([r EXCEPT !.lease = f.lease]) <=> Exists(r)
  BY <1>1 DEF Exists, Job
<1> HIDE DEF s
<1>5. \A k \in Jobs \ {j} : row'[k] = row[k] /\ Base(k)' = Base(k)
  BY <1>2, <1>3 DEF Base
<1>6. ASSUME NEW k \in Jobs, k = j
      PROVE  \/ row'[k] = f /\ Base(k)' = f
             \/ /\ Head(op[p].todo).type = "heartbeat"
                /\ row'[k] = row[k] /\ Base(k)' = Base(k)
             \/ /\ Head(op[p].todo).type = "heartbeat" /\ f.lease # "none" /\ Exists(row[k])
                /\ row'[k] = [row[k] EXCEPT !.lease = f.lease] /\ Base(k) = row[k]
                /\ Base(k)' = [row[k] EXCEPT !.lease = f.lease]
  <2>1. CASE s = f
    <3>1. row'[k] = f /\ Exists(row'[k])
      BY <1>1, <1>3, <1>6, <2>1
    <3> QED
      BY <3>1 DEF Base
  <2>2. CASE s = r /\ Head(op[p].todo).type = "heartbeat"
    <3>1. row'[k] = row[k] /\ fold'[k] = fold[k]
      BY <1>2, <1>3, <1>6, <2>2
    <3> QED
      BY <2>2, <3>1 DEF Base
  <2>3. CASE /\ s = [r EXCEPT !.lease = f.lease] /\ Exists(r) /\ f.lease # "none"
             /\ Head(op[p].todo).type = "heartbeat"
    <3>1. row'[k] = [row[k] EXCEPT !.lease = f.lease] /\ Exists(row'[k]) /\ Exists(row[k])
      BY <1>3, <1>4, <1>6, <2>3
    <3> QED
      BY <2>3, <3>1 DEF Base
  <2> QED
    BY <1>1, <2>1, <2>2, <2>3
<1> QED
  BY <1>1, <1>2, <1>5, <1>6

-----------------------------------------------------------------------------
(* Leases.  The copy b of a job is of no later attempt than its stream f,  *)
(* and if of the same one, it knows who holds the lease;                   *)
LeaseKnown(b, f) ==
  /\ b.attempt <= f.attempt
  /\ b.attempt = f.attempt /\ Active(f) => Active(b) /\ b.worker = f.worker

(* no run is ahead of the copy, and the run of the attempt the copy is in   *)
(* is that of the worker it names.                                         *)
RunFits(r, b) ==
  /\ r.attempt <= b.attempt
  /\ r.attempt = b.attempt /\ Active(b) => b.worker = r.worker

LeaseInv ==
  /\ \A j \in Jobs : LeaseKnown(Base(j), fold[j])
  /\ \A r \in runs : RunFits(r, Base(r.job))
  /\ \A r, s \in runs : r.job = s.job /\ r.attempt = s.attempt => r = s

(* An event that was offered on copy b of a job. *)
Warranted(e, b, f) ==
  /\ e.type = "enqueued" <=> ~Exists(f)
  /\ e.type \in {"heartbeat", "progress"} => e.worker \in Workers /\ MayReport(b, e.worker)
  /\ e.type = "leased" => e.attempt = b.attempt + 1

(* An append leaves the copy behind or at the lease the stream has. *)
LEMMA LeaseKnownReduce ==
  ASSUME NEW b \in Job, NEW f \in Job, NEW e \in Event, Warranted(e, b, f),
         Exists(b) => Exists(f), Exists(b), Manned(b), LeaseKnown(b, f)
  PROVE  LeaseKnown(b, Reduce(f, e))
<1> DEFINE g == Reduce(f, e)
<1>1. b.attempt \in Nat /\ f.attempt \in Nat /\ e.type # "enqueued"
  BY DEF Job, Warranted
<1>2. /\ Active(g) =>
           \/ e.type = "leased" /\ g.attempt = e.attempt
           \/ e.type \in {"heartbeat", "progress"} /\ Active(f) /\ g.worker = e.worker
              /\ g.attempt = f.attempt
           \/ Active(f) /\ g.worker = f.worker /\ g.attempt = f.attempt
      /\ g.attempt = f.attempt \/ (e.type = "leased" /\ g.attempt = e.attempt)
  BY <1>1, ReduceLease
<1>3. ASSUME e.type \in {"heartbeat", "progress"}, Active(b) PROVE b.worker = e.worker
  <2>1. b.worker \in {None, e.worker} /\ b.worker \in Workers
    BY <1>3 DEF Warranted, MayReport, Manned
  <2> QED
    BY <2>1, RecordAssumption
<1> HIDE DEF g
<1>4. b.attempt <= g.attempt
  BY <1>1, <1>2 DEF Warranted, LeaseKnown
<1>5. ASSUME b.attempt = g.attempt, Active(g) PROVE Active(b) /\ b.worker = g.worker
  <2>1. ~(e.type = "leased" /\ g.attempt = e.attempt)
    BY <1>1, <1>5 DEF Warranted
  <2> QED
    BY <1>2, <1>3, <1>5, <2>1 DEF LeaseKnown
<1> QED
  BY <1>4, <1>5 DEF LeaseKnown, g

(* A run fits the stream after an append it fitted before. *)
LEMMA RunFitsReduce ==
  ASSUME NEW f \in Job, NEW e \in Event, NEW r \in Run, Warranted(e, f, f), Manned(f),
         ~Exists(f) => f = NoJob, RunFits(r, f)
  PROVE  RunFits(r, Reduce(f, e))
<1> DEFINE g == Reduce(f, e)
<1>1. r.attempt \in Nat /\ f.attempt \in Nat
  BY DEF Job, Run
<1>2. /\ Active(g) =>
           \/ e.type = "leased" /\ g.attempt = e.attempt
           \/ e.type \in {"heartbeat", "progress"} /\ Active(f) /\ g.worker = e.worker
              /\ g.attempt = f.attempt
           \/ Active(f) /\ g.worker = f.worker /\ g.attempt = f.attempt
      /\ \/ g.attempt = f.attempt
         \/ e.type = "leased" /\ g.attempt = e.attempt
         \/ e.type = "enqueued" /\ g.attempt = 0
  BY ReduceLease
<1>3. ASSUME e.type \in {"heartbeat", "progress"}, Active(f) PROVE f.worker = e.worker
  <2>1. f.worker \in {None, e.worker} /\ f.worker \in Workers
    BY <1>3 DEF Warranted, MayReport, Manned
  <2> QED
    BY <2>1, RecordAssumption
<1>4. e.type = "enqueued" => f.attempt = 0
  BY DEF Warranted, NoJob
<1> HIDE DEF g
<1>5. r.attempt <= g.attempt
  BY <1>1, <1>2, <1>4 DEF Warranted, RunFits
<1>6. ASSUME r.attempt = g.attempt, Active(g) PROVE g.worker = r.worker
  <2>1. ~(e.type = "leased" /\ g.attempt = e.attempt)
    BY <1>1, <1>6 DEF Warranted, RunFits
  <2> QED
    BY <1>2, <1>3, <1>6, <2>1 DEF RunFits
<1> QED
  BY <1>5, <1>6 DEF RunFits, g

(* The copy a step of one queue starts from. *)
LEMMA BaseReal ==
  ASSUME IInv, BInv, NEW j \in Jobs
  PROVE  /\ Base(j) \in Job /\ fold[j] \in Job /\ Manned(Base(j)) /\ Manned(fold[j])
         /\ Real(Base(j), fold[j])
         /\ ~Exists(fold[j]) => fold[j] = NoJob /\ Base(j) = NoJob
<1>1. Base(j) \in {row[j], fold[j]} /\ Real(row[j], fold[j])
  BY DEF Base, IInv, CopiesInv
<1>2. ~Exists(fold[j]) => fold[j] = NoJob
  BY DEF IInv, FoldInv
<1>3. Real(fold[j], fold[j])
  BY <1>2 DEF Real, NoJob
<1>4. ~Exists(fold[j]) => Base(j) = fold[j]
  BY <1>1 DEF Base, Real
<1> QED
  BY <1>1, <1>2, <1>3, <1>4, CopyTypes DEF IInv, TypeOK, BInv

(* The steps that change neither streams nor rows and lease nothing. *)
LEMMA LeaseQuiet ==
  ASSUME LeaseInv, UNCHANGED <<fold, row>>, runs' \subseteq runs
  PROVE  LeaseInv'
<1>1. \A j : Base(j)' = Base(j)
  BY DEF Base
<1> QED
  BY <1>1 DEF LeaseInv, LeaseKnown, RunFits, Active

(* leaseJob hands out again a lease the worker has. *)
LEMMA LeaseHands ==
  ASSUME IInv, BInv, LeaseInv, NEW p \in Procs, Hands(p)
  PROVE  LeaseInv'
<1>1. PICK w \in Workers, j \in Jobs :
        /\ Active(Base(j)) /\ Base(j).worker = w
        /\ runs' = runs \cup {[worker |-> w, job |-> j, attempt |-> Base(j).attempt]}
  BY DEF Hands
<1> DEFINE s == [worker |-> w, job |-> j, attempt |-> Base(j).attempt]
<1>2. runs \subseteq Run /\ s \in Run
  BY BaseReal DEF IInv, TypeOK, Run, Job
<1>3. UNCHANGED <<fold, row>>
  BY DEF Hands
<1>4. \A k : Base(k)' = Base(k)
  BY <1>3 DEF Base
<1>5. RunFits(s, Base(s.job))
  BY <1>1, <1>2 DEF RunFits, Run, Job
<1>6. ASSUME NEW r \in runs, r.job = j, r.attempt = s.attempt PROVE r = s
  <2>1. r.worker = w
    BY <1>1, <1>6 DEF LeaseInv, RunFits
  <2> QED
    BY <1>2, <1>6, <2>1 DEF Run
<1>7. s.job = j
  OBVIOUS
<1>8. runs' = runs \cup {s}
  BY <1>1
<1> HIDE DEF s
<1>9. \A r, t \in runs' : r.job = t.job /\ r.attempt = t.attempt => r = t
  BY <1>6, <1>7, <1>8 DEF LeaseInv
<1>10. \A r \in runs' : RunFits(r, Base(r.job)')
  BY <1>4, <1>5, <1>8 DEF LeaseInv
<1> QED
  BY <1>3, <1>4, <1>9, <1>10 DEF LeaseInv, LeaseKnown, Active

(* The event an operation is about. *)
LEMMA HeadType ==
  ASSUME IInv, NEW p \in Procs, Acting(op[p])
  PROVE  Head(op[p].todo) \in Event /\ op[p].job \in Jobs
<1>1. op[p] \in Op /\ op[p].todo # << >> /\ op[p].job \in Jobs
  BY OpAt DEF Shape
<1>2. op[p].todo \in Seq(Event)
  BY <1>1 DEF Op
<1> QED
  BY <1>1, <1>2

(* An append of an event that was offered on the copy keeps the leases. *)
LEMMA LeaseEmit ==
  ASSUME IInv, BInv, LeaseInv, NEW p \in Procs, Emit(p)
  PROVE  LeaseInv'
<1> DEFINE j == op[p].job
           e == Head(op[p].todo)
           g == Reduce(fold[j], e)
<1>1. /\ j \in Jobs /\ e \in Event /\ fold[j] \in Job
      /\ \A k \in Jobs : /\ fold'[k] = IF k = j THEN g ELSE fold[k]
                         /\ Base(k)' = IF k # j \/ Exists(row[j]) THEN Base(k) ELSE g
      /\ Base(j) = IF Exists(row[j]) THEN row[j] ELSE fold[j]
      /\ runs' = runs
  BY Appended
<1>2. Warranted(e, Base(j), fold[j])
  BY NextEvent DEF Emit, Warranted
<1>3. /\ Base(j) \in Job /\ fold[j] \in Job /\ Manned(Base(j)) /\ Manned(fold[j])
      /\ Real(Base(j), fold[j])
      /\ ~Exists(fold[j]) => fold[j] = NoJob
  BY <1>1, BaseReal
<1> HIDE DEF g, e, j
<1>4. ASSUME Exists(row[j]) PROVE LeaseInv'
  <2>1. Exists(Base(j)) /\ LeaseKnown(Base(j), fold[j])
    BY <1>1, <1>4 DEF LeaseInv
  <2>2. LeaseKnown(Base(j), g)
    BY <1>1, <1>2, <1>3, <2>1, LeaseKnownReduce DEF Real, g
  <2>3. \A k \in Jobs : Base(k)' = Base(k)
    BY <1>1, <1>4
  <2>4. \A k \in Jobs : LeaseKnown(Base(k)', fold'[k])
    BY <1>1, <2>2, <2>3 DEF LeaseInv
  <2>5. \A r \in runs' : r.job \in Jobs
    BY <1>1 DEF IInv, TypeOK, Run
  <2>6. \A r \in runs' : RunFits(r, Base(r.job)')
    BY <1>1, <2>3, <2>5 DEF LeaseInv
  <2> QED
    BY <1>1, <2>4, <2>6 DEF LeaseInv, LeaseKnown, RunFits, Active
<1>5. ASSUME ~Exists(row[j]) PROVE LeaseInv'
  <2>1. Base(j) = fold[j]
    BY <1>1, <1>5
  <2>2. \A k \in Jobs : Base(k)' = IF k = j THEN g ELSE Base(k)
    BY <1>1, <1>5
  <2>3. \A k \in Jobs : LeaseKnown(Base(k)', fold'[k])
    <3>1. LeaseKnown(g, g)
      <4>1. g \in Job
        BY <1>1, ReduceType DEF g
      <4> QED
        BY <4>1 DEF LeaseKnown, Job
    <3> QED
      BY <1>1, <2>2, <3>1 DEF LeaseInv
  <2>4. ASSUME NEW r \in runs' PROVE RunFits(r, Base(r.job)')
    <3>1. r \in Run /\ r.job \in Jobs /\ r \in runs
      BY <1>1 DEF IInv, TypeOK, Run
    <3>2. RunFits(r, Base(r.job))
      BY <3>1 DEF LeaseInv
    <3>3. r.job = j => RunFits(r, g)
      BY <1>1, <1>2, <1>3, <2>1, <3>1, <3>2, RunFitsReduce DEF g
    <3> QED
      BY <2>2, <3>1, <3>2, <3>3
  <2> QED
    BY <1>1, <2>3, <2>4 DEF LeaseInv, LeaseKnown, RunFits, Active
<1> QED
  BY <1>4, <1>5

(* The row written is that of the stream, whose lease it then has, or the  *)
(* same lease; a lease is handed out as the stream has it.                 *)
LEMMA LeaseWrite ==
  ASSUME IInv, BInv, LeaseInv, NEW p \in Procs, WriteRow(p)
  PROVE  LeaseInv'
<1> DEFINE o == op[p]
           j == o.job
           e == Head(o.todo)
           f == fold[j]
           s == [worker |-> o.worker, job |-> j, attempt |-> e.attempt]
<1>1. /\ j \in Jobs /\ f \in Job /\ fold' = fold
      /\ \A k \in Jobs \ {j} : Base(k)' = Base(k)
      /\ \A k \in Jobs : k = j =>
           \/ Base(k)' = f
           \/ e.type = "heartbeat" /\ Base(k)' = Base(k)
           \/ e.type = "heartbeat" /\ Base(k) = row[k] /\ Base(k)' = [row[k] EXCEPT !.lease = f.lease]
  BY Rewritten
<1>2. /\ o \in Op /\ Promised(o, Base(o.job), f) /\ o.pc = "write" /\ e \in Event
      /\ o.then = "grant" => o.worker \in Workers
  BY OpAt, HeadType DEF BInv, WriteRow, Shape, Acting
<1>3. runs \subseteq Run
  BY DEF IInv, TypeOK
<1>4. \/ runs' = runs
      \/ runs' = runs \cup {s} /\ o.then = "grant" /\ OwnedBy(f, o.worker, e.attempt)
  BY <1>2 DEF WriteRow, GrantedTo, Promised
<1>5. e.type = "heartbeat" => o.then # "grant"
  BY <1>2 DEF Promised, Acting
<1> HIDE DEF o, e, f, j
<1>6. LeaseKnown(Base(j), f) /\ Base(j) \in Job /\ row[j] \in Job
  BY <1>1, BaseReal DEF LeaseInv, f, IInv, TypeOK
<1>7. ASSUME NEW k \in Jobs
      PROVE  /\ LeaseKnown(Base(k)', fold'[k])
             /\ \A r \in runs : r.job = k => RunFits(r, Base(k)')
  <2>1. LeaseKnown(Base(k), fold[k]) /\ \A r \in runs : r.job = k => RunFits(r, Base(k))
    BY DEF LeaseInv
  <2>2. CASE Base(k)' = Base(k)
    BY <1>1, <2>1, <2>2
  <2>3. CASE k = j /\ Base(k)' = f
    <3>1. LeaseKnown(f, f)
      BY <1>1 DEF LeaseKnown, Job
    <3>2. ASSUME NEW r \in runs, r.job = k PROVE RunFits(r, f)
      <4>1. RunFits(r, Base(k)) /\ LeaseKnown(Base(k), f) /\ r.attempt \in Nat
        BY <1>3, <2>1, <2>3, <3>2 DEF Run, f
      <4>2. Base(k).attempt \in Nat /\ f.attempt \in Nat
        BY <1>1, <1>6, <2>3 DEF Job
      <4> QED
        BY <4>1, <4>2 DEF RunFits, LeaseKnown
    <3> QED
      BY <1>1, <2>3, <3>1, <3>2 DEF f
  <2>4. CASE k = j /\ Base(k) = row[k] /\ Base(k)' = [row[k] EXCEPT !.lease = f.lease]
    <3>1. /\ Base(k)'.attempt = Base(k).attempt /\ Base(k)'.worker = Base(k).worker
          /\ Active(Base(k)') <=> Active(Base(k))
      BY <1>6, <2>4 DEF Active, Job
    <3> QED
      BY <1>1, <2>1, <3>1 DEF LeaseKnown, RunFits
  <2> QED
    BY <1>1, <2>2, <2>3, <2>4
<1>8. \A k \in Jobs : LeaseKnown(Base(k)', fold'[k])
  BY <1>7
<1>9. \A r \in runs : r.job \in Jobs
  BY <1>3 DEF Run
<1>10. CASE runs' = runs
  BY <1>7, <1>8, <1>9, <1>10 DEF LeaseInv, LeaseKnown, RunFits, Active
<1>11. CASE runs' = runs \cup {s} /\ o.then = "grant" /\ OwnedBy(f, o.worker, e.attempt)
  <2>1. s.worker = o.worker /\ s.job = j /\ s.attempt = e.attempt /\ s \in Run
    BY <1>1, <1>2, <1>11 DEF Run, Event
  <2> HIDE DEF s
  <2>2. \A k \in Jobs : k = j => Base(k)' = f
    BY <1>1, <1>5, <1>11
  <2>3. RunFits(s, f)
    BY <1>1, <1>11, <2>1 DEF OwnedBy, RunFits, Job
  <2>4. \A r \in runs' : RunFits(r, Base(r.job)')
    BY <1>1, <1>7, <1>9, <1>11, <2>1, <2>2, <2>3
  <2>5. ASSUME NEW r \in runs, r.job = j, r.attempt = s.attempt PROVE r = s
    <3>1. r.attempt = f.attempt /\ Active(f) /\ f.worker = o.worker
      BY <1>11, <2>1, <2>5 DEF OwnedBy
    <3>2. RunFits(r, Base(j)) /\ r \in Run
      BY <1>3, <2>5 DEF LeaseInv
    <3>3. Base(j).attempt \in Nat /\ f.attempt \in Nat
      BY <1>1, <1>6 DEF Job
    <3>4. Base(j).attempt = f.attempt
      BY <1>6, <3>1, <3>2, <3>3 DEF RunFits, LeaseKnown
    <3>5. r.worker = o.worker
      BY <1>6, <3>1, <3>2, <3>4 DEF RunFits, LeaseKnown
    <3> QED
      BY <2>1, <2>5, <3>2, <3>5 DEF Run
  <2>6. \A r, t \in runs' : r.job = t.job /\ r.attempt = t.attempt => r = t
    BY <1>11, <2>1, <2>5 DEF LeaseInv
  <2> QED
    BY <1>8, <2>4, <2>6 DEF LeaseInv, LeaseKnown, RunFits, Active
<1> QED
  BY <1>4, <1>10, <1>11

(* The passing of deadlines leaves leases with who has them. *)
LEMMA LeaseTime == ASSUME IInv, LeaseInv, TimePasses PROVE LeaseInv'
<1>1. runs' = runs /\ \A r \in runs : r.job \in Jobs
  BY DEF TimePasses, IInv, TypeOK, Run
<1>2. \A j \in Jobs : /\ Base(j)'.attempt = Base(j).attempt /\ Base(j)'.worker = Base(j).worker
                      /\ Base(j)'.status = Base(j).status
                      /\ fold'[j].attempt = fold[j].attempt /\ fold'[j].worker = fold[j].worker
                      /\ fold'[j].status = fold[j].status
  BY BaseAges, AgeFields
<1> QED
  BY <1>1, <1>2 DEF LeaseInv, LeaseKnown, RunFits, Active

(* Every step of one queue keeps the leases. *)
LEMMA LeaseNextInv == ASSUME OneQueue, QInv, LeaseInv, [Next]_vars PROVE LeaseInv'
<1>1. Passes \/ TimePasses \/ \E p \in Procs : Effects(p)
  BY OneStep DEF QInv, NoSyncs
<1>2. ASSUME Passes PROVE LeaseInv'
  BY <1>2, LeaseQuiet DEF Passes
<1>3. ASSUME TimePasses PROVE LeaseInv'
  BY <1>3, LeaseTime DEF QInv
<1>4. ASSUME NEW p \in Procs, Effects(p) PROVE LeaseInv'
  <2>1. CASE \/ Rests(p) \/ Offers(p) \/ Tells(p) \/ Takes(p)
             \/ (\E c \in Cmds : Drain(p, c)) \/ DrainDone(p) \/ ReadState(p)
    <3>1. UNCHANGED <<fold, row>> /\ runs' \subseteq runs
      BY <2>1 DEF Rests, Offers, Tells, Takes, Drain, DrainDone, ReadState
    <3> QED
      BY <3>1, LeaseQuiet
  <2>2. CASE Hands(p)
    BY <2>2, LeaseHands DEF QInv
  <2>3. CASE Emit(p)
    BY <2>3, LeaseEmit DEF QInv
  <2>4. CASE WriteRow(p)
    BY <2>4, LeaseWrite DEF QInv
  <2> QED
    BY <1>4, <2>1, <2>2, <2>3, <2>4 DEF Effects
<1> QED
  BY <1>1, <1>2, <1>3, <1>4

(* In the initial state nothing is leased. *)
LEMMA LeaseInit == ASSUME Init PROVE LeaseInv
  BY DEF Init, LeaseInv, LeaseKnown, Base, Active, Exists, NoJob

(* What is known of the leases makes them exclusive. *)
LEMMA LeaseExclusive == ASSUME QInv, LeaseInv PROVE LeaseIsExclusive
<1>1. ASSUME NEW r \in runs
      PROVE  /\ r.attempt <= fold[r.job].attempt
             /\ r.attempt = fold[r.job].attempt /\ Active(fold[r.job]) =>
                  fold[r.job].worker = r.worker
  <2>1. r \in Run /\ r.job \in Jobs /\ r.attempt \in Nat
    BY DEF QInv, IInv, TypeOK, Run
  <2>2. LeaseKnown(Base(r.job), fold[r.job]) /\ RunFits(r, Base(r.job))
    BY <2>1 DEF LeaseInv
  <2>3. Base(r.job).attempt \in Nat /\ fold[r.job].attempt \in Nat
    BY <2>1, BaseReal DEF QInv, Job
  <2> QED
    BY <2>1, <2>2, <2>3 DEF LeaseKnown, RunFits
<1> QED
  BY <1>1 DEF LeaseIsExclusive, LeaseInv

(* Two runs of a queue's workers never hold the same attempt of a job, and *)
(* the run of the current attempt is the one the stream names, however     *)
(* often the store throws or the process crashes between the append of     *)
(* job.leased and the write of the row: leaseNext and leaseJob hand a job  *)
(* out only after they read back what the stream made of their event.      *)
THEOREM LeasesAreExclusive == ASSUME OneQueue PROVE Spec => []LeaseIsExclusive
<1>1. Init => QInv /\ LeaseInv
  BY NearInit, LeaseInit
<1>2. QInv /\ LeaseInv /\ [Next]_vars => (QInv /\ LeaseInv)'
  BY NearNext, LeaseNextInv
<1>3. QInv /\ LeaseInv => LeaseIsExclusive
  BY LeaseExclusive
<1> QED
  BY <1>1, <1>2, <1>3, PTL DEF Spec

-----------------------------------------------------------------------------
(* Commands.  The commands of a job without a consumedAt, in the stream or *)
(* in the row: what consumeCommands may find.                              *)
Opens == [j \in Jobs |-> fold[j].open \cup row[j].open]

(* Open commands were issued, are those of one job, and were not handed    *)
(* out; none is handed out twice.                                          *)
Held(opens, issued, count) ==
  /\ \A j \in Jobs : opens[j] \subseteq issued
  /\ \A j, k \in Jobs : j # k => opens[j] \cap opens[k] = {}
  /\ \A c \in Cmds : /\ count[c] <= 1
                     /\ count[c] > 0 => c \in issued
                     /\ count[c] > 0 => \A j \in Jobs : c \notin opens[j]

Draining(o) == o.pc = "drain" \/ (Acting(o) /\ o.then = "drain")

(* The consumption of command c is under way: f is the stream's job. *)
Taking(o, c, f) ==
  /\ Acting(o) /\ o.todo = <<Command("consumed", c)>>
  /\ o.pc # "emit" => c \notin f.open

(* The commands an operation issues, and those it will return: no job has  *)
(* them open any more, but the one it takes them from.                     *)
Handling(o, opens, issued, count, f) ==
  /\ o.pc = "emit" => \A c \in Cmds : Told(o, c) =>
       c \in issued /\ count[c] = 0 /\ \A j \in Jobs : c \notin opens[j]
  /\ Draining(o) =>
       /\ o.left \subseteq o.got /\ o.got \subseteq Cmds
       /\ \A c \in o.got : /\ c \in issued /\ count[c] = 0
                           /\ \A k \in Jobs \ {o.job} : c \notin opens[k]
       /\ \A c \in o.got \ o.left : c \notin opens[o.job] \/ Taking(o, c, f)

CmdInv ==
  /\ Held(Opens, used, delivered)
  /\ \A p \in Procs : Handling(op[p], Opens, used, delivered, fold[op[p].job])

(* With fewer commands open it still holds. *)
LEMMA HeldFewer ==
  ASSUME NEW opens, NEW fewer, NEW issued, NEW count, Held(opens, issued, count),
         \A j \in Jobs : fewer[j] \subseteq opens[j]
  PROVE  Held(fewer, issued, count)
  BY DEF Held

(* An operation that neither emits nor drains handles none. *)
LEMMA HandlingRests ==
  ASSUME NEW o, o.pc \notin {"emit", "read", "write", "drain"}
  PROVE  \A opens, issued, count, f : Handling(o, opens, issued, count, f)
  BY DEF Handling, Draining, Acting

(* The steps after which the one operation handles what is right. *)
LEMMA CmdStep ==
  ASSUME OneQueue, IInv, NEW p \in Procs, NEW next, op'[p] = next,
         Held(Opens', used', delivered'),
         Handling(next, Opens', used', delivered', fold'[next.job])
  PROVE  CmdInv'
<1>1. \A q \in Procs : q = p
  BY DEF OneQueue
<1> QED
  BY <1>1 DEF CmdInv

(* The steps that touch no command. *)
LEMMA CmdQuiet ==
  ASSUME CmdInv, UNCHANGED <<fold, row, op, used, delivered>>
  PROVE  CmdInv'
<1>1. Opens' = Opens
  BY DEF Opens
<1> QED
  BY <1>1 DEF CmdInv

(* Deadlines are no commands. *)
LEMMA CmdTime == ASSUME IInv, CmdInv, TimePasses PROVE CmdInv'
<1>1. \A j \in Jobs : fold'[j].open = fold[j].open /\ row'[j].open = row[j].open
  BY BaseAges, AgeFields
<1>2. Opens' = Opens
  BY <1>1 DEF Opens
<1>3. used' = used /\ delivered' = delivered
  BY DEF TimePasses
<1>4. ASSUME NEW p \in Procs PROVE Handling(op'[p], Opens, used, delivered, fold'[op'[p].job])
  <2> DEFINE o == op[p]
             next == op'[p]
  <2>1. o \in Op /\ Shape(p, o) /\ Handling(o, Opens, used, delivered, fold[o.job])
    BY OpAt DEF CmdInv
  <2>2. /\ next.pc = o.pc /\ next.job = o.job /\ next.todo = o.todo /\ next.then = o.then
        /\ next.left = o.left /\ next.got = o.got
    BY OpAges
  <2>3. Acting(o) => fold'[o.job].open = fold[o.job].open
    BY <1>1, <2>1 DEF Shape
  <2> HIDE DEF o, next
  <2>4. \A c : Taking(next, c, fold'[o.job]) <=> Taking(o, c, fold[o.job])
    BY <2>2, <2>3 DEF Taking, Acting
  <2>5. Handling(next, Opens, used, delivered, fold'[o.job])
    BY <2>1, <2>2, <2>4 DEF Handling, Told, Draining, Acting
  <2> QED
    BY <2>2, <2>5 DEF next, o
<1> QED
  BY <1>2, <1>3, <1>4 DEF CmdInv

(* Events that are offered issue and consume none. *)
LEMMA CmdOffers ==
  ASSUME OneQueue, IInv, CmdInv, NEW p \in Procs, Offers(p)
  PROVE  CmdInv'
<1>1. PICK next \in Op :
        next.pc = "emit" /\ Offered(next, Base(next.job)) /\ op' = [op EXCEPT ![p] = next]
  BY DEF Offers
<1>2. UNCHANGED <<fold, row, used, delivered>>
  BY DEF Offers
<1>3. Opens' = Opens
  BY <1>2 DEF Opens
<1>4. op'[p] = next
  BY <1>1, OnlyOp
<1>5. \A c : ~Told(next, c)
  BY <1>1, OfferedEvent, ToldEvent
<1>6. next.then # "drain"
  BY <1>1 DEF Offered
<1>7. \A f : Handling(next, Opens, used, delivered, f)
  BY <1>1, <1>5, <1>6 DEF Handling, Draining, Acting
<1> QED
  BY <1>2, <1>3, <1>4, <1>7, CmdStep DEF CmdInv

(* A command that is issued is new. *)
LEMMA CmdTells ==
  ASSUME OneQueue, IInv, CmdInv, NEW p \in Procs, Tells(p)
  PROVE  CmdInv'
<1>1. PICK c \in Cmds \ used, next \in Op :
        /\ used' = used \cup {c}
        /\ next.pc = "emit" /\ Told(next, c) /\ op' = [op EXCEPT ![p] = next]
  BY DEF Tells
<1>2. UNCHANGED <<fold, row, delivered>>
  BY DEF Tells
<1>3. Opens' = Opens
  BY <1>2 DEF Opens
<1>4. op'[p] = next
  BY <1>1, OnlyOp
<1>5. \A d : Told(next, d) => d = c
  <2>1. \A d : Told(next, d) => Head(next.todo).cmds = {d}
    BY ToldEvent
  <2> QED
    BY <1>1, <2>1
<1>6. next.then # "drain"
  BY <1>1 DEF Told
<1>7. delivered[c] = 0 /\ \A j \in Jobs : c \notin Opens[j]
  <2>1. delivered[c] \in Nat
    BY DEF IInv, TypeOK
  <2> QED
    BY <1>1, <2>1 DEF CmdInv, Held
<1>8. Held(Opens, used', delivered)
  BY <1>1 DEF CmdInv, Held
<1>9. \A f : Handling(next, Opens, used', delivered, f)
  BY <1>1, <1>5, <1>6, <1>7 DEF Handling, Draining, Acting
<1> QED
  BY <1>2, <1>3, <1>4, <1>8, <1>9, CmdStep

(* Commands that are taken are open in their job. *)
LEMMA CmdTakes ==
  ASSUME OneQueue, IInv, CmdInv, NEW p \in Procs, Takes(p)
  PROVE  CmdInv'
<1>1. PICK next \in Op :
        /\ next.pc = "drain" /\ next.job \in Jobs
        /\ next.left = next.got /\ next.got \subseteq Base(next.job).open
        /\ op' = [op EXCEPT ![p] = next]
  BY DEF Takes
<1>2. UNCHANGED <<fold, row, used, delivered>>
  BY DEF Takes
<1>3. Opens' = Opens
  BY <1>2 DEF Opens
<1>4. op'[p] = next
  BY <1>1, OnlyOp
<1>5. next.got \subseteq Opens[next.job] /\ next.got \subseteq Cmds
  BY <1>1 DEF Base, Opens, Op
<1>6. ASSUME NEW c \in next.got
      PROVE  c \in used /\ delivered[c] = 0 /\ \A k \in Jobs \ {next.job} : c \notin Opens[k]
  <2>1. delivered[c] \in Nat
    BY <1>5 DEF IInv, TypeOK
  <2> QED
    BY <1>1, <1>5, <2>1 DEF CmdInv, Held
<1>7. \A f : Handling(next, Opens, used, delivered, f)
  BY <1>1, <1>5, <1>6 DEF Handling, Draining, Acting
<1> QED
  BY <1>2, <1>3, <1>4, <1>7, CmdStep DEF CmdInv

(* The next of the commands to return is consumed. *)
LEMMA CmdDrain ==
  ASSUME OneQueue, IInv, CmdInv, NEW p \in Procs, NEW c \in Cmds, Drain(p, c)
  PROVE  CmdInv'
<1> DEFINE o == op[p]
           left == o.left \ {c}
           events == <<Command("consumed", c)>>
           next == [o EXCEPT !.pc = "emit", !.left = left, !.then = "drain", !.todo = events]
<1>1. /\ o \in Op /\ o.pc = "drain" /\ c \in o.left
      /\ Handling(o, Opens, used, delivered, fold[o.job])
  BY OpAt DEF Drain, CmdInv
<1>2. op'[p] = next
  BY DEF Drain, IInv, TypeOK
<1>3. /\ next.pc = "emit" /\ next.left = left /\ next.then = "drain" /\ next.todo = events
      /\ next.got = o.got /\ next.job = o.job
  BY <1>1 DEF Op
<1>4. UNCHANGED <<fold, row, used, delivered>>
  BY DEF Drain
<1>5. Opens' = Opens
  BY <1>4 DEF Opens
<1> HIDE DEF next, o
<1>6. \A d : ~Told(next, d)
  <2>1. Head(next.todo).type = "consumed"
    BY <1>3, ConsumesEvent
  <2> QED
    BY <2>1, ToldEvent
<1>7. /\ o.left \subseteq o.got /\ o.got \subseteq Cmds
      /\ \A d \in o.got : /\ d \in used /\ delivered[d] = 0
                          /\ \A k \in Jobs \ {o.job} : d \notin Opens[k]
      /\ \A d \in o.got \ o.left : d \notin Opens[o.job]
  BY <1>1 DEF Handling, Draining, Taking, Acting
<1>8. \A f : Taking(next, c, f)
  BY <1>3 DEF Taking, Acting
<1>9. \A f : Handling(next, Opens, used, delivered, f)
  <2> HIDE DEF events
  <2> QED
    BY <1>3, <1>6, <1>7, <1>8 DEF Handling
<1> QED
  BY <1>2, <1>4, <1>5, <1>9, CmdStep DEF CmdInv

(* When all are consumed they are handed out. *)
LEMMA CmdDrainDone ==
  ASSUME OneQueue, IInv, CmdInv, NEW p \in Procs, DrainDone(p)
  PROVE  CmdInv'
<1> DEFINE o == op[p]
<1>1. /\ o.pc = "drain" /\ o.left = {} /\ Handling(o, Opens, used, delivered, fold[o.job])
      /\ Held(Opens, used, delivered)
  BY DEF DrainDone, CmdInv
<1>2. /\ UNCHANGED <<fold, row, used>>
      /\ delivered' = [c \in Cmds |-> IF c \in o.got THEN delivered[c] + 1 ELSE delivered[c]]
      /\ op'[p] = Idle
  BY DEF DrainDone, IInv, TypeOK
<1>3. Opens' = Opens
  BY <1>2 DEF Opens
<1>4. \A c \in o.got : c \in used /\ delivered[c] = 0 /\ \A k \in Jobs : c \notin Opens[k]
  BY <1>1 DEF Handling, Draining, Taking, Acting
<1>5. Held(Opens, used, delivered')
  <2>1. ASSUME NEW c \in Cmds
        PROVE  /\ delivered'[c] <= 1 /\ (delivered'[c] > 0 => c \in used)
               /\ delivered'[c] > 0 => \A j \in Jobs : c \notin Opens[j]
    <3>1. delivered'[c] = IF c \in o.got THEN delivered[c] + 1 ELSE delivered[c]
      BY <1>2
    <3>2. CASE c \in o.got
      BY <1>4, <3>1, <3>2
    <3>3. CASE c \notin o.got
      BY <1>1, <3>1, <3>3 DEF Held
    <3> QED
      BY <3>2, <3>3
  <2> QED
    BY <1>1, <2>1 DEF Held
<1>6. \A f : Handling(Idle, Opens, used, delivered', f)
  BY HandlingRests DEF Idle
<1> QED
  BY <1>2, <1>3, <1>5, <1>6, CmdStep

(* The append of a command opens it, that of its consumption closes it in  *)
(* the stream.                                                             *)
LEMMA CmdEmit ==
  ASSUME OneQueue, IInv, BInv, CmdInv, NEW p \in Procs, Emit(p)
  PROVE  CmdInv'
<1> DEFINE o == op[p]
           j == o.job
           e == Head(o.todo)
           f == fold[j]
           g == Reduce(f, e)
           next == [o EXCEPT !.pc = "read"]
<1>1. /\ j \in Jobs /\ e \in Event /\ f \in Job
      /\ \A k \in Jobs : fold'[k] = IF k = j THEN g ELSE fold[k]
      /\ UNCHANGED <<row, used, delivered>> /\ op'[p] = next
  BY Appended
<1>2. /\ o \in Op /\ Handling(o, Opens, used, delivered, f) /\ Promised(o, Base(j), f)
      /\ Held(Opens, used, delivered) /\ o.pc = "emit"
  BY OpAt DEF BInv, CmdInv, Emit
<1>3. /\ next.pc = "read" /\ next.job = j /\ next.todo = o.todo /\ next.then = o.then
      /\ next.left = o.left /\ next.got = o.got
  BY <1>2 DEF Op
<1>4. /\ \/ g.open \subseteq f.open
         \/ e.type = "command" /\ g.open = f.open \cup e.cmds
      /\ e.type = "consumed" => g.open = f.open \ e.cmds
  BY <1>1, ReduceLease
<1>5. /\ e.type = "command" => \E c \in Cmds : Told(o, c) /\ e.cmds = {c}
      /\ e.type = "consumed" => Consumes(o)
  BY <1>2, NextEvent
<1>6. fold'[next.job] = g
  BY <1>1, <1>3
<1>7. \A k \in Jobs : Opens'[k] = IF k = j THEN g.open \cup row[j].open ELSE Opens[k]
  <2> HIDE DEF g, j, next
  <2> QED
    BY <1>1 DEF Opens
<1>8. Opens[j] = f.open \cup row[j].open
  BY <1>1 DEF Opens
<1> HIDE DEF g, f, e, j, o, next
<1>9. CASE g.open \subseteq f.open
  <2>1. \A k \in Jobs : Opens'[k] \subseteq Opens[k]
    BY <1>7, <1>8, <1>9
  <2>2. Held(Opens', used, delivered)
    BY <1>2, <2>1, HeldFewer
  <2>3. Handling(next, Opens', used, delivered, g)
    <3>1. ASSUME Draining(next)
          PROVE  /\ next.left \subseteq next.got /\ next.got \subseteq Cmds
                 /\ \A c \in next.got : /\ c \in used /\ delivered[c] = 0
                                        /\ \A k \in Jobs \ {next.job} : c \notin Opens'[k]
                 /\ \A c \in next.got \ next.left : c \notin Opens'[next.job] \/ Taking(next, c, g)
      <4>1. Draining(o) /\ o.then = "drain" /\ Acting(o)
        BY <1>2, <1>3, <3>1 DEF Draining, Acting
      <4>2. PICK c \in Cmds : o.todo = <<Command("consumed", c)>>
        BY <1>2, <4>1 DEF Promised, Consumes
      <4>3. e.type = "consumed" /\ e.cmds = {c}
        BY <4>2, ConsumesEvent DEF e
      <4>4. Taking(next, c, g)
        BY <1>3, <1>4, <4>2, <4>3 DEF Taking, Acting
      <4>5. \A d : Taking(o, d, f) => d = c
        <5>1. \A d : o.todo = <<Command("consumed", d)>> => e.cmds = {d}
          BY ConsumesEvent DEF e
        <5> QED
          BY <4>3, <5>1 DEF Taking
      <4>6. ASSUME NEW d \in next.got \ next.left
            PROVE  d \notin Opens'[next.job] \/ Taking(next, d, g)
        <5>1. d \notin Opens[j] \/ Taking(o, d, f)
          BY <1>2, <1>3, <4>1, <4>6 DEF Handling, j
        <5> QED
          BY <1>1, <1>3, <2>1, <4>4, <4>5, <5>1
      <4>7. /\ o.left \subseteq o.got /\ o.got \subseteq Cmds
            /\ \A d \in o.got : /\ d \in used /\ delivered[d] = 0
                                /\ \A k \in Jobs \ {o.job} : d \notin Opens[k]
        BY <1>2, <4>1 DEF Handling
      <4>8. o.job = j
        BY DEF j
      <4> QED
        BY <1>3, <2>1, <4>6, <4>7, <4>8
    <3> QED
      BY <1>3, <3>1 DEF Handling
  <2> QED
    BY <1>1, <1>6, <2>2, <2>3, CmdStep
<1>10. CASE e.type = "command" /\ g.open = f.open \cup e.cmds
  <2>1. PICK c \in Cmds : Told(o, c) /\ e.cmds = {c}
    BY <1>5, <1>10
  <2>2. c \in used /\ delivered[c] = 0 /\ \A k \in Jobs : c \notin Opens[k]
    BY <1>2, <2>1 DEF Handling
  <2>3. \A k \in Jobs : Opens'[k] = IF k = j THEN Opens[j] \cup {c} ELSE Opens[k]
    BY <1>7, <1>8, <1>10, <2>1
  <2>4. Held(Opens', used, delivered)
    BY <1>2, <2>2, <2>3 DEF Held
  <2>5. next.pc = "read" /\ next.then # "drain"
    BY <1>3, <2>1 DEF Told
  <2>6. \A h : Handling(next, Opens', used, delivered, h)
    BY <2>5 DEF Handling, Draining
  <2> QED
    BY <1>1, <2>4, <2>6, CmdStep
<1> QED
  BY <1>4, <1>9, <1>10

(* The write of the row closes what the stream has closed. *)
LEMMA CmdWrite ==
  ASSUME OneQueue, IInv, BInv, CmdInv, NEW p \in Procs, WriteRow(p)
  PROVE  CmdInv'
<1> DEFINE o == op[p]
           j == o.job
           e == Head(o.todo)
           f == fold[j]
           next == After(o)
<1>1. /\ j \in Jobs /\ fold' = fold
      /\ \A k \in Jobs \ {j} : row'[k] = row[k]
      /\ \A k \in Jobs : k = j =>
           \/ row'[k] = f
           \/ e.type = "heartbeat" /\ row'[k] = row[k]
           \/ e.type = "heartbeat" /\ row'[k] = [row[k] EXCEPT !.lease = f.lease]
  BY Rewritten
<1>2. /\ o \in Op /\ Handling(o, Opens, used, delivered, f) /\ Promised(o, Base(j), f)
      /\ Held(Opens, used, delivered) /\ o.pc = "write"
  BY OpAt DEF BInv, CmdInv, WriteRow
<1>3. UNCHANGED <<used, delivered>> /\ op'[p] = next
  BY DEF WriteRow, After, IInv, TypeOK
<1>4. \/ next.pc = "emit" /\ next.todo = <<Plain("canceled")>> /\ next.then \in {"idle", "session"}
      \/ next = Idle
      \/ /\ o.then \in {"session", "expire", "drain"}
         /\ next.pc = o.then /\ next.job = j /\ next.left = o.left /\ next.got = o.got
  BY <1>2, AfterFields
<1>5. row[j].open \subseteq Opens[j] /\ f.open \subseteq Opens[j] /\ row[j] \in Job
  BY <1>1 DEF Opens, IInv, TypeOK
<1> HIDE DEF f, e, j, o, next
<1>6. \A k \in Jobs : Opens'[k] \subseteq Opens[k]
  <2>1. \A k \in Jobs : Opens'[k] = fold[k].open \cup row'[k].open
    BY <1>1 DEF Opens
  <2>2. [row[j] EXCEPT !.lease = f.lease].open = row[j].open
    BY <1>5 DEF Job
  <2>3. \A k \in Jobs : Opens[k] = fold[k].open \cup row[k].open
    BY DEF Opens
  <2>4. \A k \in Jobs : k = j => fold[k] = f
    BY DEF f
  <2>5. ASSUME NEW k \in Jobs, k = j PROVE row'[k].open \subseteq Opens[k]
    BY <1>1, <1>5, <2>2, <2>5
  <2> QED
    BY <1>1, <2>1, <2>3, <2>5
<1>7. Held(Opens', used, delivered)
  BY <1>2, <1>6, HeldFewer
<1>8. \A h : Handling(next, Opens', used, delivered, h)
  <2>1. CASE next.pc = "emit" /\ next.todo = <<Plain("canceled")>> /\ next.then \in {"idle", "session"}
    <3>1. Head(next.todo).type = "canceled"
      BY <2>1 DEF Plain
    <3>2. \A c : ~Told(next, c)
      BY <3>1, ToldEvent
    <3> QED
      BY <2>1, <3>2 DEF Handling, Draining
  <2>2. CASE next = Idle
    BY <2>2, HandlingRests DEF Idle
  <2>3. CASE /\ o.then \in {"session", "expire", "drain"}
             /\ next.pc = o.then /\ next.job = j /\ next.left = o.left /\ next.got = o.got
    <3>1. CASE o.then # "drain"
      BY <2>3, <3>1, HandlingRests
    <3>2. CASE o.then = "drain"
      <4>1. Draining(o) /\ Acting(o)
        BY <1>2, <3>2 DEF Draining, Acting
      <4>2. PICK c \in Cmds : o.todo = <<Command("consumed", c)>>
        BY <1>2, <3>2, <4>1 DEF Promised, Consumes
      <4>3. e.type = "consumed" /\ e.cmds = {c}
        BY <4>2, ConsumesEvent DEF e
      <4>4. \A k \in Jobs : k = j => Opens'[k] = f.open
        <5>1. \A k \in Jobs : k = j => row'[k] = f /\ fold'[k] = f
          BY <1>1, <4>3 DEF f
        <5> QED
          BY <5>1 DEF Opens
      <4>5. /\ o.left \subseteq o.got /\ o.got \subseteq Cmds
            /\ \A d \in o.got : /\ d \in used /\ delivered[d] = 0
                                /\ \A k \in Jobs \ {j} : d \notin Opens[k]
            /\ \A d \in o.got \ o.left : d \notin Opens[j] \/ Taking(o, d, f)
        BY <1>2, <4>1 DEF Handling, j
      <4>6. \A d \in o.got \ o.left : d \notin Opens'[j]
        BY <1>1, <1>2, <1>5, <4>4, <4>5 DEF Taking
      <4> QED
        BY <1>6, <2>3, <3>2, <4>5, <4>6 DEF Handling, Acting, Draining
    <3> QED
      BY <3>1, <3>2
  <2> QED
    BY <1>4, <2>1, <2>2, <2>3
<1> QED
  BY <1>3, <1>7, <1>8, CmdStep

(* Every step of one queue handles commands as it should. *)
LEMMA CmdNext == ASSUME OneQueue, QInv, CmdInv, [Next]_vars PROVE CmdInv'
<1>1. Passes \/ TimePasses \/ \E p \in Procs : Effects(p)
  BY OneStep DEF QInv, NoSyncs
<1>2. ASSUME Passes PROVE CmdInv'
  BY <1>2, CmdQuiet DEF Passes
<1>3. ASSUME TimePasses PROVE CmdInv'
  BY <1>3, CmdTime DEF QInv
<1>4. ASSUME NEW p \in Procs, Effects(p) PROVE CmdInv'
  <2>1. CASE Rests(p)
    <3>1. PICK next \in Op : Resting(next) /\ op' = [op EXCEPT ![p] = next]
      BY <2>1 DEF Rests
    <3>2. UNCHANGED <<fold, row, used, delivered>>
      BY <2>1 DEF Rests
    <3>3. Opens' = Opens
      BY <3>2 DEF Opens
    <3>4. op'[p] = next
      BY <3>1, OnlyOp DEF QInv
    <3>5. \A f : Handling(next, Opens, used, delivered, f)
      BY <3>1, HandlingRests DEF Resting
    <3> QED
      BY <3>2, <3>3, <3>4, <3>5, CmdStep DEF CmdInv, QInv
  <2>2. CASE Hands(p)
    BY <2>2, CmdQuiet DEF Hands
  <2>3. CASE Offers(p) \/ Tells(p) \/ Takes(p)
    BY <2>3, CmdOffers, CmdTells, CmdTakes DEF QInv
  <2>4. CASE (\E c \in Cmds : Drain(p, c)) \/ DrainDone(p)
    BY <2>4, CmdDrain, CmdDrainDone DEF QInv
  <2>5. CASE Emit(p) \/ WriteRow(p)
    BY <2>5, CmdEmit, CmdWrite DEF QInv
  <2>6. CASE ReadState(p)
    <3> DEFINE o == op[p]
               next == [o EXCEPT !.pc = "write", !.snap = fold[o.job]]
    <3>1. /\ o \in Op /\ o.pc = "read" /\ Handling(o, Opens, used, delivered, fold[o.job])
      BY <2>6, OpAt DEF ReadState, CmdInv, QInv
    <3>2. UNCHANGED <<fold, row, used, delivered>> /\ op'[p] = next
      BY <2>6 DEF ReadState, QInv, IInv, TypeOK
    <3>3. Opens' = Opens
      BY <3>2 DEF Opens
    <3>4. /\ next.pc = "write" /\ next.job = o.job /\ next.todo = o.todo /\ next.then = o.then
          /\ next.left = o.left /\ next.got = o.got
      BY <3>1 DEF Op
    <3> HIDE DEF next, o
    <3>5. Handling(next, Opens, used, delivered, fold[next.job])
      BY <3>1, <3>4 DEF Handling, Draining, Acting, Taking
    <3> QED
      BY <3>2, <3>3, <3>5, CmdStep DEF CmdInv, QInv
  <2> QED
    BY <1>4, <2>1, <2>2, <2>3, <2>4, <2>5, <2>6 DEF Effects
<1> QED
  BY <1>1, <1>2, <1>3, <1>4

(* In the initial state there are no commands. *)
LEMMA CmdInit == ASSUME Init PROVE CmdInv
<1>1. Opens = [j \in Jobs |-> {}]
  BY DEF Init, Opens, NoJob
<1>2. Held(Opens, used, delivered)
  BY <1>1 DEF Init, Held
<1>3. ASSUME NEW p \in Procs PROVE Handling(op[p], Opens, used, delivered, fold[op[p].job])
  BY HandlingRests DEF Init, Idle
<1> QED
  BY <1>2, <1>3 DEF CmdInv

(* consumeCommands of one queue hands a command out once, though it        *)
(* appends and projects the consumption of each command separately and may *)
(* be abandoned between any two of these steps: what it returns it has     *)
(* seen consumed in the stream and in the row.                             *)
THEOREM CommandsDeliveredOnce == ASSUME OneQueue PROVE Spec => []CommandDeliveredOnce
<1>1. Init => QInv /\ CmdInv
  BY NearInit, CmdInit
<1>2. QInv /\ CmdInv /\ [Next]_vars => (QInv /\ CmdInv)'
  BY NearNext, CmdNext
<1>3. QInv /\ CmdInv => CommandDeliveredOnce
  BY DEF CmdInv, Held, CommandDeliveredOnce
<1> QED
  BY <1>1, <1>2, <1>3, PTL DEF Spec

-----------------------------------------------------------------------------
(* Projections, as long as nothing was thrown.  Every copy follows the      *)
(* stream, but those of the job whose row is yet to be written;            *)
Busy(o) == o.pc \in {"read", "write"}

(* and when the write to come is that of a deadline only, that is all the  *)
(* row needs.                                                              *)
Touched(r, f) ==
  \/ r = f
  \/ /\ Active(r) /\ Active(f) /\ f.lease # "none"
     /\ [r EXCEPT !.status = f.status, !.lease = f.lease] = f

FollowInv ==
  faults = 0 => \A p \in Procs :
    /\ \A j \in Jobs : (Busy(op[p]) => op[p].job # j) =>
         /\ Follows(row[j], fold[j])
         /\ Exists(idx[p][j]) => Follows(idx[p][j], fold[j])
    /\ Busy(op[p]) /\ Head(op[p].todo).type = "heartbeat" =>
         Touched(row[op[p].job], fold[op[p].job])

(* A copy of the stream follows it. *)
LEMMA FollowsItself == ASSUME NEW f PROVE Follows(f, f)
  BY DEF Follows

(* What follows the stream is it, but for leased against running. *)
LEMMA FollowsFields ==
  ASSUME NEW r \in Job, NEW f \in Job, Follows(r, f)
  PROVE  /\ r.attempt = f.attempt /\ r.worker = f.worker /\ r.lease = f.lease
         /\ r.abort = f.abort /\ r.open = f.open
         /\ Active(r) <=> Active(f)
         /\ ~Active(r) => r = f
         /\ Active(r) => [r EXCEPT !.status = f.status] = f
<1>1. CASE r = f
  <2>1. [f EXCEPT !.status = f.status] = f
    BY DEF Job
  <2> QED
    BY <1>1, <2>1
<1>2. CASE Active(r) /\ Active(f) /\ [r EXCEPT !.status = f.status] = f
  <2> DEFINE g == [r EXCEPT !.status = f.status]
  <2>1. /\ g.attempt = r.attempt /\ g.worker = r.worker /\ g.lease = r.lease
        /\ g.abort = r.abort /\ g.open = r.open
    BY DEF Job
  <2> QED
    BY <1>2, <2>1
<1> QED
  BY <1>1, <1>2 DEF Follows

(* It still does when deadlines have passed for both. *)
LEMMA FollowsAges ==
  ASSUME NEW r \in Job, NEW f \in Job, Follows(r, f)
  PROVE  Follows(Age(r), Age(f))
<1>1. CASE r = f
  BY <1>1 DEF Follows
<1>2. CASE Active(r) /\ Active(f) /\ [r EXCEPT !.status = f.status] = f
  <2>1. Active(Age(r)) /\ Active(Age(f)) /\ r.lease = f.lease /\ Age(f).status = f.status
    BY <1>2, AgeFields, FollowsFields DEF Active
  <2>2. [Age(r) EXCEPT !.status = f.status] = Age([r EXCEPT !.status = f.status])
    <3> DEFINE g == [r EXCEPT !.status = f.status]
    <3>1. g.lease = r.lease
      BY DEF Job
    <3>2. CASE r.lease = "live"
      <4>1. Age(r) = [r EXCEPT !.lease = "past"] /\ Age(g) = [g EXCEPT !.lease = "past"]
        BY <3>1, <3>2 DEF Age
      <4>2. [[r EXCEPT !.lease = "past"] EXCEPT !.status = f.status]
              = [[r EXCEPT !.status = f.status] EXCEPT !.lease = "past"]
        BY DEF Job
      <4> QED
        BY <4>1, <4>2
    <3>3. CASE r.lease # "live"
      BY <3>1, <3>3 DEF Age
    <3> QED
      BY <3>2, <3>3
  <2> QED
    BY <1>2, <2>1, <2>2 DEF Follows
<1> QED
  BY <1>1, <1>2 DEF Follows

(* So is what needs a deadline only. *)
LEMMA TouchedAges ==
  ASSUME NEW r \in Job, NEW f \in Job, Touched(r, f)
  PROVE  Touched(Age(r), Age(f))
<1>1. CASE r = f
  BY <1>1 DEF Touched
<1>2. CASE /\ Active(r) /\ Active(f) /\ f.lease # "none"
           /\ [r EXCEPT !.status = f.status, !.lease = f.lease] = f
  <2> DEFINE x == Age(r).lease
             y == Age(f).lease
  <2>1. /\ Active(Age(r)) /\ Active(Age(f)) /\ y # "none" /\ Age(f).status = f.status
        /\ Age(r) = [r EXCEPT !.lease = x] /\ Age(f) = [f EXCEPT !.lease = y]
    BY <1>2, AgeFields DEF Active
  <2> HIDE DEF x, y
  <2>2. [[r EXCEPT !.lease = x] EXCEPT !.status = f.status, !.lease = y]
          = [[r EXCEPT !.status = f.status, !.lease = f.lease] EXCEPT !.lease = y]
    BY DEF Job
  <2>3. [Age(r) EXCEPT !.status = f.status, !.lease = y] = Age(f)
    BY <1>2, <2>1, <2>2
  <2> QED
    BY <2>1, <2>3 DEF Touched, y
<1> QED
  BY <1>1, <1>2 DEF Touched

(* A heartbeat that was offered on a copy that follows leaves a deadline   *)
(* to write.                                                               *)
LEMMA HeartbeatTouches ==
  ASSUME NEW r \in Job, NEW f \in Job, NEW e \in Event, e.type = "heartbeat",
         Follows(r, f), Exists(f), Manned(r), e.worker \in Workers, MayReport(r, e.worker)
  PROVE  Touched(r, Reduce(f, e))
<1>1. CASE ~Active(f)
  <2>1. Reduce(f, e) = f /\ r = f
    BY <1>1, FollowsFields DEF Reduce, Applies
  <2> QED
    BY <2>1 DEF Touched
<1>2. CASE Active(f)
  <2>1. Reduce(f, e) = [f EXCEPT !.status = "running", !.worker = e.worker, !.lease = "live"]
    BY <1>2 DEF Reduce, Applies, Effect
  <2>2. Active(r) /\ [r EXCEPT !.status = f.status] = f /\ r.worker = e.worker
    <3>1. Active(r) /\ [r EXCEPT !.status = f.status] = f
      BY <1>2, FollowsFields
    <3>2. r.worker \in Workers /\ r.worker \in {None, e.worker}
      BY <3>1 DEF Manned, MayReport
    <3> QED
      BY <3>1, <3>2, RecordAssumption
  <2> DEFINE s == f.status
             g == [f EXCEPT !.status = "running", !.worker = e.worker, !.lease = "live"]
  <2> HIDE DEF s
  <2>3. [[r EXCEPT !.status = s] EXCEPT !.status = "running", !.worker = r.worker, !.lease = "live"]
          = [r EXCEPT !.status = "running", !.lease = "live"]
    BY DEF Job
  <2>4. g.status = "running" /\ g.lease = "live"
    BY DEF Job
  <2>5. [r EXCEPT !.status = "running", !.lease = "live"] = g
    BY <2>2, <2>3 DEF s
  <2> HIDE DEF g
  <2>6. [r EXCEPT !.status = g.status, !.lease = g.lease] = g
    BY <2>4, <2>5
  <2>7. Touched(r, g)
    BY <2>2, <2>4, <2>6 DEF Touched, Active
  <2> QED
    BY <2>1, <2>7 DEF g
<1> QED
  BY <1>1, <1>2

(* The write of the deadline makes the row follow. *)
LEMMA TouchedFollows ==
  ASSUME NEW r \in Job, NEW f \in Job, Touched(r, f), Exists(f)
  PROVE  /\ f.lease # "none" => Exists(r) /\ Follows([r EXCEPT !.lease = f.lease], f)
         /\ f.lease = "none" => Follows(r, f)
<1>1. CASE r = f
  <2>1. [f EXCEPT !.lease = f.lease] = f
    BY DEF Job
  <2> QED
    BY <1>1, <2>1 DEF Follows
<1>2. CASE /\ Active(r) /\ Active(f) /\ f.lease # "none"
           /\ [r EXCEPT !.status = f.status, !.lease = f.lease] = f
  <2> DEFINE s == [r EXCEPT !.lease = f.lease]
  <2>1. Active(s) /\ Exists(r)
    BY <1>2 DEF Active, Exists, Job
  <2>2. [[r EXCEPT !.lease = f.lease] EXCEPT !.status = f.status]
          = [r EXCEPT !.status = f.status, !.lease = f.lease]
    BY DEF Job
  <2> QED
    BY <1>2, <2>1, <2>2 DEF Follows
<1> QED
  BY <1>1, <1>2 DEF Touched

(* The copy follows, unless its row is about to be written. *)
LEMMA BaseFollows ==
  ASSUME FollowInv, faults = 0, NEW p \in Procs, NEW j \in Jobs, Busy(op[p]) => op[p].job # j
  PROVE  Follows(Base(j), fold[j])
  BY FollowsItself DEF FollowInv, Base

(* The steps of an operation that neither append nor write copy what       *)
(* follows.                                                                *)
LEMMA FollowCopies ==
  ASSUME OneQueue, FollowInv, NEW p \in Procs, UNCHANGED <<fold, row>>, Copied(p),
         faults' = 0 => faults = 0 /\ ~Busy(op[p]) /\ ~Busy(op'[p])
  PROVE  FollowInv'
<1> SUFFICES ASSUME faults' = 0
             PROVE  \A j \in Jobs : /\ Follows(row[j], fold[j])
                                    /\ Exists(idx'[p][j]) => Follows(idx'[p][j], fold[j])
  <2>1. \A q \in Procs : q = p
    BY DEF OneQueue
  <2> QED
    BY <2>1 DEF FollowInv, Busy
<1> TAKE j \in Jobs
<1>1. Follows(row[j], fold[j]) /\ (Exists(idx[p][j]) => Follows(idx[p][j], fold[j]))
  BY DEF FollowInv
<1>2. Follows(Base(j), fold[j])
  BY BaseFollows
<1>3. idx'[p][j] \in {idx[p][j], Base(j), NoJob}
  BY DEF Copied
<1>4. ~Exists(NoJob)
  BY DEF Exists, NoJob
<1> QED
  BY <1>1, <1>2, <1>3, <1>4

(* The steps after which everything is as it was. *)
LEMMA FollowSame ==
  ASSUME FollowInv, NEW p \in Procs, OneQueue, UNCHANGED <<fold, row, idx, faults>>,
         Busy(op'[p]) <=> Busy(op[p]),
         Busy(op[p]) => op'[p].job = op[p].job /\ op'[p].todo = op[p].todo
  PROVE  FollowInv'
<1>1. \A q \in Procs : q = p
  BY DEF OneQueue
<1>2. ASSUME faults = 0, NEW j \in Jobs, Busy(op'[p]) => op'[p].job # j
      PROVE  /\ Follows(row'[j], fold'[j])
             /\ Exists(idx'[p][j]) => Follows(idx'[p][j], fold'[j])
  BY <1>2 DEF FollowInv
<1>3. ASSUME faults = 0, Busy(op'[p]), Head(op'[p].todo).type = "heartbeat"
      PROVE  Touched(row'[op'[p].job], fold'[op'[p].job])
  BY <1>3 DEF FollowInv
<1>4. FollowInv' = (faults' = 0 => \A q \in Procs :
        /\ \A j \in Jobs : (Busy(op'[q]) => op'[q].job # j) =>
             /\ Follows(row'[j], fold'[j])
             /\ Exists(idx'[q][j]) => Follows(idx'[q][j], fold'[j])
        /\ Busy(op'[q]) /\ Head(op'[q].todo).type = "heartbeat" =>
             Touched(row'[op'[q].job], fold'[op'[q].job]))
  BY DEF FollowInv
<1> QED
  BY <1>1, <1>2, <1>3, <1>4

(* The append of a heartbeat leaves a deadline to write. *)
LEMMA FollowEmit ==
  ASSUME OneQueue, IInv, BInv, FollowInv, NEW p \in Procs, Emit(p)
  PROVE  FollowInv'
<1> DEFINE o == op[p]
           j == o.job
           e == Head(o.todo)
           f == fold[j]
           g == Reduce(f, e)
           next == [o EXCEPT !.pc = "read"]
<1>1. /\ j \in Jobs /\ e \in Event /\ f \in Job
      /\ \A k \in Jobs : fold'[k] = IF k = j THEN g ELSE fold[k]
      /\ UNCHANGED <<row, idx, faults>> /\ op'[p] = next
  BY Appended
<1>2. o \in Op /\ o.pc = "emit"
  BY OpAt DEF Emit
<1>3. next.pc = "read" /\ next.job = j /\ next.todo = o.todo
  BY <1>2 DEF Op
<1>4. /\ e.type = "heartbeat" => e.worker \in Workers /\ MayReport(Base(j), e.worker)
      /\ e.type = "enqueued" <=> ~Exists(f)
  BY <1>2, NextEvent
<1>5. row[j] \in Job /\ Manned(row[j])
  BY <1>1 DEF IInv, TypeOK, BInv
<1>6. \A q \in Procs : q = p
  BY DEF OneQueue
<1>7. ~Busy(o)
  BY <1>2 DEF Busy
<1>8. j = op[p].job /\ o = op[p] /\ e = Head(o.todo)
  OBVIOUS
<1>9. f = fold[j]
  OBVIOUS
<1> HIDE DEF g, f, e, j, next
<1>10. ASSUME faults = 0, e.type = "heartbeat" PROVE Touched(row[j], g)
  <2>1. Follows(row[j], f) /\ Exists(f)
    BY <1>1, <1>4, <1>7, <1>9, <1>10 DEF FollowInv
  <2>2. Exists(row[j])
    BY <2>1 DEF Follows, Exists, Active
  <2>3. MayReport(row[j], e.worker)
    BY <1>4, <1>10, <2>2 DEF Base
  <2> QED
    BY <1>1, <1>4, <1>5, <1>10, <2>1, <2>3, HeartbeatTouches DEF g
<1>11. ASSUME faults = 0, NEW k \in Jobs, k # j
       PROVE  /\ Follows(row'[k], fold'[k])
              /\ Exists(idx'[p][k]) => Follows(idx'[p][k], fold'[k])
  BY <1>1, <1>7, <1>11 DEF FollowInv
<1>12. op'[p].job = j /\ Head(op'[p].todo) = e
  BY <1>1, <1>3, <1>8
<1>13. faults = 0 /\ e.type = "heartbeat" => Touched(row'[j], fold'[j])
  BY <1>1, <1>10
<1>14. Busy(op'[p])
  BY <1>1, <1>3 DEF Busy
<1> QED
  BY <1>1, <1>6, <1>11, <1>12, <1>13, <1>14 DEF FollowInv

(* The write of a row makes it follow. *)
LEMMA FollowWrite ==
  ASSUME OneQueue, IInv, BInv, FollowInv, NEW p \in Procs, WriteRow(p)
  PROVE  FollowInv'
<1> DEFINE o == op[p]
           j == o.job
           e == Head(o.todo)
           f == fold[j]
           next == After(o)
<1>1. /\ j \in Jobs /\ f \in Job /\ Exists(f) /\ row[j] \in Job /\ o.snap = f
      /\ row' = [row EXCEPT ![j] = row'[j]]
      /\ e.type # "heartbeat" => row'[j] = f
      /\ e.type = "heartbeat" => row'[j] = IF Exists(row[j]) /\ f.lease # "none"
                                           THEN [row[j] EXCEPT !.lease = f.lease] ELSE row[j]
  BY Written
<1>2. /\ fold' = fold /\ faults' = faults /\ op'[p] = next /\ o.pc = "write"
      /\ idx' = [idx EXCEPT ![p][j] = f]
  BY <1>1 DEF WriteRow, After, Index, IInv, TypeOK
<1>3. ~Busy(next)
  <2>1. \/ next.pc = "emit" \/ next = Idle \/ next.pc \in {"session", "expire", "drain"}
    BY <1>2, AfterFields
  <2> HIDE DEF next
  <2> QED
    BY <2>1 DEF Busy, Idle
<1>4. \A q \in Procs : q = p
  BY DEF OneQueue
<1>5. Busy(o) /\ o = op[p] /\ e = Head(o.todo) /\ j = o.job
  BY <1>2 DEF Busy
<1>6. f = fold[j]
  OBVIOUS
<1>7. idx'[p][j] = f /\ \A k \in Jobs \ {j} : idx'[p][k] = idx[p][k]
  BY <1>1, <1>2 DEF IInv, TypeOK
<1>8. \A k \in Jobs \ {j} : row'[k] = row[k]
  BY <1>1 DEF IInv, TypeOK
<1> HIDE DEF f, e, j, o, next
<1>9. faults = 0 /\ e.type = "heartbeat" => Touched(row[j], f)
  BY <1>5, <1>6 DEF FollowInv
<1>10. faults = 0 => Follows(row'[j], f)
  BY <1>1, <1>9, TouchedFollows, FollowsItself
<1>11. ASSUME faults = 0, NEW k \in Jobs
       PROVE  /\ Follows(row'[k], fold[k])
              /\ Exists(idx'[p][k]) => Follows(idx'[p][k], fold[k])
  <2>1. CASE k = j
    BY <1>6, <1>7, <1>10, <1>11, <2>1, FollowsItself
  <2>2. CASE k # j
    BY <1>5, <1>7, <1>8, <1>11, <2>2 DEF FollowInv
  <2> QED
    BY <2>1, <2>2
<1>12. ~Busy(op'[p])
  BY <1>2, <1>3
<1> QED
  BY <1>2, <1>4, <1>11, <1>12 DEF FollowInv, Busy

(* What follows still does when deadlines pass. *)
LEMMA FollowTime ==
  ASSUME OneQueue, IInv, FollowInv, TimePasses
  PROVE  FollowInv'
<1> SUFFICES ASSUME faults = 0, NEW p \in Procs
             PROVE  /\ \A j \in Jobs : (Busy(op'[p]) => op'[p].job # j) =>
                         /\ Follows(row'[j], fold'[j])
                         /\ Exists(idx'[p][j]) => Follows(idx'[p][j], fold'[j])
                    /\ Busy(op'[p]) /\ Head(op'[p].todo).type = "heartbeat" =>
                         Touched(row'[op'[p].job], fold'[op'[p].job])
  <2>1. faults' = faults
    BY DEF TimePasses
  <2> QED
    BY <2>1 DEF FollowInv, Busy
<1>1. /\ op[p] \in Op /\ Shape(p, op[p])
      /\ op'[p].pc = op[p].pc /\ op'[p].job = op[p].job /\ op'[p].todo = op[p].todo
  BY OpAt, OpAges
<1>2. Busy(op'[p]) <=> Busy(op[p])
  BY <1>1 DEF Busy
<1>3. ASSUME NEW j \in Jobs
      PROVE  /\ fold[j] \in Job /\ row[j] \in Job /\ idx[p][j] \in Job
             /\ fold'[j] = Age(fold[j]) /\ row'[j] = Age(row[j]) /\ idx'[p][j] = Age(idx[p][j])
             /\ Exists(Age(idx[p][j])) <=> Exists(idx[p][j])
  <2>1. idx'[p][j] = Age(idx[p][j]) /\ idx[p][j] \in Job
    BY DEF TimePasses, IInv, TypeOK
  <2>2. Exists(Age(idx[p][j])) <=> Exists(idx[p][j])
    BY <2>1, AgeFields DEF Exists
  <2> QED
    BY <2>1, <2>2, BaseAges
<1>4. ASSUME NEW j \in Jobs, Busy(op'[p]) => op'[p].job # j
      PROVE  /\ Follows(row'[j], fold'[j])
             /\ Exists(idx'[p][j]) => Follows(idx'[p][j], fold'[j])
  <2>1. Follows(row[j], fold[j]) /\ (Exists(idx[p][j]) => Follows(idx[p][j], fold[j]))
    BY <1>1, <1>2, <1>4 DEF FollowInv
  <2> QED
    BY <1>3, <2>1, FollowsAges
<1>5. ASSUME Busy(op'[p]), Head(op'[p].todo).type = "heartbeat"
      PROVE  Touched(row'[op'[p].job], fold'[op'[p].job])
  <2>1. op[p].job \in Jobs
    BY <1>1, <1>2, <1>5 DEF Shape, Acting, Busy
  <2>2. Touched(row[op[p].job], fold[op[p].job])
    BY <1>1, <1>2, <1>5 DEF FollowInv
  <2> QED
    BY <1>1, <1>3, <2>1, <2>2, TouchedAges
<1> QED
  BY <1>4, <1>5

(* Until it throws, every step of one queue leaves copies that follow. *)
LEMMA FollowNext == ASSUME OneQueue, QInv, FollowInv, [Next]_vars PROVE FollowInv'
<1>1. Passes \/ TimePasses \/ \E p \in Procs : Effects(p)
  BY OneStep DEF QInv, NoSyncs
<1>2. ASSUME Passes PROVE FollowInv'
  <2>1. UNCHANGED <<fold, row, idx, op, faults>>
    BY <1>2 DEF Passes
  <2>2. ASSUME NEW p \in Procs PROVE FollowInv'
    BY <2>1, FollowSame
  <2>3. Procs = {} => FollowInv'
    BY DEF FollowInv
  <2> QED
    BY <2>2, <2>3
<1>3. ASSUME TimePasses PROVE FollowInv'
  BY <1>3, FollowTime DEF QInv
<1>4. ASSUME NEW p \in Procs, Effects(p) PROVE FollowInv'
  <2>1. CASE Rests(p) \/ Offers(p) \/ Tells(p) \/ Takes(p)
    <3>1. PICK next \in Op : /\ next.pc \notin {"read", "write"}
                             /\ op' = [op EXCEPT ![p] = next]
      BY <2>1 DEF Rests, Offers, Tells, Takes, Resting
    <3>2. op'[p] = next
      BY <3>1, OnlyOp DEF QInv
    <3>3. /\ UNCHANGED <<fold, row>> /\ Copied(p)
          /\ faults' = 0 => faults = 0 /\ Resting(op[p])
      BY <2>1 DEF Rests, Offers, Tells, Takes
    <3>4. ~Busy(next) /\ (Resting(op[p]) => ~Busy(op[p]))
      BY <3>1 DEF Busy, Resting
    <3> QED
      BY <3>2, <3>3, <3>4, FollowCopies
  <2>2. CASE Hands(p)
    <3>1. ~Busy(op[p]) /\ op' = op
      BY <2>2 DEF Hands, Free, Busy
    <3> QED
      BY <2>2, <3>1, FollowCopies DEF Hands
  <2>3. CASE (\E c \in Cmds : Drain(p, c)) \/ DrainDone(p)
    <3>1. op[p].pc = "drain" /\ op[p] \in Op /\ UNCHANGED <<fold, row, idx, faults>>
      BY <2>3, OpAt DEF Drain, DrainDone, QInv
    <3>2. op'[p].pc \in {"emit", "idle"}
      <4>1. CASE \E c \in Cmds : Drain(p, c)
        <5>1. PICK c \in Cmds : Drain(p, c)
          BY <4>1
        <5> DEFINE left == op[p].left \ {c}
                   events == <<Command("consumed", c)>>
        <5>2. op'[p] = [op[p] EXCEPT !.pc = "emit", !.left = left, !.then = "drain", !.todo = events]
          BY <5>1 DEF Drain, QInv, IInv, TypeOK
        <5> HIDE DEF left, events
        <5> QED
          BY <3>1, <5>2 DEF Op
      <4>2. CASE DrainDone(p)
        BY <4>2 DEF DrainDone, Idle, QInv, IInv, TypeOK
      <4> QED
        BY <2>3, <4>1, <4>2
    <3>3. ~Busy(op[p]) /\ ~Busy(op'[p])
      BY <3>1, <3>2 DEF Busy
    <3> QED
      BY <3>1, <3>3, FollowSame
  <2>4. CASE Emit(p) \/ WriteRow(p)
    BY <2>4, FollowEmit, FollowWrite DEF QInv
  <2>5. CASE ReadState(p)
    <3> DEFINE o == op[p]
               next == [o EXCEPT !.pc = "write", !.snap = fold[o.job]]
    <3>1. o \in Op /\ o.pc = "read" /\ op'[p] = next /\ UNCHANGED <<fold, row, idx, faults>>
      BY <2>5, OpAt DEF ReadState, QInv, IInv, TypeOK
    <3>2. next.pc = "write" /\ next.job = o.job /\ next.todo = o.todo
      BY <3>1 DEF Op
    <3> HIDE DEF next
    <3> QED
      BY <3>1, <3>2, FollowSame DEF Busy
  <2> QED
    BY <1>4, <2>1, <2>2, <2>3, <2>4, <2>5 DEF Effects
<1> QED
  BY <1>1, <1>2, <1>3, <1>4

(* In the initial state all copies are the stream. *)
LEMMA FollowInit == ASSUME Init PROVE FollowInv
  BY DEF Init, FollowInv, Follows, Idle, Busy

(* Between operations, and until the store first throws, the row and the   *)
(* index of one queue tell the truth: each append is projected before the  *)
(* lock is released, and a heartbeat, which writes a deadline only, was    *)
(* guarded by the row it completes.                                        *)
THEOREM ProjectionsFollow == ASSUME OneQueue PROVE Spec => []ProjectionFollows
<1>1. Init => QInv /\ FollowInv
  BY NearInit, FollowInit
<1>2. QInv /\ FollowInv /\ [Next]_vars => (QInv /\ FollowInv)'
  BY NearNext, FollowNext
<1>3. FollowInv => ProjectionFollows
  BY DEF FollowInv, ProjectionFollows, Free, Busy
<1> QED
  BY <1>1, <1>2, <1>3, PTL DEF Spec

-----------------------------------------------------------------------------
(* The ledger reduces and ages as the streams do, *)
LEMMA SameReducer ==
  ASSUME NEW r, NEW e
  PROVE  Ledger!Reduce(r, e) = Reduce(r, e) /\ Ledger!Age(r) = Age(r)
  BY DEF Ledger!Reduce, Reduce, Ledger!Applies, Applies, Ledger!Effect, Effect,
      Ledger!Active, Active, Ledger!Terminal, Terminal, Ledger!Release, Release,
      Ledger!NoJob, NoJob, Ledger!Age, Age

(* has the same events, *)
LEMMA SameEvents ==
  /\ \A type : Ledger!Plain(type) = Plain(type)
  /\ \A type, w : Ledger!By(type, w) = By(type, w)
  /\ \A w, n : Ledger!Leased(w, n) = Leased(w, n)
  /\ \A w, again : Ledger!Failed(w, again) = Failed(w, again)
  /\ \A again : Ledger!Expired(again) = Expired(again)
  /\ \A type, c : Ledger!Command(type, c) = Command(type, c)
  BY DEF Ledger!Plain, Plain, Ledger!By, By, Ledger!Leased, Leased, Ledger!Failed, Failed,
      Ledger!Expired, Expired, Ledger!Command, Command

(* and asks the same of a record. *)
LEMMA SameGuards ==
  ASSUME NEW r
  PROVE  /\ Ledger!Exists(r) <=> Exists(r)
         /\ Ledger!Active(r) <=> Active(r)
         /\ Ledger!Terminal(r) <=> Terminal(r)
         /\ Ledger!ShouldQueue(r) <=> ShouldQueue(r)
         /\ Ledger!LeasePast(r) <=> LeasePast(r)
  BY DEF Ledger!Exists, Exists, Ledger!Active, Active, Ledger!Terminal, Terminal,
      Ledger!ShouldQueue, ShouldQueue, Ledger!LeasePast, LeasePast

(* A worker that may report on a copy that follows the stream owns the     *)
(* lease, if there is one.                                                 *)
LEMMA ReporterOwns ==
  ASSUME NEW b \in Job, NEW f \in Job, Follows(b, f), Manned(b), NEW w \in Workers,
         MayReport(b, w), Active(f)
  PROVE  f.worker = w
<1>1. Active(b) /\ b.worker = f.worker
  BY FollowsFields
<1>2. b.worker \in Workers /\ b.worker \in {None, w}
  BY <1>1 DEF Manned, MayReport
<1> QED
  BY <1>1, <1>2, RecordAssumption

(* An append, until the store first throws, is a step of the ledger.       *)
LEMMA LedgerEmit ==
  ASSUME Targeted = {}, IInv, BInv, FollowInv, faults = 0, NEW p \in Procs, Emit(p)
  PROVE  [Ledger!Next]_fold
<1> DEFINE o == op[p]
           j == o.job
           e == Head(o.todo)
           f == fold[j]
           b == Base(j)
<1>1. /\ j \in Jobs /\ e \in Event /\ f \in Job /\ b \in Job /\ o.pc = "emit"
      /\ fold' = [fold EXCEPT ![j] = Reduce(f, e)]
  BY Appended DEF Emit
<1>2. Follows(b, f) /\ Manned(b)
  BY <1>1, BaseFollows, BaseReal DEF Busy
<1>3. Offered(o, b) \/ (\E c \in Cmds : Told(o, c)) \/ Consumes(o)
  BY <1>1 DEF BInv, Promised
<1>4. e.type = "enqueued" <=> ~Exists(f)
  BY <1>1, NextEvent
<1>5. \A d : e = d => Ledger!Apply(j, d)
  BY <1>1, SameReducer DEF Ledger!Apply
<1>6. Reduce(f, e) = f => fold' = fold
  BY <1>1 DEF IInv, TypeOK
<1>7. f = fold[j] /\ e = Head(o.todo)
  OBVIOUS
<1> HIDE DEF o, j, e, f, b
<1>8. ASSUME NEW w \in Workers, NEW type \in {"heartbeat", "progress", "completed"},
             MayReport(b, w), o.todo = <<By(type, w)>>
      PROVE  [Ledger!Next]_fold
  <2>1. e = By(type, w) /\ e.type = type
    BY <1>7, <1>8 DEF By, Plain
  <2>2. CASE Active(f)
    <3>1. Ledger!Owns(w, j)
      BY <1>1, <1>2, <1>7, <1>8, <2>2, ReporterOwns, SameGuards DEF Ledger!Owns
    <3>2. Ledger!Apply(j, Ledger!By(type, w))
      BY <1>5, <2>1, SameEvents
    <3>3. Ledger!Report(w, j)
      BY <3>1, <3>2 DEF Ledger!Report
    <3> QED
      BY <1>1, <3>3 DEF Ledger!Next
  <2>3. CASE ~Active(f)
    <3>1. Reduce(f, e) = f
      BY <1>8, <2>1, <2>3 DEF Reduce, Applies
    <3> QED
      BY <1>6, <3>1
  <2> QED
    BY <2>2, <2>3
<1>9. ASSUME NEW w \in Workers, NEW again \in BOOLEAN, MayReport(b, w), again => Retryable(b),
             o.todo = <<Failed(w, again)>>
      PROVE  [Ledger!Next]_fold
  <2>1. e = Failed(w, again)
    BY <1>7, <1>9
  <2>2. e.type = "failed"
    BY <2>1 DEF Failed, Plain
  <2>3. CASE Active(f)
    <3>1. Ledger!Owns(w, j)
      BY <1>1, <1>2, <1>7, <1>9, <2>3, ReporterOwns, SameGuards DEF Ledger!Owns
    <3>2. again => f.attempt < MaxAttempts
      BY <1>1, <1>2, <1>9, FollowsFields DEF Retryable
    <3>3. Ledger!Apply(j, Ledger!Failed(w, again))
      BY <1>5, <2>1, SameEvents
    <3>4. Ledger!Fail(w, j, again)
      BY <1>7, <3>1, <3>2, <3>3 DEF Ledger!Fail
    <3> QED
      BY <1>1, <3>4 DEF Ledger!Next
  <2>4. CASE ~Active(f)
    <3>1. Reduce(f, e) = f
      BY <2>2, <2>4 DEF Reduce, Applies
    <3> QED
      BY <1>6, <3>1
  <2> QED
    BY <2>3, <2>4
<1>10. ASSUME LeasePast(b), o.todo = <<Expired(Retryable(b))>> PROVE [Ledger!Next]_fold
  <2>1. Active(f) /\ f.lease = "past" /\ b.attempt = f.attempt
    BY <1>1, <1>2, <1>10, FollowsFields DEF LeasePast
  <2>2. Retryable(b) = (f.attempt < MaxAttempts)
    BY <2>1 DEF Retryable
  <2>3. e = Expired(f.attempt < MaxAttempts)
    BY <1>7, <1>10, <2>2
  <2>4. Ledger!Apply(j, Ledger!Expired(f.attempt < MaxAttempts))
    BY <1>5, <2>3, SameEvents
  <2>5. Ledger!LeasePast(f)
    BY <2>1, SameGuards DEF LeasePast
  <2>6. Ledger!Expire(j)
    BY <1>7, <2>4, <2>5 DEF Ledger!Expire
  <2> QED
    BY <1>1, <2>6 DEF Ledger!Next
<1>11. ASSUME b.status = "queued", ~b.abort, o.worker \in Workers,
              o.todo = <<Leased(o.worker, b.attempt + 1)>>
       PROVE  [Ledger!Next]_fold
  <2>1. b = f
    BY <1>1, <1>2, <1>11, FollowsFields DEF Active
  <2>2. e = Leased(o.worker, f.attempt + 1)
    BY <1>7, <1>11, <2>1
  <2>3. Ledger!Apply(j, Ledger!Leased(o.worker, f.attempt + 1))
    BY <1>5, <2>2, SameEvents
  <2>4. Ledger!ShouldQueue(f)
    BY <1>11, <2>1, SameGuards DEF ShouldQueue
  <2>5. Ledger!Lease(o.worker, j)
    BY <1>7, <2>3, <2>4 DEF Ledger!Lease
  <2> QED
    BY <1>1, <1>11, <2>5 DEF Ledger!Next
<1>12. ASSUME o.todo = <<Plain("canceled")>> PROVE [Ledger!Next]_fold
  <2>1. e = Plain("canceled") /\ e.type = "canceled"
    BY <1>7, <1>12 DEF Plain
  <2>2. CASE ~Terminal(f)
    <3>1. Ledger!Apply(j, Ledger!Plain("canceled"))
      BY <1>5, <2>1, SameEvents
    <3>2. Ledger!Cancel(j)
      BY <1>4, <1>7, <2>1, <2>2, <3>1, SameGuards DEF Ledger!Cancel
    <3> QED
      BY <1>1, <3>2 DEF Ledger!Next
  <2>3. CASE Terminal(f)
    <3>1. Reduce(f, e) = f
      BY <2>1, <2>3 DEF Reduce, Applies
    <3> QED
      BY <1>6, <3>1
  <2> QED
    BY <2>2, <2>3
<1>13. ASSUME o.todo = <<Plain("enqueued")>> PROVE [Ledger!Next]_fold
  <2>1. e = Plain("enqueued") /\ e.type = "enqueued"
    BY <1>7, <1>13 DEF Plain
  <2>2. Ledger!Apply(j, Ledger!Plain("enqueued"))
    BY <1>5, <2>1, SameEvents
  <2>3. Ledger!Enqueue(j)
    BY <1>4, <1>7, <2>1, <2>2, SameGuards DEF Ledger!Enqueue
  <2> QED
    BY <1>1, <2>3 DEF Ledger!Next
<1>14. ASSUME NEW c \in Cmds, Told(o, c) PROVE [Ledger!Next]_fold
  <2>1. e = Command("command", c) /\ e.type = "command"
    BY <1>7, <1>14, ToldEvent DEF Told
  <2>2. Ledger!Apply(j, Ledger!Command("command", c))
    BY <1>5, <2>1, SameEvents
  <2>3. Ledger!Tell(j, c)
    BY <1>4, <1>7, <2>1, <2>2, SameGuards DEF Ledger!Tell
  <2> QED
    BY <1>1, <2>3 DEF Ledger!Next
<1>15. ASSUME NEW c \in Cmds, o.todo = <<Command("consumed", c)>> PROVE [Ledger!Next]_fold
  <2>1. e = Command("consumed", c) /\ e.type = "consumed" /\ e.cmds = {c}
    BY <1>7, <1>15, ConsumesEvent
  <2>2. CASE c \in f.open
    <3>1. Ledger!Apply(j, Ledger!Command("consumed", c))
      BY <1>5, <2>1, SameEvents
    <3>2. Ledger!Consume(j, c)
      BY <1>7, <2>2, <3>1 DEF Ledger!Consume
    <3> QED
      BY <1>1, <3>2 DEF Ledger!Next
  <2>3. CASE c \notin f.open
    <3>1. Reduce(f, e) = [f EXCEPT !.open = f.open \ {c}]
      BY <2>1 DEF Reduce, Applies, Effect
    <3>2. f.open \ {c} = f.open
      BY <2>3
    <3>3. [f EXCEPT !.open = f.open] = f
      BY <1>1 DEF Job
    <3> QED
      BY <1>6, <3>1, <3>2, <3>3
  <2> QED
    BY <2>2, <2>3
<1>16. ASSUME Offered(o, b) PROVE [Ledger!Next]_fold
  BY <1>8, <1>9, <1>10, <1>11, <1>12, <1>13, <1>16 DEF Offered
<1> QED
  BY <1>3, <1>14, <1>15, <1>16 DEF Consumes

(* Every step, until the store first throws, is a step of the ledger. *)
LEMMA LedgerStep ==
  ASSUME OneQueue, Targeted = {}, QInv, FollowInv, [Next]_vars, faults' = 0
  PROVE  [Ledger!Next]_fold
<1>1. Passes \/ TimePasses \/ \E p \in Procs : Effects(p)
  BY OneStep DEF QInv, NoSyncs
<1>2. CASE Passes
  BY <1>2 DEF Passes
<1>3. CASE TimePasses
  <2>1. fold' = [j \in Jobs |-> Ledger!Age(fold[j])]
    BY <1>3, SameReducer DEF TimePasses
  <2>2. Ledger!TimePasses
    BY <2>1 DEF Ledger!TimePasses
  <2> QED
    BY <2>2 DEF Ledger!Next
<1>4. ASSUME NEW p \in Procs, Effects(p) PROVE [Ledger!Next]_fold
  <2>1. CASE Emit(p)
    <3>1. faults = 0
      BY <2>1 DEF Emit
    <3> QED
      BY <2>1, <3>1, LedgerEmit DEF QInv
  <2>2. CASE ~Emit(p)
    BY <1>4, <2>2 DEF Effects, Rests, Hands, Offers, Tells, Takes, Drain, DrainDone,
        ReadState, WriteRow
  <2> QED
    BY <2>1, <2>2
<1> QED
  BY <1>1, <1>2, <1>3, <1>4

(* Until the store first throws, one queue whose workers take jobs by       *)
(* leaseNext is the ledger: each operation takes effect in the one append   *)
(* of its event, and its guard, taken on the copy, holds of the stream.     *)
(* leaseJob asks for less than the ledger: it leases a queued job that was  *)
(* told to abort.                                                          *)
THEOREM IsLedger ==
  ASSUME OneQueue, Targeted = {}
  PROVE  Spec => ImplementsLedger
<1>1. Init => QInv /\ FollowInv
  BY NearInit, FollowInit
<1>2. QInv /\ FollowInv /\ [Next]_vars => (QInv /\ FollowInv)'
  BY NearNext, FollowNext
<1>3. QInv /\ FollowInv /\ [Next]_vars => [faults' = 0 => [Ledger!Next]_fold]_vars
  BY LedgerStep
<1>4. Init => Ledger!Init
  BY DEF Init, Ledger!Init, Ledger!NoJob, NoJob
<1> QED
  BY <1>1, <1>2, <1>3, <1>4, PTL DEF Spec, ImplementsLedger
=============================================================================
