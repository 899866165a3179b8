---------------------------- MODULE JobLifecycle ----------------------------
(***************************************************************************)
(* The life of a job as every reader of its stream may rely on it: it is   *)
(* enqueued once, alternates between queued and active, finishes once, and *)
(* a request to abort is never taken back.                                 *)
(***************************************************************************)
CONSTANT Jobs

VARIABLE jobs

Phase(j) == jobs[j].phase

Init == jobs = [j \in Jobs |-> [phase |-> "none", abort |-> FALSE]]

Move(j, to) == jobs' = [jobs EXCEPT ![j].phase = to]

Enqueue(j) == Phase(j) = "none" /\ Move(j, "queued")
Lease(j) == Phase(j) = "queued" /\ Move(j, "active")
Requeue(j) == Phase(j) = "active" /\ Move(j, "queued")
Finish(j) == Phase(j) = "active" /\ \E to \in {"completed", "failed"} : Move(j, to)
Cancel(j) == /\ Phase(j) \in {"queued", "active"}
             /\ jobs' = [jobs EXCEPT ![j] = [phase |-> "canceled", abort |-> TRUE]]
Abort(j) == Phase(j) # "none" /\ jobs' = [jobs EXCEPT ![j].abort = TRUE]

Next == \E j \in Jobs :
  Enqueue(j) \/ Lease(j) \/ Requeue(j) \/ Finish(j) \/ Cancel(j) \/ Abort(j)

Spec == Init /\ [][Next]_jobs
=============================================================================
