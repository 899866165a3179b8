----------------------------- MODULE JobRecord ------------------------------
(***************************************************************************)
(* src/modules/job.ts: one job as the fold of the receipts of its stream   *)
(* jobs/<id>.  The reducer is the only authority over a job: every guard   *)
(* of the queue is advice, taken on state that may be stale when the event *)
(* is finally appended.                                                    *)
(*                                                                         *)
(* Time is abstract: a lease is "live" until its deadline and "past" from  *)
(* then on; payloads, results, errors, lanes and timestamps are left out.  *)
(***************************************************************************)
EXTENDS Naturals

CONSTANTS
  Workers,   \* workerIds
  None,      \* workerId undefined
  Cmds,      \* command ids (UUIDs: each is issued once)
  AbortCmds  \* those whose command is "abort"; the others steer

ASSUME RecordAssumption ==
  /\ None \notin Workers
  /\ AbortCmds \subseteq Cmds

Statuses == {"none", "queued", "leased", "running", "completed", "failed", "canceled"}
Leases == {"none", "live", "past"}

(* open: the commands without a consumedAt. *)
Job == [status : Statuses, attempt : Nat, worker : Workers \cup {None},
        lease : Leases, abort : BOOLEAN, open : SUBSET Cmds]

(* state.jobs[id] is undefined. *)
NoJob == [status |-> "none", attempt |-> 0, worker |-> None,
          lease |-> "none", abort |-> FALSE, open |-> {}]

Exists(r) == r.status # "none"
Active(r) == r.status \in {"leased", "running"}
Terminal(r) == r.status \in {"completed", "failed", "canceled"}

(* What the queue asks of a record before it leases or expires it.         *)
ShouldQueue(r) == r.status = "queued" /\ ~r.abort

(* Mutants: a lease expires before its deadline, or never while running.   *)
LeaseEarly(r) == Active(r)
LeasePastUnbeaten(r) == r.status = "leased" /\ r.lease = "past"
LeasePast(r) == Active(r) /\ r.lease = "past"
OwnedBy(r, w, n) == Active(r) /\ r.worker = w /\ r.attempt = n

-----------------------------------------------------------------------------
(* The events.  retry stands for willRetry.                                *)
Event == [type : {"enqueued", "leased", "heartbeat", "progress", "completed", "failed",
                  "canceled", "command", "consumed", "lease_expired"},
          worker : Workers \cup {None}, attempt : Nat, retry : BOOLEAN,
          cmds : SUBSET Cmds]

Plain(type) == [type |-> type, worker |-> None, attempt |-> 0, retry |-> FALSE, cmds |-> {}]
By(type, w) == [Plain(type) EXCEPT !.worker = w]
Leased(w, n) == [Plain("leased") EXCEPT !.worker = w, !.attempt = n]
Failed(w, again) == [Plain("failed") EXCEPT !.worker = w, !.retry = again]
Expired(again) == [Plain("lease_expired") EXCEPT !.retry = again]
Command(type, c) == [Plain(type) EXCEPT !.cmds = {c}]

(* Mutant: a job out of attempts gets a status nothing else knows. *)
ReleaseToExpired(r, again, w) ==
  [r EXCEPT !.status = IF again THEN "queued" ELSE "expired", !.lease = "none", !.worker = w]

(* A lease the worker lost: failed keeps the workerId, expiry clears it.   *)
Release(r, again, w) ==
  [r EXCEPT !.status = IF again THEN "queued" ELSE "failed", !.lease = "none", !.worker = w]

(* Mutants: the cancel case without its status test; consumed commands     *)
(* stay open.                                                              *)
AppliesOverTerminal(r, e) ==
  \/ e.type \in {"enqueued", "command", "consumed", "canceled"}
  \/ e.type = "leased" /\ r.status = "queued"
  \/ e.type \in {"heartbeat", "progress", "completed", "failed", "lease_expired"} /\ Active(r)

AppliesNotConsumed(r, e) ==
  \/ e.type \in {"enqueued", "command"}
  \/ e.type = "leased" /\ r.status = "queued"
  \/ e.type \in {"heartbeat", "progress", "completed", "failed", "lease_expired"} /\ Active(r)
  \/ e.type = "canceled" /\ ~Terminal(r)

(* The events the reducer heeds.  Any other stays in the stream and changes *)
(* nothing.  Only the status is looked at, never who holds the lease.  On a *)
(* job it does not know it throws instead, unless the event is "enqueued";  *)
(* EventsFit of JobQueue says that this is never so.                        *)
Applies(r, e) ==
  \/ e.type \in {"enqueued", "command", "consumed"}
  \/ e.type = "leased" /\ r.status = "queued"
  \/ e.type \in {"heartbeat", "progress", "completed", "failed", "lease_expired"} /\ Active(r)
  \/ e.type = "canceled" /\ ~Terminal(r)

Effect(r, e) ==
  CASE e.type = "enqueued" -> [NoJob EXCEPT !.status = "queued"]
    [] e.type = "leased" -> [r EXCEPT !.status = "leased", !.attempt = e.attempt,
                                      !.worker = e.worker, !.lease = "live"]
    [] e.type = "heartbeat" -> [r EXCEPT !.status = "running", !.worker = e.worker,
                                         !.lease = "live"]
    [] e.type = "progress" -> [r EXCEPT !.status = "running", !.worker = e.worker]
    [] e.type = "completed" -> [r EXCEPT !.status = "completed", !.worker = e.worker,
                                         !.lease = "none"]
    [] e.type = "failed" -> Release(r, e.retry, e.worker)
    [] e.type = "lease_expired" -> Release(r, e.retry, None)
    [] e.type = "canceled" -> [r EXCEPT !.status = "canceled", !.lease = "none",
                                        !.abort = TRUE]
    [] e.type = "command" -> [r EXCEPT !.abort = @ \/ e.cmds \subseteq AbortCmds,
                                       !.open = @ \cup e.cmds]
    [] e.type = "consumed" -> [r EXCEPT !.open = @ \ e.cmds]

Reduce(r, e) == IF Applies(r, e) THEN Effect(r, e) ELSE r

(* A lease deadline passes. *)
Age(r) == IF r.lease = "live" THEN [r EXCEPT !.lease = "past"] ELSE r
=============================================================================
