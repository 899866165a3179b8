-------------------------- MODULE DurableActivity ---------------------------
(***************************************************************************)
(* runDurableActivity of packages/durable/src/local.ts: a call looks for   *)
(* an outcome in the row of its activity, then for a result the work left  *)
(* behind (recover), and only then runs the work.  Every helper is one     *)
(* SQLite transaction; processes and crashes fall between them.            *)
(*                                                                         *)
(* An output is named by the call whose work produced it.  Heartbeats and  *)
(* checkpoints write timestamps, metadata and evidence that no decision of *)
(* this code reads, and are left out.                                      *)
(***************************************************************************)
EXTENDS Naturals, Sequences

CONSTANTS
  Keys,     \* activities
  Calls,    \* calls of runDurableActivity, each made once
  Key(_),   \* the activity of a call
  NoCall

VARIABLES
  rows,      \* durable_activity
  attempts,  \* durable_activity_attempt: the status of each attempt
  calls,     \* where each call is
  files      \* the result the work left behind for recover

activityVars == <<rows, attempts, calls, files>>

Row == [status : {"none", "running", "completed", "failed"},
        attempts : Nat, output : Calls \cup {NoCall}]
NoRow == [status |-> "none", attempts |-> 0, output |-> NoCall]

Call == [at : {"idle", "recover", "record", "begin", "work", "returned", "stamp",
               "threw", "stampThrow", "done", "recovered", "failed", "lost"},
         output : Calls \cup {NoCall},
         stamp : Nat]
NoCallYet == [at |-> "idle", output |-> NoCall, stamp |-> 0]

Gone == [NoCallYet EXCEPT !.at = "lost"]

ActivityInit ==
  /\ rows = [k \in Keys |-> NoRow]
  /\ attempts = [k \in Keys |-> <<>>]
  /\ calls = [c \in Calls |-> NoCallYet]
  /\ files = [k \in Keys |-> NoCall]

In(c, at) == calls[c].at = at
Move(c, at) == calls' = [calls EXCEPT ![c].at = at]
MoveWith(c, at, output) ==
  calls' = [calls EXCEPT ![c] = [@ EXCEPT !.at = at, !.output = output]]

-----------------------------------------------------------------------------
Cached(row) == row.status = "completed" /\ row.output # NoCall

(* Mutant: the outcome of an earlier call is not looked for. *)
LookupBlind(c) == In(c, "idle") /\ Move(c, "begin") /\ UNCHANGED <<rows, attempts, files>>

(* The outcome of an earlier call is returned as it is. *)
Lookup(c) ==
  /\ In(c, "idle")
  /\ IF Cached(rows[Key(c)]) THEN MoveWith(c, "done", rows[Key(c)].output)
                             ELSE Move(c, "recover")
  /\ UNCHANGED <<rows, attempts, files>>

(* Mutant: what the work left behind is not looked for. *)
RecoverBlind(c) == In(c, "recover") /\ Move(c, "begin") /\ UNCHANGED <<rows, attempts, files>>

Recover(c) ==
  /\ In(c, "recover")
  /\ IF files[Key(c)] # NoCall THEN MoveWith(c, "record", files[Key(c)]) ELSE Move(c, "begin")
  /\ UNCHANGED <<rows, attempts, files>>

(* completeActivityRow, and the insert for an activity without a row.      *)
Completed(row, output) == [row EXCEPT !.status = "completed", !.output = output]

RecordRecovered(c) ==
  /\ In(c, "record")
  /\ rows' = [rows EXCEPT ![Key(c)] = Completed(@, calls[c].output)]
  /\ Move(c, "recovered")
  /\ UNCHANGED <<attempts, files>>

(* Another call may have completed the row since Lookup: it is reset.      *)
Begin(c) ==
  LET n == rows[Key(c)].attempts + 1 IN
  /\ In(c, "begin")
  /\ rows' = [rows EXCEPT ![Key(c)] =
                [status |-> "running", attempts |-> n, output |-> NoCall]]
  /\ attempts' = [attempts EXCEPT ![Key(c)] = Append(@, "running")]
  /\ Move(c, "work")
  /\ UNCHANGED files

(* The work leaves its result behind before it returns. *)
Persist(c) ==
  /\ In(c, "work")
  /\ files' = [files EXCEPT ![Key(c)] = c]
  /\ UNCHANGED <<rows, attempts, calls>>

Returns(c) ==
  /\ In(c, "work")
  /\ MoveWith(c, "returned", c)
  /\ UNCHANGED <<rows, attempts, files>>

Throws(c) ==
  /\ In(c, "work")
  /\ Move(c, "threw")
  /\ UNCHANGED <<rows, attempts, files>>

(* The end of the work: the attempt to stamp is that of the row, which may *)
(* be another call's by now; then the row gets the outcome.                *)
MoveStamped(c, at) ==
  calls' = [calls EXCEPT ![c] = [@ EXCEPT !.at = at, !.stamp = rows[Key(c)].attempts]]

Complete(c) ==
  /\ In(c, "returned")
  /\ rows' = [rows EXCEPT ![Key(c)] = Completed(@, calls[c].output)]
  /\ MoveStamped(c, "stamp")
  /\ UNCHANGED <<attempts, files>>

Fail(c) ==
  /\ In(c, "threw")
  /\ rows' = [rows EXCEPT ![Key(c)].status = "failed"]
  /\ MoveStamped(c, "stampThrow")
  /\ UNCHANGED <<attempts, files>>

Stamp(c) ==
  /\ In(c, "stamp") \/ In(c, "stampThrow")
  /\ attempts' = [attempts EXCEPT ![Key(c)][calls[c].stamp] =
                    IF In(c, "stamp") THEN "completed" ELSE "failed"]
  /\ Move(c, IF In(c, "stamp") THEN "done" ELSE "failed")
  /\ UNCHANGED <<rows, files>>

ActivityStep(c) ==
  Lookup(c) \/ Recover(c) \/ RecordRecovered(c) \/ Begin(c) \/ Persist(c) \/ Returns(c)
    \/ Throws(c) \/ Complete(c) \/ Fail(c) \/ Stamp(c)

Dies(c) == calls' = [calls EXCEPT ![c] = Gone] /\ UNCHANGED <<rows, attempts, files>>

ActivityNext == \E c \in Calls : ActivityStep(c) \/ Dies(c)

ActivitySpec == ActivityInit /\ [][ActivityNext]_activityVars

ActivityTypeOK ==
  /\ rows \in [Keys -> Row]
  /\ attempts \in [Keys -> Seq({"running", "completed", "failed"})]
  /\ calls \in [Calls -> Call]
  /\ files \in [Keys -> Calls \cup {NoCall}]
=============================================================================
