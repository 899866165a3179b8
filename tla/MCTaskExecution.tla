-------------------------- MODULE MCTaskExecution ---------------------------
(* Instances of TaskExecution for TLC. *)
EXTENDS TaskExecution

CONSTANTS w1, w2, j1, j2

(* The two workers are alike until one of them leases the job.  The one    *)
(* that is first is called w1: every behaviour without this constraint is  *)
(* one with it, but for the names.                                         *)
FirstIsW1 == runs[<<j1, 1>>].worker # w2
=============================================================================
