-------------------------- MODULE JobRecord_proofs --------------------------
(***************************************************************************)
(* Lemmas about the reducer of JobRecord, for the proofs about the modules *)
(* that keep jobs in a ledger.                                             *)
(***************************************************************************)
EXTENDS JobRecord, TLAPS

(* The record of an absent job is a job record. *)
LEMMA NoJobType == NoJob \in Job
  BY DEF NoJob, Job, Statuses, Leases

(* A deadline that passes leaves a job record. *)
LEMMA AgeType == ASSUME NEW r \in Job PROVE Age(r) \in Job
  BY DEF Age, Job, Leases

(* The events that are emitted are events of the reducer. *)
LEMMA EventTypes ==
  /\ \A w \in Workers \cup {None} :
       /\ By("heartbeat", w) \in Event
       /\ By("progress", w) \in Event
       /\ By("completed", w) \in Event
       /\ \A again \in BOOLEAN : Failed(w, again) \in Event
  /\ \A w \in Workers \cup {None}, n \in Nat : Leased(w, n) \in Event
  /\ \A again \in BOOLEAN : Expired(again) \in Event
  /\ \A c \in Cmds : Command("command", c) \in Event /\ Command("consumed", c) \in Event
  /\ Plain("canceled") \in Event
  /\ Plain("enqueued") \in Event
  BY DEF By, Failed, Leased, Expired, Command, Plain, Event

(* The reducer maps job records to job records. *)
LEMMA ReduceType ==
  ASSUME NEW r \in Job, NEW e \in Event
  PROVE  Reduce(r, e) \in Job
<1>1. CASE ~Applies(r, e)
  BY <1>1 DEF Reduce
<1>2. ASSUME Applies(r, e) PROVE Effect(r, e) \in Job
  <2>1. /\ e.worker \in Workers \cup {None}
        /\ e.attempt \in Nat
        /\ e.retry \in BOOLEAN
        /\ e.cmds \in SUBSET Cmds
    BY DEF Event
  <2>2. CASE e.type = "enqueued"
    <3>1. [NoJob EXCEPT !.status = "queued"] \in Job
      BY NoJobType DEF Job, Statuses
    <3> QED
      BY <2>2, <3>1 DEF Effect
  <2>3. CASE e.type = "leased"
    BY <2>1, <2>3 DEF Effect, Job, Statuses, Leases
  <2>4. CASE e.type = "heartbeat"
    BY <2>1, <2>4 DEF Effect, Job, Statuses, Leases
  <2>5. CASE e.type = "progress"
    BY <2>1, <2>5 DEF Effect, Job, Statuses, Leases
  <2>6. CASE e.type = "completed"
    BY <2>1, <2>6 DEF Effect, Job, Statuses, Leases
  <2>7. CASE e.type = "failed"
    BY <2>1, <2>7 DEF Effect, Release, Job, Statuses, Leases
  <2>8. CASE e.type = "lease_expired"
    BY <2>1, <2>8 DEF Effect, Release, Job, Statuses, Leases
  <2>9. CASE e.type = "canceled"
    BY <2>1, <2>9 DEF Effect, Job, Statuses, Leases
  <2>10. CASE e.type = "command"
    <3>1. (r.abort \/ e.cmds \subseteq AbortCmds) \in BOOLEAN
      OBVIOUS
    <3>2. r.open \cup e.cmds \in SUBSET Cmds
      BY <2>1 DEF Job
    <3> QED
      BY <2>10, <3>1, <3>2 DEF Effect, Job
  <2>11. CASE e.type = "consumed"
    BY <2>1, <2>11 DEF Effect, Job
  <2> QED
    BY <2>2, <2>3, <2>4, <2>5, <2>6, <2>7, <2>8, <2>9, <2>10, <2>11 DEF Event
<1> QED
  BY <1>1, <1>2 DEF Reduce
=============================================================================
