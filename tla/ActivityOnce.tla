---------------------------- MODULE ActivityOnce ----------------------------
(***************************************************************************)
(* What a durable activity promises: attempts are made until one of them   *)
(* has an outcome, and that outcome stands.                                *)
(***************************************************************************)
EXTENDS Naturals

CONSTANTS Keys, Outputs, NoOutput

VARIABLES tries, outcome

vars == <<tries, outcome>>

Init ==
  /\ tries = [k \in Keys |-> 0]
  /\ outcome = [k \in Keys |-> NoOutput]

Open(k) == outcome[k] = NoOutput

Try(k) ==
  /\ Open(k)
  /\ tries' = [tries EXCEPT ![k] = @ + 1]
  /\ UNCHANGED outcome

Decide(k) ==
  /\ Open(k) /\ tries[k] > 0
  /\ \E output \in Outputs : outcome' = [outcome EXCEPT ![k] = output]
  /\ UNCHANGED tries

Next == \E k \in Keys : Try(k) \/ Decide(k)

Spec == Init /\ [][Next]_vars
=============================================================================
