-------------------------- MODULE MCObjectiveControl ------------------------
(* Instances of ObjectiveControl for TLC. *)
EXTENDS ObjectiveControl

CONSTANTS c1, c2, w1, w2, boot
=============================================================================
