------------------------ MODULE MCObjectiveDelivery ------------------------
(* Instances of ObjectiveDelivery. *)
EXTENDS ObjectiveDelivery, TLC

CONSTANTS f1, f2

FibreSymmetry == Permutations(Fibres)
=============================================================================
