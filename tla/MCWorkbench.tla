---------------------------- MODULE MCWorkbench ----------------------------
(* Instances of Workbench. *)
EXTENDS Workbench

CONSTANTS p1, p2
=============================================================================
