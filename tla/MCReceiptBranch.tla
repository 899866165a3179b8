--------------------------- MODULE MCReceiptBranch ---------------------------
(* Instances of ReceiptBranch for TLC: a trunk and two branch names. *)
EXTENDS ReceiptBranch

CONSTANTS cli, server, trunk, left, right
=============================================================================
