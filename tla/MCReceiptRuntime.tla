-------------------------- MODULE MCReceiptRuntime --------------------------
(* Instances of ReceiptRuntime for TLC. *)
EXTENDS ReceiptRuntime, TLC

CONSTANTS p1, p2, w1, w2, r1, a, b

(* A writer in each of two processes, and a reader beside the first. *)
HomeTwo == (w1 :> p1) @@ (w2 :> p2) @@ (r1 :> p1)
(* Everything in one process. *)
HomeOne == (w1 :> p1) @@ (w2 :> p1) @@ (r1 :> p1)
HomeWriters == (w1 :> p1) @@ (w2 :> p1)
(* Command a is a batch of two events, b a single event. *)
Batches == (a :> 2) @@ (b :> 1)
Singles == (a :> 1) @@ (b :> 1)
=============================================================================
