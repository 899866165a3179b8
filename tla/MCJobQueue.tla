----------------------------- MODULE MCJobQueue -----------------------------
(* Instances of JobQueue for TLC. *)
EXTENDS JobQueue, TLC

CONSTANTS p1, p2, w1, w2, j1, j2, stop, steer

HomeOne == (w1 :> p1) @@ (w2 :> p1)
HomeTwo == (w1 :> p1) @@ (w2 :> p2)
HomeSingle == (w1 :> p1)
AllowOne == (j1 :> "allow")
CancelAndSteer == (j1 :> "cancel") @@ (j2 :> "steer")
=============================================================================
