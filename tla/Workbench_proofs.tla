-------------------------- MODULE Workbench_proofs --------------------------
(***************************************************************************)
(* That an island never goes backwards, for any pages and any bounds.      *)
(*                                                                         *)
(* The versions the server answers with only grow.  A request starts from  *)
(* what the island shows, so its answer is no older than that; and it is   *)
(* applied only if the island shows the same still.                        *)
(***************************************************************************)
EXTENDS Workbench, TLAPS

(* The board carries no session version: it is 0 in everything it shows.   *)
Blind(s) == target = "background" => s.seen["session"] = 0

AtMost(u, v) == \A d \in Docs : u[d] <= v[d]

ServerInv == AtMost(served, world)
ShownInv == AtMost(applied.seen, served) /\ Blind(applied)
FetchInv == \A f \in fetches :
  /\ AtMost(f.base.seen, f.got.seen) /\ AtMost(f.got.seen, served)
  /\ Blind(f.base) /\ Blind(f.got)
IInv == WorkbenchTypeOK /\ ServerInv /\ ShownInv /\ FetchInv

-----------------------------------------------------------------------------
(* What the server answers lies between what it answered last and the      *)
(* newest version.                                                         *)
LEMMA AnswerGrows ==
  ASSUME world \in Versions, served \in Versions, ServerInv, NEW old \in SUBSET Docs
  PROVE  Answer(old) \in Versions /\ AtMost(served, Answer(old)) /\ AtMost(Answer(old), world)
  BY DEF Answer, Versions, ServerInv, AtMost

LEMMA AtMostTransitive ==
  ASSUME NEW u \in Versions, NEW v \in Versions, NEW w \in Versions, AtMost(u, v), AtMost(v, w)
  PROVE  AtMost(u, w)
  BY DEF Versions, AtMost

LEMMA AtMostReflexive ==
  ASSUME NEW u \in Versions
  PROVE  AtMost(u, u)
  BY DEF Versions, AtMost

LEMMA EnvelopeShown ==
  ASSUME target \in Targets, NEW r \in Routes, NEW seen \in Versions
  PROVE  Envelope(r, seen) \in Shown /\ Blind(Envelope(r, seen))
  BY DEF Targets, Routes, Versions, Docs, Envelope, Shown, Blind

(* An envelope keeps the order of what it was made from. *)
LEMMA EnvelopeOrder ==
  ASSUME target \in Targets, NEW r \in Routes, NEW seen \in Versions,
         NEW s \in Shown, Blind(s), AtMost(s.seen, seen)
  PROVE  AtMost(s.seen, Envelope(r, seen).seen)
  BY DEF Targets, Routes, Versions, Docs, Envelope, Shown, Blind, AtMost

LEMMA EnvelopeBelow ==
  ASSUME NEW r \in Routes, NEW seen \in Versions
  PROVE  AtMost(Envelope(r, seen).seen, seen)
  BY DEF Routes, Versions, Docs, Envelope, AtMost

(* A request starts well formed, and from what the island shows. *)
LEMMA StartFits ==
  ASSUME WorkbenchTypeOK, ShownInv, NEW id \in Nat, NEW scope \in Routes, NEW route \in Routes
  PROVE  LET f == Start(id, scope, route) IN
         /\ f \in Fetch
         /\ AtMost(f.base.seen, f.got.seen) /\ AtMost(f.got.seen, served)
         /\ Blind(f.base) /\ Blind(f.got)
<1>1. applied.seen \in Versions
  BY DEF WorkbenchTypeOK, Shown
<1>2. AtMost(applied.seen, applied.seen)
  BY <1>1, AtMostReflexive
<1>3. QED
  BY <1>2 DEF Start, Fetch, WorkbenchTypeOK, ShownInv

-----------------------------------------------------------------------------
LEMMA InitHolds == Init => IInv
<1> SUFFICES ASSUME Init PROVE IInv
  OBVIOUS
<1>1. world \in Versions /\ desired \in Routes /\ target \in Targets
  BY WorkbenchAssumption DEF Init, Versions, Routes
<1>2. applied \in Shown /\ Blind(applied)
  BY <1>1, EnvelopeShown DEF Init
<1>3. AtMost(applied.seen, served)
  BY <1>1, EnvelopeBelow DEF Init
<1>4. WorkbenchTypeOK
  BY <1>1, <1>2 DEF Init, WorkbenchTypeOK, Versions, Fetch
<1>5. ServerInv
  BY DEF Init, ServerInv, AtMost
<1>6. QED
  BY <1>2, <1>3, <1>4, <1>5 DEF Init, IInv, ShownInv, FetchInv

(* What a step that asks, answers and applies nothing has to show. *)
LEMMA ShownKept ==
  ASSUME IInv, fetches' \subseteq fetches, UNCHANGED <<served, target, applied>>,
         AtMost(served, world')
  PROVE  ServerInv' /\ ShownInv' /\ FetchInv'
  BY DEF IInv, ServerInv, ShownInv, FetchInv, AtMost, Blind

LEMMA ChangeKeeps ==
  ASSUME IInv, NEW d \in Docs, Change(d)
  PROVE  IInv'
<1>1. WorkbenchTypeOK'
  BY DEF IInv, Change, WorkbenchTypeOK, Versions, Topics, Missed, runner
<1>2. AtMost(served, world')
  BY DEF IInv, WorkbenchTypeOK, ServerInv, Change, AtMost, Versions
<1>3. QED
  BY <1>1, <1>2, ShownKept DEF IInv, Change

LEMMA OthersReadKeeps ==
  ASSUME IInv, NEW old \in SUBSET Docs, OthersRead(old)
  PROVE  IInv'
<1>1. Answer(old) \in Versions /\ AtMost(served, Answer(old)) /\ AtMost(Answer(old), world)
  BY AnswerGrows DEF IInv, WorkbenchTypeOK
<1>2. WorkbenchTypeOK'
  BY <1>1 DEF IInv, OthersRead, WorkbenchTypeOK, socket, runner
<1>3. \A u \in Versions : AtMost(u, served) => AtMost(u, served')
  BY <1>1, AtMostTransitive DEF IInv, WorkbenchTypeOK, OthersRead
<1>4. applied.seen \in Versions /\ \A f \in fetches : f.got.seen \in Versions
  BY DEF IInv, WorkbenchTypeOK, Shown, Fetch
<1>5. AtMost(served', world')
  BY <1>1 DEF OthersRead
<1>6. QED
  BY <1>2, <1>3, <1>4, <1>5 DEF IInv, ServerInv, ShownInv, FetchInv, OthersRead, Blind, AtMost

LEMMA ServerReadsKeeps ==
  ASSUME IInv, NEW f \in fetches, NEW old \in SUBSET Docs, ServerReads(f, old)
  PROVE  IInv'
<1> DEFINE g == [f EXCEPT !.at = "answered", !.got = Envelope(f.asked, Answer(old))]
<1>1. Answer(old) \in Versions /\ AtMost(served, Answer(old)) /\ AtMost(Answer(old), world)
  BY AnswerGrows DEF IInv, WorkbenchTypeOK
<1>2. f \in Fetch /\ f.asked \in Routes /\ f.base \in Shown /\ f.got \in Shown
  BY DEF IInv, WorkbenchTypeOK, Fetch
<1>3. /\ Envelope(f.asked, Answer(old)) \in Shown /\ Blind(Envelope(f.asked, Answer(old)))
      /\ AtMost(Envelope(f.asked, Answer(old)).seen, Answer(old))
  BY <1>1, <1>2, EnvelopeShown, EnvelopeBelow DEF IInv, WorkbenchTypeOK
<1>4. g \in Fetch /\ g.base = f.base /\ g.got = Envelope(f.asked, Answer(old))
  BY <1>2, <1>3 DEF Fetch
<1>5. \A u \in Versions : AtMost(u, served) => AtMost(u, Answer(old))
  BY <1>1, AtMostTransitive DEF IInv, WorkbenchTypeOK
<1>6. AtMost(f.base.seen, g.got.seen)
  <2>1. f.base.seen \in Versions /\ f.got.seen \in Versions
    BY <1>2 DEF Shown
  <2>2. AtMost(f.base.seen, Answer(old))
    BY <2>1, <1>5, AtMostTransitive DEF IInv, WorkbenchTypeOK, FetchInv
  <2>3. Blind(f.base)
    BY DEF IInv, FetchInv
  <2>4. QED
    BY <1>1, <1>2, <1>4, <2>2, <2>3, EnvelopeOrder DEF IInv, WorkbenchTypeOK
<1>7. fetches' = (fetches \ {f}) \cup {g} /\ served' = Answer(old)
  BY DEF ServerReads
<1>8. WorkbenchTypeOK'
  BY <1>1, <1>4, <1>7 DEF IInv, ServerReads, WorkbenchTypeOK, Missed, socket, runner
<1>9. ServerInv'
  BY <1>1, <1>7 DEF ServerInv, ServerReads, AtMost
<1>10. ShownInv'
  <2>1. applied.seen \in Versions
    BY DEF IInv, WorkbenchTypeOK, Shown
  <2>2. QED
    BY <2>1, <1>5, <1>7 DEF IInv, ShownInv, ServerReads, Blind, AtMost
<1>11. FetchInv'
  <2> SUFFICES ASSUME NEW h \in fetches'
      PROVE  /\ AtMost(h.base.seen, h.got.seen) /\ AtMost(h.got.seen, served')
             /\ Blind(h.base) /\ Blind(h.got)
    BY DEF FetchInv, Blind, ServerReads, AtMost
  <2>1. CASE h = g
    BY <2>1, <1>3, <1>4, <1>6, <1>7 DEF IInv, FetchInv
  <2>2. CASE h # g
    <3>1. h \in fetches /\ h.got.seen \in Versions
      BY <2>2, <1>7 DEF IInv, WorkbenchTypeOK, Fetch, Shown
    <3>2. QED
      BY <3>1, <1>5, <1>7 DEF IInv, FetchInv
  <2>3. QED
    BY <2>1, <2>2
<1>12. QED
  BY <1>8, <1>9, <1>10, <1>11 DEF IInv

-----------------------------------------------------------------------------
LEMMA SocketKeeps ==
  ASSUME IInv, Connect \/ LinkDrops \/ \E d \in Docs : Deliver(d)
  PROVE  IInv'
<1>1. CASE Connect
  <2>1. WorkbenchTypeOK'
    BY <1>1 DEF IInv, Connect, WorkbenchTypeOK, server, runner
  <2>2. QED
    BY <1>1, <2>1, ShownKept DEF IInv, Connect, server, ServerInv
<1>2. CASE LinkDrops
  <2>1. WorkbenchTypeOK'
    BY <1>2 DEF IInv, LinkDrops, Disconnected, FramesLost, Missed, Call, WorkbenchTypeOK, server, runner
  <2>2. QED
    BY <1>2, <2>1, ShownKept DEF IInv, LinkDrops, server, ServerInv
<1>3. CASE \E d \in Docs : Deliver(d)
  <2> PICK d \in Docs : Deliver(d)
    BY <1>3
  <2>1. frames' \in [Docs -> Nat]
    BY DEF IInv, WorkbenchTypeOK, Deliver
  <2>2. WorkbenchTypeOK'
    BY <2>1 DEF IInv, Deliver, WorkbenchTypeOK, server
  <2>3. QED
    BY <2>2, ShownKept DEF IInv, Deliver, server, ServerInv
<1>4. QED
  BY <1>1, <1>2, <1>3

(* Requests that start beside others that are kept. *)
LEMMA StartedKeeps ==
  ASSUME IInv, WorkbenchTypeOK', UNCHANGED <<server, target, applied>>,
         NEW id \in Nat, NEW scope \in Routes, NEW route \in Routes,
         fetches' \subseteq fetches \cup {Start(id, scope, route)}
  PROVE  IInv'
<1>1. ServerInv' /\ ShownInv'
  BY DEF IInv, server, ServerInv, ShownInv, AtMost, Blind
<1>2. FetchInv'
  <2> SUFFICES ASSUME NEW h \in fetches'
      PROVE  /\ AtMost(h.base.seen, h.got.seen) /\ AtMost(h.got.seen, served)
             /\ Blind(h.base) /\ Blind(h.got)
    BY DEF FetchInv, Blind, server, AtMost
  <2>1. CASE h \in fetches
    BY <2>1 DEF IInv, FetchInv
  <2>2. CASE h = Start(id, scope, route)
    BY <2>2, StartFits DEF IInv
  <2>3. QED
    BY <2>1, <2>2
<1>3. QED
  BY <1>1, <1>2 DEF IInv

LEMMA OverTyped ==
  ASSUME WorkbenchTypeOK, NEW done, Over(done)
  PROVE  timer' \in Routes \cup {None} /\ queued' \in Routes \cup {None}
  BY DEF Over, WorkbenchTypeOK, runner

LEMMA FireKeeps ==
  ASSUME IInv, Fire
  PROVE  IInv'
<1>1. timer \in Routes /\ desired \in Routes /\ Live \in Nat
  BY DEF IInv, WorkbenchTypeOK, Fire, Live
<1>2. Start(Live, timer, desired) \in Fetch
  BY <1>1, StartFits DEF IInv
<1>3. WorkbenchTypeOK'
  BY <1>1, <1>2 DEF IInv, Fire, WorkbenchTypeOK, server, socket
<1>4. UNCHANGED <<server, target, applied>> /\ fetches' \subseteq fetches \cup {Start(Live, timer, desired)}
  BY DEF Fire
<1>5. QED
  BY <1>1, <1>3, <1>4, StartedKeeps

LEMMA DropKeeps ==
  ASSUME IInv, NEW f \in fetches, Drop(f) \/ Fails(f)
  PROVE  IInv'
<1>1. timer' \in Routes \cup {None} /\ queued' \in Routes \cup {None}
  BY OverTyped DEF IInv, Drop, Fails, Finish
<1>2. gap' \in {"none", "stale", "page"} /\ calls' \in Nat
  BY DEF IInv, WorkbenchTypeOK, Drop, Fails, Missed, Call
<1>3. WorkbenchTypeOK'
  BY <1>1, <1>2 DEF IInv, WorkbenchTypeOK, Drop, Fails, Finish, server, socket
<1>4. fetches' \subseteq fetches /\ UNCHANGED <<server, target, applied>>
  BY DEF Drop, Fails, Finish
<1>5. QED
  BY <1>3, <1>4, ShownKept DEF IInv, server, ServerInv

LEMMA ApplyKeeps ==
  ASSUME IInv, NEW f \in fetches, Apply(f)
  PROVE  IInv'
<1>1. timer' \in Routes \cup {None} /\ queued' \in Routes \cup {None}
  BY OverTyped DEF IInv, Apply, Finish
<1>2. f \in Fetch /\ f.got \in Shown /\ AtMost(f.got.seen, served) /\ Blind(f.got)
  BY DEF IInv, WorkbenchTypeOK, Fetch, FetchInv
<1>3. WorkbenchTypeOK'
  BY <1>1, <1>2 DEF IInv, WorkbenchTypeOK, Apply, Finish, server, socket
<1>4. fetches' \subseteq fetches /\ UNCHANGED <<server, target>> /\ applied' = f.got
  BY DEF Apply, Finish
<1>5. ServerInv' /\ ShownInv'
  BY <1>2, <1>4 DEF IInv, ServerInv, ShownInv, server, AtMost, Blind
<1>6. FetchInv'
  BY <1>4 DEF IInv, FetchInv, server, AtMost, Blind
<1>7. QED
  BY <1>3, <1>5, <1>6 DEF IInv

LEMMA VisitKeeps ==
  ASSUME IInv, NEW route \in Routes,
         \/ ApplyInlineLocation(route)
         \/ RefreshVisibleWorkbench /\ route = desired
  PROVE  IInv'
<1>1. calls + 1 \in Nat
  BY DEF IInv, WorkbenchTypeOK
<1>2. Start(calls + 1, route, route) \in Fetch
  BY <1>1, StartFits DEF IInv
<1>3. UNCHANGED <<server, target, applied>> /\ calls' = calls + 1 /\ desired' = route
  BY DEF ApplyInlineLocation, RefreshVisibleWorkbench, Call
<1>4. \/ RefreshRouteTargetsNow(route)
      \/ UNCHANGED <<runner, fetches, controller>>
  BY DEF ApplyInlineLocation, RefreshVisibleWorkbench
<1>5. /\ timer' \in Routes \cup {None} /\ queued' \in Routes \cup {None}
      /\ fetches' \subseteq fetches \cup {Start(calls + 1, route, route)}
      /\ controller' \in Nat \cup {None}
  <2>1. CASE RefreshRouteTargetsNow(route)
    BY <1>1, <2>1, OverTyped DEF IInv, RefreshRouteTargetsNow
  <2>2. CASE UNCHANGED <<runner, fetches, controller>>
    BY <2>2 DEF IInv, WorkbenchTypeOK, runner
  <2>3. QED
    BY <1>4, <2>1, <2>2
<1>6. link' \in {"down", "up"} /\ frames' \in [Docs -> Nat] /\ gap' \in {"none", "stale", "page"}
  BY DEF IInv, WorkbenchTypeOK, ApplyInlineLocation, RefreshVisibleWorkbench,
         Disconnected, FramesLost, Missed, socket
<1>7. WorkbenchTypeOK'
  BY <1>1, <1>2, <1>3, <1>5, <1>6 DEF IInv, WorkbenchTypeOK, server
<1>8. QED
  BY <1>1, <1>3, <1>5, <1>7, StartedKeeps

-----------------------------------------------------------------------------
LEMMA NextHolds ==
  ASSUME IInv, [Next]_vars
  PROVE  IInv'
<1>1. CASE Next
  <2>1. CASE Inside
    <3>1. CASE Connect \/ \E d \in Docs : Deliver(d)
      BY <3>1, SocketKeeps
    <3>2. CASE Fire
      BY <3>2, FireKeeps
    <3>3. CASE \E f \in fetches : Apply(f) \/ Drop(f)
      BY <3>3, ApplyKeeps, DropKeeps
    <3>4. CASE \E f \in fetches : \E old \in SUBSET Docs : ServerReads(f, old)
      BY <3>4, ServerReadsKeeps
    <3>5. QED
      BY <2>1, <3>1, <3>2, <3>3, <3>4 DEF Inside
  <2>2. CASE Outside
    <3>1. CASE \E d \in Docs : Change(d)
      BY <3>1, ChangeKeeps
    <3>2. CASE \E old \in SUBSET Docs : OthersRead(old)
      BY <3>2, OthersReadKeeps
    <3>3. CASE LinkDrops
      BY <3>3, SocketKeeps
    <3>4. CASE \E f \in fetches : Fails(f)
      BY <3>4, DropKeeps
    <3>5. CASE \E route \in Routes : ApplyInlineLocation(route)
      BY <3>5, VisitKeeps
    <3>6. CASE RefreshVisibleWorkbench
      BY <3>6, VisitKeeps DEF IInv, WorkbenchTypeOK
    <3>7. QED
      BY <2>2, <3>1, <3>2, <3>3, <3>4, <3>5, <3>6 DEF Outside
  <2>3. QED
    BY <1>1, <2>1, <2>2 DEF Next
<1>2. CASE UNCHANGED vars
  BY <1>2 DEF vars, server, socket, runner, IInv, WorkbenchTypeOK, ServerInv, ShownInv, FetchInv,
              AtMost, Blind
<1>3. QED
  BY <1>1, <1>2

LEMMA Invariance == Spec => []IInv
<1>1. IInv /\ [Next]_vars => IInv'
  BY NextHolds
<1>2. QED
  BY InitHolds, <1>1, PTL DEF Spec

(* Every variable of the workbench keeps its type, for any pages.          *)
THEOREM TypeCorrect == Spec => []WorkbenchTypeOK
<1>1. IInv => WorkbenchTypeOK
  BY DEF IInv
<1>2. QED
  BY Invariance, <1>1, PTL

(* An island changes by a response that is applied, and then it shows what *)
(* the request started from.                                               *)
LEMMA StepForwards ==
  ASSUME IInv, [Next]_vars
  PROVE  [\A d \in Docs : applied'.seen[d] >= applied.seen[d]]_applied
<1> SUFFICES ASSUME applied' # applied, NEW d \in Docs
    PROVE  applied'.seen[d] >= applied.seen[d]
  OBVIOUS
<1>1. PICK f \in fetches : Apply(f)
  BY DEF Next, Inside, Outside, vars, Connect, Fire, Deliver, Drop, ServerReads, Change, OthersRead,
         LinkDrops, Fails, ApplyInlineLocation, RefreshVisibleWorkbench
<1>2. applied' = f.got /\ applied = f.base
  BY <1>1 DEF Apply, ShouldApplyEnvelope
<1>3. f.base.seen[d] <= f.got.seen[d]
  BY DEF IInv, FetchInv, AtMost
<1>4. f.base.seen[d] \in Nat /\ f.got.seen[d] \in Nat
  BY DEF IInv, WorkbenchTypeOK, Fetch, Shown, Versions
<1>5. QED
  BY <1>2, <1>3, <1>4

(* The property of src/client/factory-client/workbench.ts that the check   *)
(* of the baseline in shouldApplyEnvelope is for: whatever the order of    *)
(* the responses, an island never shows an older version than before.      *)
THEOREM NoWayBack == Spec => NeverBackwards
<1>1. IInv /\ [Next]_vars => [\A d \in Docs : applied'.seen[d] >= applied.seen[d]]_applied
  BY StepForwards
<1>2. QED
  BY Invariance, <1>1, PTL DEF Spec, NeverBackwards
=============================================================================
