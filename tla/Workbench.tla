----------------------------- MODULE Workbench -----------------------------
(***************************************************************************)
(* The factory workbench in a browser: islands of server-rendered HTML,    *)
(* "background" and "chat", refetched when a live event says that what     *)
(* they show has changed, when the user navigates, and when the window     *)
(* gets the focus.  Responses are late, lost and out of order; the server  *)
(* answers from a cache of versions; the websocket comes and goes.         *)
(*                                                                         *)
(* The islands share the route, the websocket and the server's cache, and  *)
(* nothing else: the module follows one of them, and what the other one    *)
(* and other browsers ask for is OthersRead.  A version of a document      *)
(* stands for its content.  Routes differ in the selected objective (page) *)
(* and in the inspector tab.                                               *)
(***************************************************************************)
EXTENDS Naturals

CONSTANTS
  Pages, Home,   \* the objectives one can select, and the one selected at first
  None,
  MaxChanges,    \* bound: changes of the documents
  MaxCalls       \* bound: visits, failures and lost connections

ASSUME WorkbenchAssumption ==
  Home \in Pages /\ MaxChanges \in Nat /\ MaxCalls \in Nat

Docs == {"board", "session"}         \* the objective projection, the chat session
Targets == {"background", "chat"}    \* WorkbenchRefreshTargetKey
Routes == [page : Pages, tab : {"overview", "chat"}]
Versions == [Docs -> Nat]

ASSUME NoneAssumption == None \notin Routes /\ None \notin Nat

VARIABLES
  world,      \* the newest version of each document
  served,     \* the version of each document the server has answered with last
  link,       \* the websocket: "down" or "up"
  frames,     \* per document, event frames on their way to the browser
  desired,    \* workbenchState.desiredRoute
  target,     \* the island
  applied,    \* the envelope of the markup it shows
  timer,      \* liveRefreshRunner: the scope of the refresh its timer will start
  queued,     \* liveRefreshRunner: the scope queued behind the live fetch
  controller, \* refreshControllers: the fetch an abort would reach
  fetches,    \* its requests that were neither applied, dropped nor aborted
  calls,      \* how many of the bounded calls have happened
  gap         \* history: why the island may show less than there is

server == <<world, served>>
socket == <<link, frames>>
runner == <<timer, queued>>
vars == <<server, socket, desired, target, applied, runner, controller, fetches, calls, gap>>

(* The envelope of a response.  The board depends on neither tab nor session. *)
Envelope(r, seen) ==
  IF target = "chat" THEN [page |-> r.page, tab |-> r.tab, seen |-> seen]
  ELSE [page |-> r.page, tab |-> "overview", seen |-> [seen EXCEPT !["session"] = 0]]

(* The live events the island declares on a route. *)
Hears(r, d) == d = "board" \/ (target = "chat" /\ r.tab = "chat")

Live == 0   \* the id of a fetch started by liveRefreshRunner
InFlight == \E f \in fetches : f.id = Live

Start(id, scope, route) ==
  [id |-> id, scope |-> scope, asked |-> route, base |-> applied, at |-> "asked", got |-> applied]

Bounded == calls < MaxCalls
Call == calls' = calls + 1
Missed == IF gap = "none" THEN "stale" ELSE gap

Init ==
  /\ world = [d \in Docs |-> 0] /\ served = [d \in Docs |-> 0]
  /\ link = "down" /\ frames = [d \in Docs |-> 0]
  /\ desired = [page |-> Home, tab |-> "overview"]
  /\ target \in Targets
  /\ applied = Envelope(desired, world)
  /\ timer = None /\ queued = None /\ controller = None
  /\ fetches = {} /\ calls = 0 /\ gap = "none"

-----------------------------------------------------------------------------
(* The server: documents change, the hub publishes, versions are cached.   *)

(* A committed change is published to whoever is connected, and to nobody  *)
(* else: the hub keeps no frames.  A change of the objective is published  *)
(* under two topics, objective-runtime and profile-board.                  *)
Topics(d) == IF d = "board" THEN 2 ELSE 1

Change(d) ==
  /\ world["board"] + world["session"] < MaxChanges
  /\ world' = [world EXCEPT ![d] = @ + 1]
  /\ IF link = "up" THEN frames' = [frames EXCEPT ![d] = @ + Topics(d)] /\ UNCHANGED gap
     ELSE gap' = (IF Hears(desired, d) THEN Missed ELSE gap) /\ UNCHANGED frames
  /\ UNCHANGED <<served, link, desired, target, applied, runner, controller, fetches, calls>>

(* withProjectionCache answers with what it answered last until that entry *)
(* expires, which may be at any time, and then with the newest version.    *)
Answer(old) == [d \in Docs |-> IF d \in old THEN served[d] ELSE world[d]]

ServerReads(f, old) ==
  /\ f.at = "asked"
  /\ fetches' = (fetches \ {f})
                  \cup {[f EXCEPT !.at = "answered", !.got = Envelope(f.asked, Answer(old))]}
  /\ served' = Answer(old)
  /\ gap' = IF \E d \in Docs : Hears(f.asked, d) /\ Answer(old)[d] # world[d] THEN Missed ELSE gap
  /\ UNCHANGED <<world, socket, desired, target, applied, runner, controller, calls>>

OthersRead(old) ==
  /\ served' = Answer(old)
  /\ UNCHANGED <<world, socket, desired, target, applied, runner, controller, fetches, calls, gap>>

-----------------------------------------------------------------------------
(* The websocket.  The "init" frame of a new connection is ignored. *)

Connect ==
  /\ link = "down" /\ link' = "up"
  /\ UNCHANGED <<server, frames, desired, target, applied, runner, controller, fetches, calls, gap>>

Disconnected == link' = "down" /\ frames' = [d \in Docs |-> 0]
FramesLost == IF \E d \in Docs : frames[d] > 0 /\ Hears(desired, d) THEN Missed ELSE gap

LinkDrops ==
  /\ Bounded /\ Call /\ link = "up"
  /\ Disconnected /\ gap' = FramesLost
  /\ UNCHANGED <<server, desired, target, applied, runner, controller, fetches>>

-----------------------------------------------------------------------------
(* Live refreshes: a frame the island declares arms its timer anew, and    *)
(* the timer starts a fetch or queues behind the one in flight.            *)

Deliver(d) ==
  /\ link = "up" /\ frames[d] > 0
  /\ frames' = [frames EXCEPT ![d] = @ - 1]
  /\ timer' = IF Hears(desired, d) THEN desired ELSE timer
  /\ UNCHANGED <<server, link, desired, target, applied, queued, controller, fetches, calls, gap>>

Fire ==
  /\ timer # None /\ timer' = None
  /\ IF InFlight THEN queued' = timer /\ UNCHANGED <<controller, fetches>>
     ELSE /\ fetches' = fetches \cup {Start(Live, timer, desired)}
          /\ controller' = Live
          /\ UNCHANGED queued
  /\ UNCHANGED <<server, socket, desired, target, applied, calls, gap>>

(* Mutant: the refresh queued behind a fetch is forgotten with it. *)
OverForgets(done) ==
  /\ queued' = IF \E f \in done : f.id = Live THEN None ELSE queued
  /\ UNCHANGED timer

(* When the live fetch is over, however, what is queued behind it is armed *)
(* in place of a timer that may be newer.                                  *)
Over(done) ==
  IF queued # None /\ \E f \in done : f.id = Live
  THEN timer' = queued /\ queued' = None
  ELSE UNCHANGED runner

Finish(f) ==
  /\ Over({f})
  /\ fetches' = fetches \ {f}
  /\ controller' = IF controller = f.id THEN None ELSE controller

-----------------------------------------------------------------------------
(* Responses. *)

OnRoute(f) == f.asked = f.scope /\ desired = f.scope
AppliesAnyBaseline(f) == OnRoute(f)   \* mutant: the baseline is not compared
ShouldApplyEnvelope(f) == OnRoute(f) /\ applied = f.base

OnPage == applied.page = desired.page /\ (target = "chat" => applied.tab = desired.tab)
Current(seen) == \A d \in Docs : Hears(desired, d) => seen[d] = world[d]
Newer(seen) == \E d \in Docs : Hears(desired, d) /\ seen[d] > applied.seen[d]

Apply(f) ==
  /\ f.at = "answered" /\ ShouldApplyEnvelope(f)
  /\ applied' = f.got
  /\ Finish(f)
  /\ gap' = IF gap = "none" \/ Current(f.got.seen) THEN "none" ELSE "stale"
  /\ UNCHANGED <<server, socket, desired, target, calls>>

(* A response is dropped when the envelope has changed since the request,  *)
(* or the route: also when that is another tab, of which the board does    *)
(* not depend.                                                             *)
SamePage(f) == f.scope.page = desired.page /\ target = "background"
Drop(f) ==
  /\ f.at = "answered" /\ ~ShouldApplyEnvelope(f)
  /\ Finish(f)
  /\ gap' = IF SamePage(f) /\ ~OnPage THEN "page"
            ELSE IF (OnRoute(f) \/ SamePage(f)) /\ Newer(f.got.seen) THEN Missed ELSE gap
  /\ UNCHANGED <<server, socket, desired, target, applied, calls>>

(* A request fails; nothing tries it again. *)
Fails(f) ==
  /\ Bounded /\ Call
  /\ Finish(f)
  /\ gap' = IF OnPage THEN Missed ELSE "page"
  /\ UNCHANGED <<server, socket, desired, target, applied>>

-----------------------------------------------------------------------------
(* Visits: navigation, and the window getting the focus. *)

(* refreshRouteTargetsNow: abort the registered fetch, start one of its own. *)
RefreshRouteTargetsNow(route) ==
  LET aborted == {f \in fetches : f.id = controller} IN
  /\ Over(aborted)
  /\ fetches' = (fetches \ aborted) \cup {Start(calls + 1, route, route)}
  /\ controller' = calls + 1

(* classifyWorkbenchRouteChange: another tab alone refreshes the chat only. *)
Scoped(route) == route.page # desired.page \/ target = "chat"

(* The path of the websocket or the events declared on it change with the  *)
(* route, so the router closes it and opens another.                       *)
ApplyInlineLocation(route) ==
  /\ Bounded /\ Call
  /\ route # desired
  /\ desired' = route
  /\ Disconnected
  /\ IF Scoped(route) THEN RefreshRouteTargetsNow(route) /\ UNCHANGED gap
     ELSE gap' = FramesLost /\ UNCHANGED <<runner, fetches, controller>>
  /\ UNCHANGED <<server, target, applied>>

RefreshVisibleWorkbench ==
  /\ Bounded /\ Call
  /\ RefreshRouteTargetsNow(desired)
  /\ UNCHANGED <<server, socket, desired, target, applied, gap>>

-----------------------------------------------------------------------------
Inside ==
  \/ Connect \/ Fire
  \/ \E d \in Docs : Deliver(d)
  \/ \E f \in fetches : Apply(f) \/ Drop(f) \/ \E old \in SUBSET Docs : ServerReads(f, old)

Outside ==
  \/ \E d \in Docs : Change(d)
  \/ \E old \in SUBSET Docs : OthersRead(old)
  \/ LinkDrops
  \/ \E f \in fetches : Fails(f)
  \/ \E route \in Routes : ApplyInlineLocation(route)
  \/ RefreshVisibleWorkbench

Next == Inside \/ Outside

Spec == Init /\ [][Next]_vars
FairSpec == Spec /\ WF_vars(Inside)

-----------------------------------------------------------------------------
Shown == [page : Pages, tab : {"overview", "chat"}, seen : Versions]
Fetch == [id : Nat, scope : Routes, asked : Routes, base : Shown,
          at : {"asked", "answered"}, got : Shown]

WorkbenchTypeOK ==
  /\ world \in Versions /\ served \in Versions
  /\ link \in {"down", "up"} /\ frames \in [Docs -> Nat]
  /\ desired \in Routes /\ target \in Targets /\ applied \in Shown
  /\ timer \in Routes \cup {None} /\ queued \in Routes \cup {None}
  /\ controller \in Nat \cup {None} /\ fetches \subseteq Fetch
  /\ calls \in Nat /\ gap \in {"none", "stale", "page"}

(* However responses overtake each other, and whatever the cache answers,  *)
(* an island is never replaced by an older version of itself.              *)
NeverBackwards == [][\A d \in Docs : applied'.seen[d] >= applied.seen[d]]_applied

(* The workbench comes to rest, and then each island shows the page and    *)
(* tab the user asked for, at its newest version.  The exceptions: a       *)
(* request failed; one was dropped because another tab was selected; an    *)
(* event found no connection; the cache answered with an old version; of   *)
(* two responses on one envelope the older came first.                     *)
Quiet == link = "up" /\ frames = [d \in Docs |-> 0] /\ fetches = {} /\ timer = None
Settles ==
  <>[](/\ Quiet
       /\ gap = "page" \/ OnPage
       /\ gap # "none" \/ Current(applied.seen))
=============================================================================
