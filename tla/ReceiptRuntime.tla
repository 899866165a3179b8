--------------------------- MODULE ReceiptRuntime ---------------------------
(***************************************************************************)
(* packages/core/src/runtime.ts over src/adapters/sqlite.ts, for one       *)
(* stream: several operating-system processes share the SQLite store; each *)
(* keeps its own snapshot cache and its own per-stream promise lock.       *)
(*                                                                         *)
(* A fiber is one asynchronous call (an `execute`, or a read such as       *)
(* `state` or `chain`) running in its Home process.  Every `await` of the  *)
(* code is a point where other fibers run, so one action is the code       *)
(* between two awaits.                                                     *)
(*                                                                         *)
(* Data kept abstract: a receipt body is the pair (command, event index).  *)
(* Only stored hashes are ever compared, so the hash of a receipt is the   *)
(* stream position it was given; 0 stands for `undefined`.  The folded     *)
(* state is a function of the chain, so a snapshot stores only the chain.  *)
(***************************************************************************)
EXTENDS Naturals, Sequences

CONSTANTS
  Procs,       \* processes sharing the database
  Fibers,      \* concurrent asynchronous calls
  Home,        \* the process each fiber runs in
  Readers,     \* fibers that call state/chain; the others call execute
  Cmds,        \* commands a client may execute
  NoCmd,       \* the command of a fiber that has executed none
  Keyed,       \* commands that carry an eventId
  Guarded,     \* commands that carry an expectedPrev
  NEvents,     \* number of events decide(cmd) returns
  MaxLen,      \* bound: no call starts once the stream has MaxLen receipts
  MaxCrashes   \* bound on process crashes

ASSUME RuntimeAssumption ==
  /\ Home \in [Fibers -> Procs]
  /\ Readers \subseteq Fibers
  /\ NoCmd \notin Cmds
  /\ Keyed \subseteq Cmds
  /\ Guarded \subseteq Cmds
  /\ NEvents \in [Cmds -> Nat \ {0}]
  /\ MaxLen \in Nat
  /\ MaxCrashes \in Nat

VARIABLES
  store,    \* the receipts of the stream, in streamSeq order
  snap,     \* per process: the entry of `snapshots` for the stream
  lockQ,    \* per process: the promise chain of streamLocks, oldest first
  call,     \* per fiber: the call it is running or has last finished
  crashes   \* number of crashes so far

vars == <<store, snap, lockQ, call, crashes>>

-----------------------------------------------------------------------------
Receipt == [hash : Nat, prev : Nat, cmd : Cmds, idx : Nat]

HeadHash(chain) == IF chain = << >> THEN 0 ELSE chain[Len(chain)].hash

(* Mutant: the receipt count alone. *)
CountOnlyVersion(chain) == <<Len(chain)>>

(* store.version: `${receiptCount}:${headHash}` of the streams row. *)
Version(chain) == <<Len(chain), HeadHash(chain)>>

NoSnap == [cached |-> FALSE, chain |-> << >>, version |-> <<0, 0>>]

PCs == {"idle", "load", "read", "version", "install", "decide", "append"}
Results == {"none", "loaded", "ok", "duplicate", "stale", "conflict", "rejected"}

(* done: events appended so far by this call; start: stream length when it *)
(* began; expected: the expectedPrev hash it was given.                    *)
Idle == [pc |-> "idle", cmd |-> NoCmd, expected |-> 0, chain |-> << >>,
         version |-> <<0, 0>>, done |-> 0, start |-> 0, result |-> "none"]

StreamSnapshot == [cached : BOOLEAN, chain : Seq(Receipt), version : Nat \X Nat]
Call == [pc : PCs, cmd : Cmds \cup {NoCmd}, expected : Nat, chain : Seq(Receipt),
         version : Nat \X Nat, done : Nat, start : Nat, result : Results]

TypeOK ==
  /\ store \in Seq(Receipt)
  /\ snap \in [Procs -> StreamSnapshot]
  /\ lockQ \in [Procs -> Seq(Fibers)]
  /\ call \in [Fibers -> Call]
  /\ crashes \in Nat

Init ==
  /\ store = << >>
  /\ snap = [p \in Procs |-> NoSnap]
  /\ lockQ = [p \in Procs |-> << >>]
  /\ call = [f \in Fibers |-> Idle]
  /\ crashes = 0

-----------------------------------------------------------------------------
(* Mutant: no stream lock. *)
NoLock(f) == TRUE

(* enqueueStream: only the fiber at the head of its process's chain runs.  *)
HoldsLock(f) == lockQ[Home[f]] # << >> /\ Head(lockQ[Home[f]]) = f

(* Mutant: the lock is not released when the call throws. *)
FinishWithoutFinally(f, res, chain) ==
  /\ call' = [call EXCEPT ![f] = [@ EXCEPT !.pc = "idle", !.result = res, !.chain = chain]]
  /\ IF f \in Readers \/ res = "rejected" THEN UNCHANGED lockQ
     ELSE lockQ' = [lockQ EXCEPT ![Home[f]] = Tail(@)]

(* The call returns or throws; an execute releases the lock. *)
Finish(f, res, chain) ==
  /\ call' = [call EXCEPT ![f] = [@ EXCEPT !.pc = "idle", !.result = res, !.chain = chain]]
  /\ IF f \in Readers THEN UNCHANGED lockQ
     ELSE lockQ' = [lockQ EXCEPT ![Home[f]] = Tail(@)]

BeginRead(f) ==
  /\ f \in Readers
  /\ call[f].pc = "idle"
  /\ call' = [call EXCEPT ![f] = [Idle EXCEPT !.pc = "load", !.start = Len(store)]]
  /\ UNCHANGED <<store, snap, lockQ, crashes>>

(* A guarded command names as expectedPrev a head its caller read earlier, *)
(* or none (0) when the caller saw an empty stream.  A keyed command may  *)
(* be executed again: that is a client's retry.                            *)
BeginExecute(f, c, expected) ==
  /\ f \notin Readers
  /\ call[f].pc = "idle"
  /\ Len(store) < MaxLen
  /\ expected # 0 => c \in Guarded
  /\ call' = [call EXCEPT ![f] = [Idle EXCEPT !.pc = "load", !.cmd = c,
                                     !.expected = expected, !.start = Len(store)]]
  /\ lockQ' = [lockQ EXCEPT ![Home[f]] = Append(@, f)]
  /\ UNCHANGED <<store, snap, crashes>>

(* loadSnapshot.  A read does not take the stream lock. *)
CacheHit(f) == /\ snap[Home[f]].cached
               /\ snap[Home[f]].version = Version(store)

LoadCached(f) ==
  /\ call[f].pc = "load"
  /\ f \notin Readers => HoldsLock(f)
  /\ CacheHit(f)
  /\ IF f \in Readers
     THEN Finish(f, "loaded", snap[Home[f]].chain)
     ELSE /\ call' = [call EXCEPT ![f] = [@ EXCEPT !.pc = "decide", !.chain = snap[Home[f]].chain]]
          /\ UNCHANGED lockQ
  /\ UNCHANGED <<store, snap, crashes>>

LoadMiss(f) ==
  /\ call[f].pc = "load"
  /\ f \notin Readers => HoldsLock(f)
  /\ ~CacheHit(f)
  /\ call' = [call EXCEPT ![f].pc = "read"]
  /\ UNCHANGED <<store, snap, lockQ, crashes>>

ReadStore(f) ==
  /\ call[f].pc = "read"
  /\ call' = [call EXCEPT ![f] = [@ EXCEPT !.pc = "version", !.chain = store]]
  /\ UNCHANGED <<store, snap, lockQ, crashes>>

(* store.version is read after the receipts were (line 215), and, by       *)
(* execute, after its last append (line 296).                              *)
ReadVersion(f) ==
  /\ call[f].pc = "version"
  /\ call' = [call EXCEPT ![f] = [@ EXCEPT !.pc = "install", !.version = Version(store)]]
  /\ UNCHANGED <<store, snap, lockQ, crashes>>

InstallSnapshot(f) ==
  /\ call[f].pc = "install"
  /\ snap' = [snap EXCEPT ![Home[f]] = [cached |-> TRUE, chain |-> call[f].chain,
                                        version |-> call[f].version]]
  /\ IF f \in Readers THEN Finish(f, "loaded", call[f].chain)
     ELSE IF call[f].done > 0 THEN Finish(f, "ok", call[f].chain)
     ELSE /\ call' = [call EXCEPT ![f].pc = "decide"]
          /\ UNCHANGED lockQ
  /\ UNCHANGED <<store, crashes>>

(* Mutant: a check that misses the eventId#idx hints of a batch. *)
SingleEventApplied(chain, c) ==
  c \in Keyed /\ NEvents[c] = 1 /\ \E n \in 1..Len(chain) : chain[n].cmd = c

AlreadyApplied(chain, c) ==
  c \in Keyed /\ \E n \in 1..Len(chain) : chain[n].cmd = c

(* Mutant: expectedPrev ignored. *)
AnyExpected(f) == TRUE

ExpectedMatches(f) == call[f].expected \in {0, HeadHash(call[f].chain)}

DecideCommand(f) ==
  LET c == call[f].cmd IN
  /\ call[f].pc = "decide"
  /\ \/ /\ AlreadyApplied(call[f].chain, c)
        /\ Finish(f, "duplicate", call[f].chain)
     \/ /\ ~AlreadyApplied(call[f].chain, c)
        /\ ~ExpectedMatches(f)
        /\ Finish(f, "stale", call[f].chain)
     \/ /\ ~AlreadyApplied(call[f].chain, c)
        /\ ExpectedMatches(f)
        /\ call' = [call EXCEPT ![f].pc = "append"]
        /\ UNCHANGED lockQ
  /\ UNCHANGED <<store, snap, crashes>>

(* Mutant: an append that does not compare the head. *)
AnyHead(f) == TRUE

(* The transaction of store.append compares the stored head with localPrev. *)
HeadMatches(f) == HeadHash(store) = HeadHash(call[f].chain)

(* One event: the reducer accepts it, then one transaction checks the head *)
(* and inserts the receipt.                                                *)
NextReceipt(f) == [hash |-> Len(store) + 1, prev |-> HeadHash(call[f].chain),
                   cmd |-> call[f].cmd, idx |-> call[f].done + 1]

LastEvent(f) == call[f].done + 1 = NEvents[call[f].cmd]

AppendEvent(f) ==
  /\ call[f].pc = "append"
  /\ HeadMatches(f)
  /\ store' = Append(store, NextReceipt(f))
  /\ \E pc \in {"append", "version"} :
       /\ pc = "version" <=> LastEvent(f)
       /\ call' = [call EXCEPT ![f] = [@ EXCEPT !.pc = pc, !.done = call[f].done + 1,
                                     !.chain = Append(call[f].chain, NextReceipt(f))]]
  /\ UNCHANGED <<snap, lockQ, crashes>>

AppendConflict(f) ==
  /\ call[f].pc = "append"
  /\ ~HeadMatches(f)
  /\ Finish(f, "conflict", call[f].chain)
  /\ UNCHANGED <<store, snap, crashes>>

(* The reducer throws on the event before it is appended. *)
ReducerRejects(f) ==
  /\ call[f].pc = "append"
  /\ Finish(f, "rejected", call[f].chain)
  /\ UNCHANGED <<store, snap, crashes>>

(* A process dies: its calls and its cache are gone, the store stays. *)
Crash(p) ==
  /\ crashes < MaxCrashes
  /\ crashes' = crashes + 1
  /\ call' = [f \in Fibers |-> IF Home[f] = p THEN Idle ELSE call[f]]
  /\ snap' = [snap EXCEPT ![p] = NoSnap]
  /\ lockQ' = [lockQ EXCEPT ![p] = << >>]
  /\ UNCHANGED store

Step(f) ==
  \/ LoadCached(f) \/ LoadMiss(f) \/ ReadStore(f) \/ ReadVersion(f)
  \/ InstallSnapshot(f) \/ DecideCommand(f)
  \/ AppendEvent(f) \/ AppendConflict(f) \/ ReducerRejects(f)

Next ==
  \/ \E f \in Fibers : Step(f)
  \/ \E f \in Fibers : BeginRead(f)
  \/ \E f \in Fibers, c \in Cmds, h \in 0..Len(store) : BeginExecute(f, c, h)
  \/ \E p \in Procs : Crash(p)

Spec == Init /\ [][Next]_vars

(* The event loop of a process eventually resumes every settled await. *)
FairSpec == Spec /\ \A f \in Fibers : WF_vars(Step(f))

-----------------------------------------------------------------------------
(* Properties.                                                             *)

IsPrefixOf(s, t) == Len(s) <= Len(t) /\ \A n \in 1..Len(s) : s[n] = t[n]

(* `receipt verify` succeeds on the stream: every receipt links to its     *)
(* predecessor, however the processes raced (chain.ts verify).             *)
ChainVerifies ==
  \A n \in 1..Len(store) :
    store[n].prev = IF n = 1 THEN 0 ELSE store[n-1].hash

(* An eventId is recorded at most once per event, whatever is retried by   *)
(* whichever process with however stale a cache.                           *)
EventIdOnce ==
  \A m, n \in 1..Len(store) :
    (/\ store[m].cmd = store[n].cmd
     /\ store[m].idx = store[n].idx
     /\ store[m].cmd \in Keyed) => m = n

(* Every cached or loaded chain is a prefix of the stored one: a cache may *)
(* be behind but never holds a receipt the store does not.                 *)
CachesArePrefixes ==
  /\ \A p \in Procs : IsPrefixOf(snap[p].chain, store)
  /\ \A f \in Fibers : IsPrefixOf(call[f].chain, store)

(* A call that reports success stored its whole batch as one block, with   *)
(* nothing of another call in between, directly after the head it named.   *)
OkMeansWholeBatch ==
  \A f \in Fibers :
    call[f].result = "ok" =>
      LET c == call[f].cmd
          first == Len(call[f].chain) - NEvents[c] IN
      /\ first >= 0
      /\ \A i \in 1..NEvents[c] :
           store[first + i].cmd = c /\ store[first + i].idx = i
      /\ call[f].expected # 0 => call[f].expected = first

(* The stream, seen as a log, behaves as ReceiptLog says. *)
Log == INSTANCE ReceiptLog
         WITH log <- [n \in 1..Len(store) |-> [cmd |-> store[n].cmd, idx |-> store[n].idx]]
ImplementsLog == Log!Spec

(* Every call returns: the locks cannot deadlock and no fiber waits for an *)
(* answer that does not come.                                              *)
CallsReturn == \A f \in Fibers : call[f].pc # "idle" ~> call[f].pc = "idle"

(* In one process without readers the stream lock alone prevents every     *)
(* conflict.                                                               *)
NoConflict == \A f \in Fibers : call[f].result # "conflict"

(* docs/api/streams.md says state is derived by folding receipts, never by *)
(* mutable snapshots: a read sees at least what was stored when it began.  *)
ReadIsCurrent ==
  \A f \in Readers : call[f].result = "loaded" => Len(call[f].chain) >= call[f].start

(* docs/api/streams.md promises idempotent event IDs: an execute answered  *)
(* as already applied finds every event of its command in the stream.      *)
DuplicateMeansApplied ==
  \A f \in Fibers :
    call[f].result = "duplicate" =>
      \A i \in 1..NEvents[call[f].cmd] :
        \E n \in 1..Len(store) : store[n].cmd = call[f].cmd /\ store[n].idx = i
=============================================================================
