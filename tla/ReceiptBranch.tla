--------------------------- MODULE ReceiptBranch ----------------------------
(***************************************************************************)
(* Branches of packages/core/src/runtime.ts over src/adapters/sqlite.ts.   *)
(* A branch stores only its own receipts; a reader materializes its chain  *)
(* from the first forkAt receipts of its parent and its own receipts,      *)
(* linked to them again.                                                   *)
(*                                                                         *)
(* An actor is a process running one call: `receipt fork` is a process of  *)
(* its own, so the stream locks of the runtime do not order it against an  *)
(* execute of the server.  The snapshot cache is the subject of            *)
(* ReceiptRuntime and is left out.                                         *)
(*                                                                         *)
(* The hash of a receipt is the sequence of the <<stream, body>> pairs it  *)
(* commits to, so that equal hashes mean equal histories; << >> stands for *)
(* `undefined`.  A body is the number of its append: no two are equal.     *)
(***************************************************************************)
EXTENDS Naturals, Sequences, FiniteSets

CONSTANTS
  Actors,      \* processes, each running one call at a time
  Forkers,     \* those that fork
  Streams,     \* stream names
  None,        \* no parent, no stream
  Writable,    \* streams a command may be executed on
  MaxAppends   \* bound on the number of receipts

ASSUME BranchAssumption ==
  /\ Forkers \subseteq Actors
  /\ None \notin Streams
  /\ Writable \subseteq Streams
  /\ IsFiniteSet(Streams)
  /\ MaxAppends \in Nat

VARIABLES
  local,    \* per stream: the receipts stored under its name
  branch,   \* per stream: its row of the branches table
  call,     \* per actor: the call it is running
  appends   \* receipts appended so far

vars == <<local, branch, call, appends>>

-----------------------------------------------------------------------------
Hash == Seq(Streams \X Nat)
Receipt == [body : Nat, prev : Hash, hash : Hash]

(* chain[chain.length - 1]?.hash *)
HeadHash(chain) == IF chain = << >> THEN << >> ELSE chain[Len(chain)].hash

NoBranch == [known |-> FALSE, parent |-> None, at |-> 0]

Idle == [op |-> "idle", stream |-> None, new |-> None, at |-> 0,
         prev |-> << >>, localPrev |-> << >>, result |-> "none"]

Calls == [op : {"idle", "append", "save", "look", "bare"}, stream : Streams \cup {None},
          new : Streams \cup {None}, at : Nat, prev : Hash, localPrev : Hash,
          result : {"none", "ok", "conflict", "refused"}]

TypeOK ==
  /\ local \in [Streams -> Seq(Receipt)]
  /\ branch \in [Streams -> [known : BOOLEAN, parent : Streams \cup {None}, at : 0..appends]]
  /\ call \in [Actors -> Calls]
  /\ appends \in Nat

Init ==
  /\ local = [s \in Streams |-> << >>]
  /\ branch = [s \in Streams |-> NoBranch]
  /\ call = [a \in Actors |-> Idle]
  /\ appends = 0

-----------------------------------------------------------------------------
(* Mutant: the receipts keep the links they were stored with. *)
NotRelinked(s, chain, prev) == chain

(* relinkLocalChain. *)
Relink(s, chain, prev) ==
  LET upto(n) == prev \o [i \in 1..n |-> <<s, chain[i].body>>]
  IN  [n \in 1..Len(chain) |->
         [body |-> chain[n].body, prev |-> upto(n - 1), hash |-> upto(n)]]

(* parentPrefixMatches: the branch holds a copy of the parent's receipts.  *)
HoldsPrefix(prefix, chain) ==
  /\ prefix # << >>
  /\ Len(prefix) <= Len(chain)
  /\ \A n \in 1..Len(prefix) : prefix[n].body = chain[n].body

(* Mutant: the branch follows its parent past forkAt. *)
WholeParent(chain, at) == chain

ParentPrefix(chain, at) == SubSeq(chain, 1, IF at < Len(chain) THEN at ELSE Len(chain))

(* What a branch s sees: the prefix of its parent and its own receipts.    *)
Materialize(s, prefix, receipts) ==
  LET own == IF HoldsPrefix(prefix, receipts)
             THEN SubSeq(receipts, Len(prefix) + 1, Len(receipts))
             ELSE receipts
  IN  prefix \o Relink(s, own, HeadHash(prefix))

(* materializeChain: what a reader that follows at most d parents sees of  *)
(* each stream.  A chain of parents that leads back to its start has no    *)
(* end, and every read of it throws: two processes that fork each other's  *)
(* new name make one.                                                      *)
View[d \in Nat] ==
  [s \in Streams |->
     IF branch[s].parent = None THEN [ends |-> TRUE, chain |-> local[s]]
     ELSE IF d = 0 THEN [ends |-> FALSE, chain |-> << >>]
     ELSE LET up == View[d - 1][branch[s].parent]
              prefix == ParentPrefix(up.chain, branch[s].at)
          IN  [ends |-> up.ends, chain |-> Materialize(s, prefix, local[s])]]

Depth == Cardinality(Streams)
Readable(s) == View[Depth][s].ends
Chain(s) == View[Depth][s].chain

-----------------------------------------------------------------------------
(* execute: the chain is loaded, then one receipt is appended.             *)
LoadForExecute(a, s) ==
  /\ call[a].op = "idle"
  /\ s \in Writable
  /\ Readable(s)
  /\ appends < MaxAppends
  /\ call' = [call EXCEPT ![a] = [Idle EXCEPT !.op = "append", !.stream = s,
                !.prev = HeadHash(Chain(s)), !.localPrev = HeadHash(local[s])]]
  /\ UNCHANGED <<local, branch, appends>>

(* append: physicalPrev = expectedPrev ?? r.prev. *)
PhysicalPrev(c) == IF c.localPrev # << >> THEN c.localPrev ELSE c.prev

StoreReceipt(a) ==
  LET c == call[a] IN
  /\ c.op = "append"
  /\ HeadHash(local[c.stream]) = PhysicalPrev(c)
  /\ appends' = appends + 1
  /\ local' = [local EXCEPT ![c.stream] = Append(@,
       [body |-> appends + 1, prev |-> c.prev,
        hash |-> Append(c.prev, <<c.stream, appends + 1>>)])]
  /\ call' = [call EXCEPT ![a] = [@ EXCEPT !.op = "idle", !.result = "ok"]]
  /\ UNCHANGED branch

AppendConflict(a) ==
  LET c == call[a] IN
  /\ c.op = "append"
  /\ HeadHash(local[c.stream]) # PhysicalPrev(c)
  /\ call' = [call EXCEPT ![a] = [@ EXCEPT !.op = "idle", !.result = "conflict"]]
  /\ UNCHANGED <<local, branch, appends>>

(* fork: its checks, then the branch record.                               *)
(* Mutant: forking past the end. *)
ForkAnywhere(s, at, new) == ~branch[new].known /\ local[new] = << >>

MayFork(s, at, new) ==
  /\ at <= Len(Chain(s))
  /\ ~branch[new].known
  /\ local[new] = << >>

CheckFork(a, s, at, new) ==
  /\ a \in Forkers
  /\ call[a].op = "idle"
  /\ s # new
  /\ Readable(s)
  /\ call' = [call EXCEPT ![a] =
       IF MayFork(s, at, new)
       THEN [Idle EXCEPT !.op = "save", !.stream = s, !.new = new, !.at = at]
       ELSE [Idle EXCEPT !.result = "refused"]]
  /\ UNCHANGED <<local, branch, appends>>

(* fork saves its row, then looks for the parent's, and saves a row that   *)
(* names no parent if there was none: three awaited steps.  save replaces  *)
(* the row it finds, whoever wrote it.                                     *)
SaveBranch(a) ==
  LET c == call[a] IN
  /\ c.op = "save"
  /\ branch' = [branch EXCEPT ![c.new] =
                  [known |-> TRUE, parent |-> c.stream, at |-> c.at]]
  /\ call' = [call EXCEPT ![a] = [@ EXCEPT !.op = "look"]]
  /\ UNCHANGED <<local, appends>>

LookForParent(a) ==
  LET c == call[a] IN
  /\ c.op = "look"
  /\ call' = [call EXCEPT ![a] =
       IF branch[c.stream].known THEN [@ EXCEPT !.op = "idle", !.result = "ok"]
       ELSE [@ EXCEPT !.op = "bare"]]
  /\ UNCHANGED <<local, branch, appends>>

SaveParent(a) ==
  LET c == call[a] IN
  /\ c.op = "bare"
  /\ branch' = [branch EXCEPT ![c.stream] = [known |-> TRUE, parent |-> None, at |-> 0]]
  /\ call' = [call EXCEPT ![a] = [@ EXCEPT !.op = "idle", !.result = "ok"]]
  /\ UNCHANGED <<local, appends>>

Next ==
  \E a \in Actors :
    \/ \E s \in Streams : LoadForExecute(a, s)
    \/ StoreReceipt(a) \/ AppendConflict(a)
    \/ SaveBranch(a) \/ LookForParent(a) \/ SaveParent(a)
    \/ \E s, new \in Streams, at \in 0..MaxAppends : CheckFork(a, s, at, new)

Spec == Init /\ [][Next]_vars

-----------------------------------------------------------------------------
(* Properties.                                                             *)

Linked(chain) ==
  \A n \in 1..Len(chain) : chain[n].prev = IF n = 1 THEN << >> ELSE chain[n - 1].hash

(* `receipt verify` accepts every stream, branches of branches included:   *)
(* each receipt is linked to the one before it, across the fork too.  As   *)
(* long as one process forks at a time: SaveParent of another may take     *)
(* the parent from a branch, whose receipts were linked to it.             *)
ChainsVerify == \A s \in Streams : Readable(s) => Linked(Chain(s))

IsPrefixOf(s, t) == Len(s) <= Len(t) /\ SubSeq(t, 1, Len(s)) = s

(* docs/api/streams.md: a branch preserves the causal history it was       *)
(* forked with.  As long as one process forks at a time, what was once     *)
(* read from a stream is never rewritten, whatever happens to its parent   *)
(* and its siblings; only the fork that gives a stream its parent may.     *)
HistoryIsAppendOnly ==
  [][\A s \in Streams :
       branch[s] = branch'[s] /\ Readable(s)' => IsPrefixOf(Chain(s), Chain(s)')]_<<local, branch>>

(* A branch point lies in its parent for good: no branch shows less        *)
(* history than its forkAt says.                                           *)
ForkPointExists ==
  \A s \in Streams : branch[s].parent # None /\ Readable(s) =>
    branch[s].at <= Len(Chain(branch[s].parent))

(* runtime.ts says it supports forking chains at any point: with a single  *)
(* caller, an execute on any stream or branch is not refused.              *)
BranchIsWritable == \A a \in Actors : call[a].result # "conflict"
=============================================================================
