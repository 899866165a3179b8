----------------------- MODULE ReceiptRuntime_proofs -----------------------
(***************************************************************************)
(* Theorems about ReceiptRuntime, for every number of processes, fibers,   *)
(* commands, batch sizes and crashes.                                      *)
(*                                                                         *)
(* The argument: the stored hash of a receipt is its position, so the one  *)
(* comparison of the append transaction (stored head against the head the  *)
(* writer computed from) forces the writer's whole chain to equal the      *)
(* store.  Whatever the writer decided from its chain (the eventId is new, *)
(* the expected head is the head, event i-1 was the last one appended) is  *)
(* then true of the store at the instant of the append, although neither   *)
(* the cache nor the promise lock guarantees it across processes.          *)
(***************************************************************************)
EXTENDS ReceiptRuntime, TLAPS, SequenceTheorems

(* The promise chain of a process holds exactly its running executes, once *)
(* each, and only its head has gone past the lock.                         *)
LockInv ==
  /\ \A p \in Procs : \A n \in 1..Len(lockQ[p]) :
       lockQ[p][n] \in Fibers \ Readers /\ Home[lockQ[p][n]] = p
  /\ \A p \in Procs : \A m, n \in 1..Len(lockQ[p]) : lockQ[p][m] = lockQ[p][n] => m = n
  /\ \A f \in Fibers \ Readers :
       /\ call[f].pc # "idle" <=> \E n \in 1..Len(lockQ[Home[f]]) : lockQ[Home[f]][n] = f
       /\ call[f].pc \notin {"idle", "load"} => HoldsLock(f)

HashIsPosition == \A n \in 1..Len(store) : store[n].hash = n

(* Where a call of fiber f is in its code decides what it has appended. *)
CallInv(f, k) ==
  /\ f \in Readers => k.pc \notin {"decide", "append"} /\ k.done = 0
  /\ f \notin Readers /\ k.pc # "idle" => k.cmd \in Cmds
  /\ k.pc \in {"load", "read", "decide"} => k.done = 0
  /\ k.pc = "append" => k.done < NEvents[k.cmd]
  /\ k.pc \in {"version", "install"} /\ k.done > 0 => k.done = NEvents[k.cmd]
  /\ k.result = "ok" => k.cmd \in Cmds /\ k.done = NEvents[k.cmd]

(* The chain of a call ends with the events the call appended, directly    *)
(* after the head it expected; no event of a keyed command has an index    *)
(* beyond them.                                                            *)
BatchInv(k) ==
  /\ k.done <= Len(k.chain)
  /\ \A i \in 1..k.done :
       LET r == k.chain[Len(k.chain) - k.done + i] IN r.cmd = k.cmd /\ r.idx = i
  /\ (k.pc = "append" \/ k.done > 0) /\ k.expected # 0
       => k.expected = Len(k.chain) - k.done
  /\ k.pc = "append" /\ k.cmd \in Keyed
       => \A n \in 1..Len(k.chain) : k.chain[n].cmd = k.cmd => k.chain[n].idx <= k.done

CallsInv == \A f \in Fibers : CallInv(f, call[f]) /\ BatchInv(call[f])

IInv == /\ TypeOK
        /\ LockInv
        /\ HashIsPosition
        /\ ChainVerifies
        /\ CachesArePrefixes
        /\ CallsInv
        /\ EventIdOnce

-----------------------------------------------------------------------------
(* The record of one call, and of one snapshot, have their types. *)
LEMMA CallType == ASSUME TypeOK, NEW f \in Fibers PROVE call[f] \in Call
  BY DEF TypeOK

(* The snapshot of a process has its type, and so has its chain. *)
LEMMA SnapType ==
  ASSUME TypeOK, NEW p \in Procs
  PROVE  snap[p] \in StreamSnapshot /\ snap[p].chain \in Seq(Receipt)
<1>1. snap[p] \in StreamSnapshot
  BY DEF TypeOK
<1> QED
  BY <1>1 DEF StreamSnapshot

(* The chain and the counters of a call have their types. *)
LEMMA CallFields ==
  ASSUME TypeOK, NEW f \in Fibers
  PROVE  /\ call[f].chain \in Seq(Receipt)
         /\ call[f].done \in Nat
         /\ call[f].expected \in Nat
         /\ call[f].version \in Nat \X Nat
         /\ call[f].cmd \in Cmds \cup {NoCmd}
  BY CallType DEF Call

(* What Finish does to the type of the locks and of the finished call. *)
LEMMA FinishType ==
  ASSUME TypeOK, LockInv, NEW f \in Fibers, f \in Readers \/ HoldsLock(f),
         NEW res \in Results, NEW chain \in Seq(Receipt), Finish(f, res, chain)
  PROVE  /\ lockQ' \in [Procs -> Seq(Fibers)]
         /\ call' \in [Fibers -> Call]
<1>1. Home[f] \in Procs
  BY RuntimeAssumption
<1>2. f \notin Readers => Tail(lockQ[Home[f]]) \in Seq(Fibers)
  BY <1>1 DEF TypeOK, HoldsLock
<1>3. lockQ' \in [Procs -> Seq(Fibers)]
  BY <1>1, <1>2 DEF Finish, TypeOK
<1>4. [call[f] EXCEPT !.pc = "idle", !.result = res, !.chain = chain] \in Call
  BY CallType DEF Call, PCs
<1> QED
  BY <1>3, <1>4 DEF Finish, TypeOK

(* Past the lock means holding it, for every call but a read. *)
LEMMA PastLock ==
  ASSUME LockInv, NEW f \in Fibers, call[f].pc \notin {"idle", "load"}
  PROVE  f \in Readers \/ HoldsLock(f)
  BY DEF LockInv

(* The hash of a head is a number. *)
LEMMA HeadHashType == ASSUME NEW chain \in Seq(Receipt) PROVE HeadHash(chain) \in Nat
<1>1. chain # << >> => chain[Len(chain)] \in Receipt
  OBVIOUS
<1> QED
  BY <1>1 DEF HeadHash, Receipt

(* An idle fiber holds a call. *)
LEMMA IdleType == Idle \in Call
<1>1. /\ "idle" \in PCs
      /\ "none" \in Results
      /\ << >> \in Seq(Receipt)
      /\ <<0, 0>> \in Nat \X Nat
  BY DEF PCs, Results
<1> QED
  BY <1>1 DEF Idle, Call

(* An empty cache entry is a cache entry. *)
LEMMA NoSnapType == NoSnap \in StreamSnapshot
  BY DEF NoSnap, StreamSnapshot

(* The types hold at first. *)
LEMMA TypeInit == Init => TypeOK
<1> SUFFICES ASSUME Init PROVE TypeOK
  OBVIOUS
<1>1. Idle \in Call /\ NoSnap \in StreamSnapshot
  BY IdleType, NoSnapType
<1> QED
  BY <1>1 DEF Init, TypeOK

(* Type correctness is inductive once LockInv says that a release finds    *)
(* its lock and CallInv that an appending call has a command.              *)
LEMMA TypeLoadCached == ASSUME TypeOK, LockInv, NEW f \in Fibers, LoadCached(f) PROVE TypeOK'
<1>1. snap[Home[f]].chain \in Seq(Receipt)
  BY SnapType, RuntimeAssumption
<1>2. CASE f \in Readers
  <2>1. Finish(f, "loaded", snap[Home[f]].chain) /\ UNCHANGED <<store, snap, crashes>>
    BY <1>2 DEF LoadCached
  <2> QED
    BY <1>1, <1>2, <2>1, FinishType DEF TypeOK, Results
<1>3. CASE f \notin Readers
  <2>1. [call[f] EXCEPT !.pc = "decide", !.chain = snap[Home[f]].chain] \in Call
    BY <1>1, CallType DEF Call, PCs
  <2> QED
    BY <1>3, <2>1 DEF LoadCached, TypeOK
<1> QED
  BY <1>2, <1>3

(* A cache miss keeps the types. *)
LEMMA TypeLoadMiss == ASSUME TypeOK, NEW f \in Fibers, LoadMiss(f) PROVE TypeOK'
<1>1. [call[f] EXCEPT !.pc = "read"] \in Call
  BY CallType DEF Call, PCs
<1> QED
  BY <1>1 DEF LoadMiss, TypeOK

(* The read of the receipts keeps the types. *)
LEMMA TypeReadStore == ASSUME TypeOK, NEW f \in Fibers, ReadStore(f) PROVE TypeOK'
<1>1. store \in Seq(Receipt)
  BY DEF TypeOK
<1>2. [call[f] EXCEPT !.pc = "version", !.chain = store] \in Call
  BY <1>1, CallType DEF Call, PCs
<1> QED
  BY <1>2 DEF ReadStore, TypeOK

(* The read of the version keeps the types. *)
LEMMA TypeReadVersion == ASSUME TypeOK, NEW f \in Fibers, ReadVersion(f) PROVE TypeOK'
<1>1. Version(store) \in Nat \X Nat
  BY HeadHashType DEF TypeOK, Version
<1>2. [call[f] EXCEPT !.pc = "install", !.version = Version(store)] \in Call
  BY <1>1, CallType DEF Call, PCs
<1> QED
  BY <1>2 DEF ReadVersion, TypeOK

(* The installation of a snapshot keeps the types. *)
LEMMA TypeInstallSnapshot ==
  ASSUME TypeOK, LockInv, NEW f \in Fibers, InstallSnapshot(f) PROVE TypeOK'
<1>1. [cached |-> TRUE, chain |-> call[f].chain, version |-> call[f].version] \in StreamSnapshot
  BY CallFields DEF StreamSnapshot
<1>2. snap' \in [Procs -> StreamSnapshot]
  BY <1>1 DEF InstallSnapshot, TypeOK
<1>3. call[f].chain \in Seq(Receipt)
  BY CallFields
<1>4. f \in Readers \/ HoldsLock(f)
  BY PastLock DEF InstallSnapshot
<1>5. ASSUME NEW res \in {"loaded", "ok"}, Finish(f, res, call[f].chain) PROVE TypeOK'
  BY <1>2, <1>3, <1>4, <1>5, FinishType DEF InstallSnapshot, TypeOK, Results
<1>6. CASE call' = [call EXCEPT ![f].pc = "decide"] /\ UNCHANGED lockQ
  <2>1. [call[f] EXCEPT !.pc = "decide"] \in Call
    BY CallType DEF Call, PCs
  <2> QED
    BY <1>2, <1>6, <2>1 DEF InstallSnapshot, TypeOK
<1> QED
  BY <1>5, <1>6 DEF InstallSnapshot

(* The decision of a command keeps the types. *)
LEMMA TypeDecideCommand ==
  ASSUME TypeOK, LockInv, NEW f \in Fibers, DecideCommand(f) PROVE TypeOK'
<1>1. call[f].chain \in Seq(Receipt)
  BY CallFields
<1>2. f \in Readers \/ HoldsLock(f)
  BY PastLock DEF DecideCommand
<1>3. ASSUME NEW res \in {"duplicate", "stale"}, Finish(f, res, call[f].chain) PROVE TypeOK'
  BY <1>1, <1>2, <1>3, FinishType DEF DecideCommand, TypeOK, Results
<1>4. CASE call' = [call EXCEPT ![f].pc = "append"] /\ UNCHANGED lockQ
  <2>1. [call[f] EXCEPT !.pc = "append"] \in Call
    BY CallType DEF Call, PCs
  <2> QED
    BY <1>4, <2>1 DEF DecideCommand, TypeOK
<1> QED
  BY <1>3, <1>4 DEF DecideCommand

(* A call that has appended one more event is a call. *)
LEMMA AppendedCallType ==
  ASSUME NEW k \in Call, NEW pc \in PCs, NEW n \in Nat, NEW chain \in Seq(Receipt)
  PROVE  [k EXCEPT !.pc = pc, !.done = n, !.chain = chain] \in Call
  BY DEF Call

(* An append keeps the types. *)
LEMMA TypeAppendEvent ==
  ASSUME TypeOK, NEW f \in Fibers, call[f].cmd \in Cmds, AppendEvent(f) PROVE TypeOK'
<1>1. store \in Seq(Receipt) /\ call[f].chain \in Seq(Receipt) /\ call[f].done \in Nat
  BY CallFields DEF TypeOK
<1>2. NextReceipt(f) \in Receipt
  <2>1. HeadHash(call[f].chain) \in Nat
    BY <1>1, HeadHashType
  <2> QED
    BY <1>1, <2>1 DEF NextReceipt, Receipt
<1>3. /\ Append(call[f].chain, NextReceipt(f)) \in Seq(Receipt)
      /\ Append(store, NextReceipt(f)) \in Seq(Receipt)
  BY <1>1, <1>2
<1>4. PICK pc \in {"append", "version"} :
        call' = [call EXCEPT ![f] = [@ EXCEPT !.pc = pc, !.done = call[f].done + 1,
                                     !.chain = Append(call[f].chain, NextReceipt(f))]]
  BY DEF AppendEvent
<1>5. pc \in PCs
  BY DEF PCs
<1> DEFINE n == call[f].done + 1
<1>6. n \in Nat
  BY <1>1
<1> HIDE DEF n
<1>7. [call[f] EXCEPT !.pc = pc, !.done = n,
                      !.chain = Append(call[f].chain, NextReceipt(f))] \in Call
  BY <1>3, <1>5, <1>6, CallType, AppendedCallType
<1> QED
  BY <1>3, <1>4, <1>7 DEF AppendEvent, TypeOK, n

(* A conflict and a failing reducer keep the types. *)
LEMMA TypeThrow ==
  ASSUME TypeOK, LockInv, NEW f \in Fibers, AppendConflict(f) \/ ReducerRejects(f) PROVE TypeOK'
<1>1. call[f].chain \in Seq(Receipt)
  BY CallFields
<1>2. f \in Readers \/ HoldsLock(f)
  BY PastLock DEF AppendConflict, ReducerRejects
<1> QED
  BY <1>1, <1>2, FinishType DEF AppendConflict, ReducerRejects, TypeOK, Results

(* The start of a call keeps the types. *)
LEMMA TypeBegin ==
  ASSUME TypeOK, NEW f \in Fibers,
         BeginRead(f) \/ \E c \in Cmds, h \in 0..Len(store) : BeginExecute(f, c, h)
  PROVE  TypeOK'
<1> Len(store) \in Nat
  BY DEF TypeOK
<1>1. CASE BeginRead(f)
  <2>1. [Idle EXCEPT !.pc = "load", !.start = Len(store)] \in Call
    BY IdleType DEF Call, PCs
  <2> QED
    BY <1>1, <2>1 DEF BeginRead, TypeOK
<1>2. ASSUME NEW c \in Cmds, NEW h \in 0..Len(store), BeginExecute(f, c, h) PROVE TypeOK'
  <2>1. [Idle EXCEPT !.pc = "load", !.cmd = c, !.expected = h, !.start = Len(store)] \in Call
    <3>1. h \in Nat
      OBVIOUS
    <3> QED
      BY <3>1, IdleType DEF Call, PCs
  <2>2. lockQ' \in [Procs -> Seq(Fibers)]
    <3>1. Append(lockQ[Home[f]], f) \in Seq(Fibers)
      BY RuntimeAssumption DEF TypeOK
    <3> QED
      BY <1>2, <3>1 DEF BeginExecute, TypeOK
  <2> QED
    BY <1>2, <2>1, <2>2 DEF BeginExecute, TypeOK
<1> QED
  BY <1>1, <1>2

(* A crash keeps the types. *)
LEMMA TypeCrash == ASSUME TypeOK, NEW p \in Procs, Crash(p) PROVE TypeOK'
<1>1. Idle \in Call /\ NoSnap \in StreamSnapshot
  BY IdleType, NoSnapType
<1> QED
  BY <1>1 DEF Crash, TypeOK
-----------------------------------------------------------------------------
(* The locks. A call that keeps running past its lock leaves LockInv alone. *)
LEMMA LockKept ==
  ASSUME TypeOK, LockInv, NEW f \in Fibers, call[f].pc # "idle", f \in Readers \/ HoldsLock(f),
         lockQ' = lockQ, call'[f].pc # "idle",
         \A g \in Fibers : g # f => call'[g] = call[g]
  PROVE  LockInv'
<1>1. ASSUME NEW g \in Fibers \ Readers
      PROVE  /\ call'[g].pc # "idle" <=> \E n \in 1..Len(lockQ[Home[g]]) : lockQ[Home[g]][n] = g
             /\ call'[g].pc \notin {"idle", "load"} => HoldsLock(g)
  <2>1. CASE g = f
    BY <2>1 DEF LockInv
  <2>2. CASE g # f
    BY <2>2 DEF LockInv
  <2> QED
    BY <2>1, <2>2
<1> QED
  BY <1>1 DEF LockInv, HoldsLock

(* A call that ends takes itself, and only itself, off its promise chain. *)
LEMMA LockReleased ==
  ASSUME TypeOK, LockInv, NEW f \in Fibers, call[f].pc # "idle", f \in Readers \/ HoldsLock(f),
         NEW res, NEW chain, Finish(f, res, chain)
  PROVE  LockInv'
<1> DEFINE q == lockQ[Home[f]]
<1>1. \A g \in Fibers : g # f => call'[g] = call[g]
  BY DEF Finish, TypeOK
<1>2. CASE f \in Readers
  BY <1>1, <1>2 DEF Finish, LockInv, HoldsLock
<1>3. CASE f \notin Readers
  <2>1. Home \in [Fibers -> Procs] /\ Home[f] \in Procs
    BY RuntimeAssumption
  <2>2. q \in Seq(Fibers) /\ q # << >> /\ Head(q) = f /\ q[1] = f
    BY <1>3, <2>1 DEF TypeOK, HoldsLock
  <2>3. Len(Tail(q)) = Len(q) - 1 /\ Len(q) >= 1 /\ \A n \in 1..Len(Tail(q)) : Tail(q)[n] = q[n+1]
    BY <2>2
  <2>4. lockQ' = [lockQ EXCEPT ![Home[f]] = Tail(q)]
    BY <1>3 DEF Finish
  <2>5. lockQ'[Home[f]] = Tail(q) /\ \A p \in Procs : p # Home[f] => lockQ'[p] = lockQ[p]
    BY <2>1, <2>4 DEF TypeOK
  <2>6. call'[f].pc = "idle"
    BY DEF Finish, TypeOK, Call
  <2>7. ASSUME NEW n \in 1..Len(lockQ'[Home[f]])
         PROVE  n + 1 \in 1..Len(q) /\ lockQ'[Home[f]][n] = q[n+1]
    <3>1. Len(q) \in Nat
      BY <2>2
    <3>2. n \in 1..Len(Tail(q))
      BY <2>5
    <3> QED
      BY <2>3, <2>5, <3>1, <3>2
  <2>8. ASSUME NEW p \in Procs, NEW n \in 1..Len(lockQ'[p])
        PROVE  lockQ'[p][n] \in Fibers \ Readers /\ Home[lockQ'[p][n]] = p
    <3>1. CASE p = Home[f]
      <4>1. n + 1 \in 1..Len(q) /\ lockQ'[p][n] = q[n+1]
        BY <2>7, <3>1
      <4> QED
        BY <2>1, <3>1, <4>1 DEF LockInv
    <3>2. CASE p # Home[f]
      BY <2>5, <3>2 DEF LockInv
    <3> QED
      BY <3>1, <3>2
  <2>9. ASSUME NEW p \in Procs, NEW m \in 1..Len(lockQ'[p]), NEW n \in 1..Len(lockQ'[p]),
               lockQ'[p][m] = lockQ'[p][n]
        PROVE  m = n
    <3>1. CASE p = Home[f]
      <4>1. /\ m + 1 \in 1..Len(q) /\ lockQ'[p][m] = q[m+1]
            /\ n + 1 \in 1..Len(q) /\ lockQ'[p][n] = q[n+1]
        BY <2>7, <3>1
      <4>2. q[m+1] = q[n+1]
        BY <2>9, <4>1
      <4>3. \A i, j \in 1..Len(q) : q[i] = q[j] => i = j
        BY <2>1 DEF LockInv
      <4> HIDE DEF q
      <4>4. m \in Nat /\ n \in Nat
        BY <2>5
      <4>5. m + 1 = n + 1
        BY <4>1, <4>2, <4>3
      <4> QED
        BY <4>4, <4>5
    <3>2. CASE p # Home[f]
      BY <2>5, <2>9, <3>2 DEF LockInv
    <3> QED
      BY <3>1, <3>2
  <2>10. ASSUME NEW g \in Fibers \ Readers
        PROVE  call'[g].pc # "idle" <=> \E n \in 1..Len(lockQ'[Home[g]]) : lockQ'[Home[g]][n] = g
    <3>1. CASE g = f
      <4>1. ASSUME NEW n \in 1..Len(Tail(q)) PROVE Tail(q)[n] # f
        <5>1. n + 1 \in 1..Len(q) /\ 1 \in 1..Len(q) /\ Tail(q)[n] = q[n+1] /\ n + 1 # 1
          BY <2>2, <2>3
        <5>2. q[n+1] # q[1]
          BY <2>1, <5>1 DEF LockInv
        <5> QED
          BY <2>2, <5>1, <5>2
      <4> QED
        BY <2>5, <2>6, <3>1, <4>1
    <3>2. CASE g # f /\ Home[g] # Home[f]
      BY <1>1, <2>1, <2>5, <3>2 DEF LockInv
    <3>3. CASE g # f /\ Home[g] = Home[f]
      <4>1. call'[g].pc # "idle" <=> \E n \in 1..Len(q) : q[n] = g
        BY <1>1, <3>3 DEF LockInv
      <4>2. ASSUME NEW n \in 1..Len(q), q[n] = g PROVE n - 1 \in 1..Len(Tail(q)) /\ Tail(q)[n-1] = g
        BY <2>2, <2>3, <3>3, <4>2
      <4>3. ASSUME NEW n \in 1..Len(Tail(q)), Tail(q)[n] = g PROVE n + 1 \in 1..Len(q) /\ q[n+1] = g
        BY <2>2, <2>3, <4>3
      <4> QED
        BY <2>5, <3>3, <4>1, <4>2, <4>3
    <3> QED
      BY <3>1, <3>2, <3>3
  <2>11. ASSUME NEW g \in Fibers \ Readers, call'[g].pc \notin {"idle", "load"}
         PROVE  lockQ'[Home[g]] # << >> /\ Head(lockQ'[Home[g]]) = g
    <3>1. g # f /\ call[g].pc \notin {"idle", "load"}
      BY <1>1, <2>6, <2>11
    <3>2. HoldsLock(g)
      BY <3>1 DEF LockInv
    <3>3. Home[g] # Home[f]
      BY <2>2, <3>1, <3>2 DEF HoldsLock
    <3> QED
      BY <2>1, <2>5, <3>2, <3>3 DEF HoldsLock
  <2> QED
    BY <2>8, <2>9, <2>10, <2>11 DEF LockInv, HoldsLock
<1> QED
  BY <1>2, <1>3
(* A call that starts joins the promise chain of its process. *)
LEMMA LockBegin ==
  ASSUME TypeOK, LockInv, NEW f \in Fibers,
         BeginRead(f) \/ \E c \in Cmds, h \in 0..Len(store) : BeginExecute(f, c, h)
  PROVE  LockInv'
<1>1. \A g \in Fibers : g # f => call'[g] = call[g]
  BY DEF BeginRead, BeginExecute, TypeOK
<1>2. CASE BeginRead(f)
  BY <1>1, <1>2 DEF BeginRead, LockInv, HoldsLock
<1>3. ASSUME NEW c \in Cmds, NEW h \in 0..Len(store), BeginExecute(f, c, h) PROVE LockInv'
  <2> DEFINE q == lockQ[Home[f]]
             r == Append(q, f)
  <2>1. Home \in [Fibers -> Procs] /\ Home[f] \in Procs
    BY RuntimeAssumption
  <2>2. q \in Seq(Fibers) /\ Len(q) \in Nat
    BY <2>1 DEF TypeOK
  <2>3. Len(r) = Len(q) + 1 /\ r[Len(q) + 1] = f /\ \A n \in 1..Len(q) : r[n] = q[n]
    BY <2>2
  <2>4. lockQ'[Home[f]] = r /\ \A p \in Procs : p # Home[f] => lockQ'[p] = lockQ[p]
    BY <1>3, <2>1 DEF BeginExecute, TypeOK
  <2>5. f \notin Readers /\ call[f].pc = "idle" /\ call'[f].pc = "load"
    BY <1>3 DEF BeginExecute, TypeOK, Idle
  <2>6. \A n \in 1..Len(q) : q[n] # f
    BY <2>5 DEF LockInv
  <2>7. \A n \in 1..Len(q) : q[n] \in Fibers \ Readers /\ Home[q[n]] = Home[f]
    BY <2>1 DEF LockInv
  <2>8. \A m, n \in 1..Len(q) : q[m] = q[n] => m = n
    BY <2>1 DEF LockInv
  <2>9. \A g \in Fibers \ Readers :
          Home[g] = Home[f] => (call[g].pc # "idle" <=> \E n \in 1..Len(q) : q[n] = g)
    BY DEF LockInv
  <2>10. \A g \in Fibers \ Readers :
           Home[g] = Home[f] /\ call[g].pc \notin {"idle", "load"} => q # << >> /\ Head(q) = g
    BY DEF LockInv, HoldsLock
  <2>11. q # << >> => r # << >> /\ Head(r) = Head(q)
    BY <2>2
  <2> HIDE DEF q, r
  <2>12. ASSUME NEW p \in Procs, NEW n \in 1..Len(lockQ'[p])
         PROVE  lockQ'[p][n] \in Fibers \ Readers /\ Home[lockQ'[p][n]] = p
    <3>1. CASE p = Home[f]
      BY <2>2, <2>3, <2>4, <2>5, <2>7, <3>1
    <3>2. CASE p # Home[f]
      BY <2>4, <3>2 DEF LockInv
    <3> QED
      BY <3>1, <3>2
  <2>13. ASSUME NEW p \in Procs, NEW m \in 1..Len(lockQ'[p]), NEW n \in 1..Len(lockQ'[p]),
                lockQ'[p][m] = lockQ'[p][n]
         PROVE  m = n
    <3>1. CASE p = Home[f]
      BY <2>2, <2>3, <2>4, <2>6, <2>8, <2>13, <3>1
    <3>2. CASE p # Home[f]
      BY <2>4, <2>13, <3>2 DEF LockInv
    <3> QED
      BY <3>1, <3>2
  <2>14. ASSUME NEW g \in Fibers \ Readers
         PROVE  /\ call'[g].pc # "idle" <=> \E n \in 1..Len(lockQ'[Home[g]]) : lockQ'[Home[g]][n] = g
                /\ call'[g].pc \notin {"idle", "load"}
                     => lockQ'[Home[g]] # << >> /\ Head(lockQ'[Home[g]]) = g
    <3>1. CASE g = f
      BY <2>2, <2>3, <2>4, <2>5, <3>1
    <3>2. CASE g # f /\ Home[g] # Home[f]
      BY <1>1, <2>1, <2>4, <3>2 DEF LockInv, HoldsLock
    <3>3. CASE g # f /\ Home[g] = Home[f]
      BY <1>1, <2>2, <2>3, <2>4, <2>9, <2>10, <2>11, <3>3
    <3> QED
      BY <3>1, <3>2, <3>3
  <2> QED
    BY <2>12, <2>13, <2>14 DEF LockInv, HoldsLock
<1> QED
  BY <1>2, <1>3

(* A crash empties the promise chain of its process only. *)
LEMMA LockCrash == ASSUME TypeOK, LockInv, NEW p \in Procs, Crash(p) PROVE LockInv'
<1>1. /\ Len(lockQ'[p]) = 0
      /\ \A o \in Procs : o # p => lockQ'[o] = lockQ[o]
  BY DEF Crash, TypeOK
<1>2. \A f \in Fibers : call'[f] = IF Home[f] = p THEN Idle ELSE call[f]
  BY DEF Crash
<1>3. ASSUME NEW g \in Fibers \ Readers
      PROVE  /\ call'[g].pc # "idle" <=> \E n \in 1..Len(lockQ'[Home[g]]) : lockQ'[Home[g]][n] = g
             /\ call'[g].pc \notin {"idle", "load"}
                  => lockQ'[Home[g]] # << >> /\ Head(lockQ'[Home[g]]) = g
  <2>1. CASE Home[g] = p
    <3>1. Len(lockQ'[Home[g]]) = 0
      BY <1>1, <2>1
    <3>2. call'[g] = Idle /\ call'[g].pc = "idle"
      BY <1>2, <2>1 DEF Idle
    <3> QED
      BY <3>1, <3>2
  <2>2. CASE Home[g] # p
    BY <1>1, <1>2, <2>2, RuntimeAssumption DEF LockInv, HoldsLock
  <2> QED
    BY <2>1, <2>2
<1>4. ASSUME NEW o \in Procs, NEW n \in 1..Len(lockQ'[o])
      PROVE  /\ o # p
             /\ lockQ'[o] = lockQ[o]
  BY <1>1
<1> QED
  BY <1>3, <1>4 DEF LockInv, HoldsLock

(* No promise chain is held at first. *)
LEMMA LockInit == Init => LockInv
  BY RuntimeAssumption DEF Init, LockInv, Idle, HoldsLock
-----------------------------------------------------------------------------
(* The data. A prefix stays one when the log grows, and a prefix as long   *)
(* as the log is the log.                                                  *)
LEMMA PrefixSelf == ASSUME NEW s \in Seq(Receipt) PROVE IsPrefixOf(s, s)
  BY DEF IsPrefixOf

(* A prefix of a stream is one of the stream after an append. *)
LEMMA PrefixGrow ==
  ASSUME NEW s \in Seq(Receipt), NEW t \in Seq(Receipt), NEW r \in Receipt, IsPrefixOf(s, t)
  PROVE  IsPrefixOf(s, Append(t, r))
  BY DEF IsPrefixOf

(* Hashes being positions, the head hash of a cached chain is its length.  *)
LEMMA HeadIsLength ==
  ASSUME TypeOK, HashIsPosition, NEW s \in Seq(Receipt), IsPrefixOf(s, store)
  PROVE  HeadHash(s) = Len(s)
<1>1. CASE s = << >>
  BY <1>1 DEF HeadHash
<1>2. CASE s # << >>
  <2>1. Len(s) \in 1..Len(s) /\ Len(s) \in 1..Len(store)
    BY <1>2 DEF IsPrefixOf, TypeOK
  <2>2. s[Len(s)] = store[Len(s)]
    BY <2>1 DEF IsPrefixOf
  <2> QED
    BY <1>2, <2>1, <2>2 DEF HeadHash, HashIsPosition
<1> QED
  BY <1>1, <1>2

(* The one comparison of the append transaction: a chain whose head is the *)
(* stored head is the stored chain.                                        *)
LEMMA HeadMatchesMeansEqual ==
  ASSUME TypeOK, HashIsPosition, CachesArePrefixes, NEW f \in Fibers, HeadMatches(f)
  PROVE  call[f].chain = store
<1>1. call[f].chain \in Seq(Receipt) /\ store \in Seq(Receipt)
  BY CallFields DEF TypeOK
<1>2. IsPrefixOf(call[f].chain, store) /\ IsPrefixOf(store, store)
  BY <1>1, PrefixSelf DEF CachesArePrefixes
<1>3. Len(call[f].chain) = Len(store)
  BY <1>1, <1>2, HeadIsLength DEF HeadMatches
<1> QED
  BY <1>1, <1>2, <1>3 DEF IsPrefixOf

(* An idle fiber has appended nothing. *)
LEMMA IdleInv == ASSUME NEW f \in Fibers PROVE CallInv(f, Idle) /\ BatchInv(Idle)
  BY DEF Idle, CallInv, BatchInv

(* A step that stores nothing keeps the invariant when the new record of   *)
(* its fiber and the new snapshots satisfy their parts of it.              *)
LEMMA NoAppend ==
  ASSUME IInv, TypeOK', LockInv', store' = store, NEW f \in Fibers, NEW k \in Call,
         call' = [call EXCEPT ![f] = k],
         IsPrefixOf(k.chain, store), CallInv(f, k), BatchInv(k),
         \A p \in Procs : snap'[p] = snap[p] \/ IsPrefixOf(snap'[p].chain, store)
  PROVE  IInv'
<1>1. call'[f] = k /\ \A g \in Fibers : g # f => call'[g] = call[g]
  BY DEF IInv, TypeOK
<1>2. CachesArePrefixes'
  BY <1>1 DEF IInv, CachesArePrefixes
<1>3. CallsInv'
  BY <1>1 DEF IInv, CallsInv
<1> QED
  BY <1>2, <1>3 DEF IInv, HashIsPosition, ChainVerifies, EventIdOnce
(* Each action keeps the invariant. *)
LEMMA InvLoadCached == ASSUME IInv, NEW f \in Fibers, LoadCached(f) PROVE IInv'
<1> DEFINE c == snap[Home[f]].chain
<1>1. Home[f] \in Procs /\ c \in Seq(Receipt) /\ IsPrefixOf(c, store)
  BY SnapType, RuntimeAssumption DEF IInv, CachesArePrefixes
<1>2. /\ TypeOK' /\ store' = store /\ snap' = snap
      /\ call[f].pc = "load" /\ call[f] \in Call /\ CallInv(f, call[f])
  BY TypeLoadCached, CallType DEF IInv, CallsInv, LoadCached
<1>3. CASE f \in Readers
  <2> DEFINE k == [call[f] EXCEPT !.pc = "idle", !.result = "loaded", !.chain = c]
  <2>1. Finish(f, "loaded", c) /\ call' = [call EXCEPT ![f] = k]
    BY <1>3 DEF LoadCached, Finish
  <2>2. LockInv'
    BY <1>2, <1>3, <2>1, LockReleased DEF IInv
  <2>3. k \in Call /\ k.chain = c
    BY <1>1, <1>2 DEF Call, PCs, Results
  <2>4. CallInv(f, k) /\ BatchInv(k)
    BY <1>1, <1>2 DEF Call, CallInv, BatchInv
  <2> QED
    BY <1>1, <1>2, <2>1, <2>2, <2>3, <2>4, NoAppend
<1>4. CASE f \notin Readers
  <2> DEFINE k == [call[f] EXCEPT !.pc = "decide", !.chain = c]
  <2>1. call' = [call EXCEPT ![f] = k] /\ lockQ' = lockQ /\ HoldsLock(f)
    BY <1>4 DEF LoadCached
  <2>2. k \in Call /\ k.chain = c /\ k.pc = "decide"
    BY <1>1, <1>2 DEF Call, PCs
  <2>3. LockInv'
    BY <1>2, <2>1, <2>2, LockKept DEF IInv, TypeOK
  <2>4. CallInv(f, k) /\ BatchInv(k)
    BY <1>1, <1>2, <1>4 DEF Call, CallInv, BatchInv
  <2> QED
    BY <1>1, <1>2, <2>1, <2>2, <2>3, <2>4, NoAppend
<1> QED
  BY <1>3, <1>4

(* A cache miss keeps the invariant. *)
LEMMA InvLoadMiss == ASSUME IInv, NEW f \in Fibers, LoadMiss(f) PROVE IInv'
<1> DEFINE k == [call[f] EXCEPT !.pc = "read"]
<1>1. /\ TypeOK' /\ store' = store /\ snap' = snap /\ lockQ' = lockQ
      /\ call' = [call EXCEPT ![f] = k] /\ call[f].pc = "load"
      /\ f \in Readers \/ HoldsLock(f)
  BY TypeLoadMiss DEF IInv, LoadMiss
<1>2. /\ call[f] \in Call /\ CallInv(f, call[f]) /\ BatchInv(call[f])
      /\ IsPrefixOf(call[f].chain, store)
  BY CallType DEF IInv, CallsInv, CachesArePrefixes
<1>3. k \in Call /\ k.chain = call[f].chain /\ k.pc = "read"
  BY <1>2 DEF Call, PCs
<1>4. LockInv'
  BY <1>1, <1>3, LockKept DEF IInv, TypeOK
<1>5. CallInv(f, k) /\ BatchInv(k)
  BY <1>1, <1>2 DEF Call, CallInv, BatchInv
<1> QED
  BY <1>1, <1>2, <1>3, <1>4, <1>5, NoAppend

(* The read of the receipts keeps the invariant. *)
LEMMA InvReadStore == ASSUME IInv, NEW f \in Fibers, ReadStore(f) PROVE IInv'
<1> DEFINE k == [call[f] EXCEPT !.pc = "version", !.chain = store]
<1>1. /\ TypeOK' /\ store' = store /\ snap' = snap /\ lockQ' = lockQ
      /\ call' = [call EXCEPT ![f] = k] /\ call[f].pc = "read"
  BY TypeReadStore DEF IInv, ReadStore
<1>2. f \in Readers \/ HoldsLock(f)
  BY <1>1, PastLock DEF IInv
<1>3. store \in Seq(Receipt) /\ IsPrefixOf(store, store)
  BY PrefixSelf DEF IInv, TypeOK
<1>4. call[f] \in Call /\ CallInv(f, call[f])
  BY CallType DEF IInv, CallsInv
<1>5. k \in Call /\ k.chain = store /\ k.pc = "version"
  BY <1>3, <1>4 DEF Call, PCs
<1>6. LockInv'
  BY <1>1, <1>2, <1>5, LockKept DEF IInv, TypeOK
<1>7. CallInv(f, k) /\ BatchInv(k)
  BY <1>1, <1>3, <1>4 DEF Call, CallInv, BatchInv
<1> QED
  BY <1>1, <1>3, <1>5, <1>6, <1>7, NoAppend

(* The read of the version, however late, keeps the invariant. *)
LEMMA InvReadVersion == ASSUME IInv, NEW f \in Fibers, ReadVersion(f) PROVE IInv'
<1> DEFINE k == [call[f] EXCEPT !.pc = "install", !.version = Version(store)]
<1>1. /\ TypeOK' /\ store' = store /\ snap' = snap /\ lockQ' = lockQ
      /\ call' = [call EXCEPT ![f] = k] /\ call[f].pc = "version"
  BY TypeReadVersion DEF IInv, ReadVersion
<1>2. f \in Readers \/ HoldsLock(f)
  BY <1>1, PastLock DEF IInv
<1>3. /\ call[f] \in Call /\ CallInv(f, call[f]) /\ BatchInv(call[f])
      /\ IsPrefixOf(call[f].chain, store)
  BY CallType DEF IInv, CallsInv, CachesArePrefixes
<1>4. Version(store) \in Nat \X Nat
  BY HeadHashType DEF IInv, TypeOK, Version
<1>5. k \in Call /\ k.chain = call[f].chain /\ k.pc = "install"
  BY <1>3, <1>4 DEF Call, PCs
<1>6. LockInv'
  BY <1>1, <1>2, <1>5, LockKept DEF IInv, TypeOK
<1>7. CallInv(f, k) /\ BatchInv(k)
  BY <1>1, <1>3 DEF Call, CallInv, BatchInv
<1> QED
  BY <1>1, <1>3, <1>5, <1>6, <1>7, NoAppend
(* The installation of a snapshot, however old, keeps the invariant. *)
LEMMA InvInstallSnapshot == ASSUME IInv, NEW f \in Fibers, InstallSnapshot(f) PROVE IInv'
<1>1. /\ TypeOK' /\ store' = store /\ call[f].pc = "install"
  BY TypeInstallSnapshot DEF IInv, InstallSnapshot
<1>2. f \in Readers \/ HoldsLock(f)
  BY <1>1, PastLock DEF IInv
<1>3. /\ call[f] \in Call /\ CallInv(f, call[f]) /\ BatchInv(call[f])
      /\ IsPrefixOf(call[f].chain, store) /\ call[f].done \in Nat
  BY CallType, CallFields DEF IInv, CallsInv, CachesArePrefixes
<1>4. \A p \in Procs : snap'[p] = snap[p] \/ IsPrefixOf(snap'[p].chain, store)
  BY <1>3 DEF InstallSnapshot, IInv, TypeOK
<1>5. ASSUME NEW res \in {"loaded", "ok"}, Finish(f, res, call[f].chain),
             res = "ok" => f \notin Readers /\ call[f].done > 0
      PROVE  IInv'
  <2> DEFINE k == [call[f] EXCEPT !.pc = "idle", !.result = res, !.chain = call[f].chain]
  <2>1. call' = [call EXCEPT ![f] = k]
    BY <1>5 DEF Finish
  <2>2. LockInv'
    BY <1>1, <1>2, <1>5, LockReleased DEF IInv
  <2>3. k \in Call /\ k.chain = call[f].chain
    BY <1>3 DEF Call, PCs, Results
  <2>4. CallInv(f, k) /\ BatchInv(k)
    BY <1>1, <1>3, <1>5 DEF Call, CallInv, BatchInv
  <2> QED
    BY <1>1, <1>3, <1>4, <2>1, <2>2, <2>3, <2>4, NoAppend
<1>6. ASSUME f \notin Readers, ~(call[f].done > 0),
             call' = [call EXCEPT ![f].pc = "decide"], lockQ' = lockQ
      PROVE  IInv'
  <2> DEFINE k == [call[f] EXCEPT !.pc = "decide"]
  <2>1. k \in Call /\ k.chain = call[f].chain /\ k.pc = "decide" /\ call' = [call EXCEPT ![f] = k]
    BY <1>3, <1>6 DEF Call, PCs
  <2>2. LockInv'
    BY <1>1, <1>2, <1>6, <2>1, LockKept DEF IInv, TypeOK
  <2>3. CallInv(f, k) /\ BatchInv(k)
    BY <1>1, <1>3, <1>6 DEF Call, CallInv, BatchInv
  <2> QED
    BY <1>1, <1>3, <1>4, <2>1, <2>2, <2>3, NoAppend
<1> QED
  BY <1>5, <1>6 DEF InstallSnapshot

(* The decision of a command keeps the invariant. *)
LEMMA InvDecideCommand == ASSUME IInv, NEW f \in Fibers, DecideCommand(f) PROVE IInv'
<1>1. /\ TypeOK' /\ store' = store /\ snap' = snap /\ call[f].pc = "decide"
  BY TypeDecideCommand DEF IInv, DecideCommand
<1>2. f \in Readers \/ HoldsLock(f)
  BY <1>1, PastLock DEF IInv
<1>3. /\ call[f] \in Call /\ CallInv(f, call[f]) /\ BatchInv(call[f])
      /\ IsPrefixOf(call[f].chain, store) /\ call[f].chain \in Seq(Receipt)
  BY CallType, CallFields DEF IInv, CallsInv, CachesArePrefixes
<1>4. ASSUME NEW res \in {"duplicate", "stale"}, Finish(f, res, call[f].chain) PROVE IInv'
  <2> DEFINE k == [call[f] EXCEPT !.pc = "idle", !.result = res, !.chain = call[f].chain]
  <2>1. call' = [call EXCEPT ![f] = k]
    BY <1>4 DEF Finish
  <2>2. LockInv'
    BY <1>1, <1>2, <1>4, LockReleased DEF IInv
  <2>3. k \in Call /\ k.chain = call[f].chain
    BY <1>3 DEF Call, PCs, Results
  <2>4. CallInv(f, k) /\ BatchInv(k)
    BY <1>1, <1>3 DEF Call, CallInv, BatchInv
  <2> QED
    BY <1>1, <1>3, <2>1, <2>2, <2>3, <2>4, NoAppend
<1>5. ASSUME ~AlreadyApplied(call[f].chain, call[f].cmd), ExpectedMatches(f),
             call' = [call EXCEPT ![f].pc = "append"], lockQ' = lockQ
      PROVE  IInv'
  <2> DEFINE k == [call[f] EXCEPT !.pc = "append"]
  <2>1. k \in Call /\ k.chain = call[f].chain /\ k.pc = "append" /\ call' = [call EXCEPT ![f] = k]
    BY <1>3, <1>5 DEF Call, PCs
  <2>2. LockInv'
    BY <1>1, <1>2, <1>5, <2>1, LockKept DEF IInv, TypeOK
  <2>3. f \notin Readers /\ call[f].done = 0 /\ call[f].cmd \in Cmds /\ NEvents[call[f].cmd] \in Nat \ {0}
    BY <1>1, <1>3, RuntimeAssumption DEF CallInv
  <2>4. HeadHash(call[f].chain) = Len(call[f].chain)
    BY <1>3, HeadIsLength DEF IInv
  <2>5. k.done = 0 /\ k.cmd = call[f].cmd /\ k.expected = call[f].expected /\ k.result = call[f].result
    BY <1>3, <2>3 DEF Call
  <2>6. CallInv(f, k)
    BY <1>3, <2>1, <2>3, <2>5 DEF CallInv
  <2>7. k.expected # 0 => k.expected = Len(k.chain)
    BY <1>5, <2>1, <2>4, <2>5 DEF ExpectedMatches
  <2>8. k.cmd \in Keyed => \A n \in 1..Len(k.chain) : k.chain[n].cmd # k.cmd
    BY <1>5, <2>1, <2>5 DEF AlreadyApplied
  <2>9. Len(k.chain) \in Nat
    BY <1>3, <2>1
  <2> HIDE DEF k
  <2>10. BatchInv(k)
    BY <2>5, <2>7, <2>8, <2>9 DEF BatchInv
  <2> QED
    BY <1>1, <1>3, <2>1, <2>2, <2>6, <2>10, NoAppend
<1> QED
  BY <1>4, <1>5 DEF DecideCommand

(* A conflict and a failing reducer keep the invariant. *)
LEMMA InvThrow ==
  ASSUME IInv, NEW f \in Fibers, AppendConflict(f) \/ ReducerRejects(f) PROVE IInv'
<1>1. /\ TypeOK' /\ store' = store /\ snap' = snap /\ call[f].pc = "append"
  BY TypeThrow DEF IInv, AppendConflict, ReducerRejects
<1>2. f \in Readers \/ HoldsLock(f)
  BY <1>1, PastLock DEF IInv
<1>3. /\ call[f] \in Call /\ CallInv(f, call[f]) /\ BatchInv(call[f])
      /\ IsPrefixOf(call[f].chain, store)
  BY CallType DEF IInv, CallsInv, CachesArePrefixes
<1>4. PICK res \in {"conflict", "rejected"} : Finish(f, res, call[f].chain)
  BY DEF AppendConflict, ReducerRejects
<1> DEFINE k == [call[f] EXCEPT !.pc = "idle", !.result = res, !.chain = call[f].chain]
<1>5. call' = [call EXCEPT ![f] = k]
  BY <1>4 DEF Finish
<1>6. LockInv'
  BY <1>1, <1>2, <1>4, LockReleased DEF IInv
<1>7. k \in Call /\ k.chain = call[f].chain
  BY <1>3 DEF Call, PCs, Results
<1>8. CallInv(f, k) /\ BatchInv(k)
  BY <1>1, <1>3 DEF Call, CallInv, BatchInv
<1> QED
  BY <1>1, <1>3, <1>5, <1>6, <1>7, <1>8, NoAppend
(* The start of a call keeps the invariant. *)
LEMMA InvBegin ==
  ASSUME IInv, NEW f \in Fibers,
         BeginRead(f) \/ \E c \in Cmds, h \in 0..Len(store) : BeginExecute(f, c, h)
  PROVE  IInv'
<1>1. TypeOK' /\ LockInv' /\ store' = store /\ snap' = snap
  BY TypeBegin, LockBegin DEF IInv, BeginRead, BeginExecute
<1>2. IsPrefixOf(<< >>, store)
  BY DEF IsPrefixOf, IInv, TypeOK
<1>3. CASE BeginRead(f)
  <2> DEFINE k == [Idle EXCEPT !.pc = "load", !.start = Len(store)]
  <2>1. call' = [call EXCEPT ![f] = k] /\ f \in Readers
    BY <1>3 DEF BeginRead
  <2>2. k \in Call
    BY <1>1, <2>1 DEF IInv, TypeOK
  <2>3. k.chain = << >> /\ CallInv(f, k) /\ BatchInv(k)
    BY <2>1 DEF Idle, CallInv, BatchInv
  <2> QED
    BY <1>1, <1>2, <2>1, <2>2, <2>3, NoAppend
<1>4. ASSUME NEW c \in Cmds, NEW h \in 0..Len(store), BeginExecute(f, c, h) PROVE IInv'
  <2> DEFINE k == [Idle EXCEPT !.pc = "load", !.cmd = c, !.expected = h, !.start = Len(store)]
  <2>1. call' = [call EXCEPT ![f] = k] /\ f \notin Readers
    BY <1>4 DEF BeginExecute
  <2>2. k \in Call
    BY <1>1, <2>1 DEF IInv, TypeOK
  <2>3. k.chain = << >> /\ CallInv(f, k) /\ BatchInv(k)
    BY <2>1 DEF Idle, CallInv, BatchInv
  <2> QED
    BY <1>1, <1>2, <2>1, <2>2, <2>3, NoAppend
<1> QED
  BY <1>3, <1>4

(* A crash keeps the invariant. *)
LEMMA InvCrash == ASSUME IInv, NEW p \in Procs, Crash(p) PROVE IInv'
<1>1. TypeOK' /\ LockInv' /\ store' = store
  BY TypeCrash, LockCrash DEF IInv, Crash
<1>2. \A f \in Fibers : call'[f] = Idle \/ call'[f] = call[f]
  BY DEF Crash
<1>3. \A o \in Procs : snap'[o] = NoSnap \/ snap'[o] = snap[o]
  BY DEF Crash, IInv, TypeOK
<1>4. IsPrefixOf(<< >>, store)
  BY DEF IsPrefixOf, IInv, TypeOK
<1>5. Idle.chain = << >> /\ NoSnap.chain = << >>
  BY DEF Idle, NoSnap
<1>6. CachesArePrefixes'
  <2>1. ASSUME NEW f \in Fibers PROVE IsPrefixOf(call'[f].chain, store)
    BY <1>2, <1>4, <1>5 DEF IInv, CachesArePrefixes
  <2>2. ASSUME NEW o \in Procs PROVE IsPrefixOf(snap'[o].chain, store)
    BY <1>3, <1>4, <1>5 DEF IInv, CachesArePrefixes
  <2> QED
    BY <1>1, <2>1, <2>2 DEF CachesArePrefixes
<1>7. CallsInv'
  BY <1>2, IdleInv DEF IInv, CallsInv
<1> QED
  BY <1>1, <1>6, <1>7 DEF IInv, HashIsPosition, ChainVerifies, EventIdOnce

(* The append: the writer's chain is the store, so the receipt it adds is  *)
(* new, is linked to the head, and continues the writer's batch.           *)
LEMMA InvAppendEvent == ASSUME IInv, NEW f \in Fibers, AppendEvent(f) PROVE IInv'
<1> DEFINE r == NextReceipt(f)
           c == call[f].cmd
           L == Len(store)
<1>1. /\ store \in Seq(Receipt) /\ L \in Nat /\ call[f] \in Call
      /\ call[f].done \in Nat /\ call[f].pc = "append"
      /\ CallInv(f, call[f]) /\ BatchInv(call[f])
  BY CallType, CallFields DEF IInv, TypeOK, CallsInv, AppendEvent
<1>2. f \notin Readers /\ c \in Cmds /\ NEvents[c] \in Nat /\ call[f].done < NEvents[c]
  BY <1>1, RuntimeAssumption DEF CallInv
<1>3. call[f].chain = store
  BY HeadMatchesMeansEqual DEF IInv, AppendEvent
<1>4. HeadHash(store) = L
  BY <1>1, PrefixSelf, HeadIsLength DEF IInv
<1>5. r = [hash |-> L + 1, prev |-> L, cmd |-> c, idx |-> call[f].done + 1]
  BY <1>3, <1>4 DEF NextReceipt
<1>6. r \in Receipt /\ r.hash = L + 1 /\ r.prev = L /\ r.cmd = c /\ r.idx = call[f].done + 1
  BY <1>1, <1>2, <1>5 DEF Receipt
<1>7. /\ store' = Append(store, r) /\ Len(store') = L + 1 /\ store'[L + 1] = r
      /\ \A n \in 1..L : store'[n] = store[n]
      /\ snap' = snap /\ lockQ' = lockQ
  BY <1>1, <1>6 DEF AppendEvent
<1>8. PICK pc \in {"append", "version"} :
        /\ pc = "version" <=> LastEvent(f)
        /\ call' = [call EXCEPT ![f] = [@ EXCEPT !.pc = pc, !.done = call[f].done + 1,
                                      !.chain = Append(call[f].chain, NextReceipt(f))]]
  BY DEF AppendEvent
<1> DEFINE k == call'[f]
<1>9. /\ k.pc = pc /\ k.done = call[f].done + 1 /\ k.chain = store'
      /\ k.cmd = c /\ k.expected = call[f].expected /\ k.result = call[f].result
  BY <1>1, <1>3, <1>7, <1>8 DEF IInv, TypeOK, Call
<1>10. \A g \in Fibers : g # f => call'[g] = call[g]
  BY <1>8 DEF IInv, TypeOK
<1>11. TypeOK'
  BY <1>2, TypeAppendEvent DEF IInv
<1>12. LockInv'
  BY <1>1, <1>2, <1>7, <1>9, <1>10, PastLock, LockKept DEF IInv
<1> HIDE DEF r, c, L, k
<1>13. HashIsPosition'
  BY <1>1, <1>6, <1>7 DEF IInv, HashIsPosition
<1>14. ChainVerifies'
  <2>1. ASSUME NEW n \in 1..(L + 1) PROVE store'[n].prev = IF n = 1 THEN 0 ELSE store'[n-1].hash
    <3>1. CASE n \in 1..L
      BY <1>1, <1>7, <3>1 DEF IInv, ChainVerifies, L
    <3>2. CASE n = L + 1
      BY <1>1, <1>6, <1>7, <3>2 DEF IInv, HashIsPosition, L
    <3> QED
      BY <1>1, <3>1, <3>2
  <2> QED
    BY <1>7, <2>1 DEF ChainVerifies
<1>15. CachesArePrefixes'
  <2>1. ASSUME NEW p \in Procs PROVE IsPrefixOf(snap'[p].chain, store')
    BY <1>1, <1>6, <1>7, SnapType, PrefixGrow DEF IInv, CachesArePrefixes
  <2>2. ASSUME NEW g \in Fibers, g # f PROVE IsPrefixOf(call'[g].chain, store')
    BY <1>1, <1>6, <1>7, <1>10, <2>2, CallFields, PrefixGrow DEF IInv, CachesArePrefixes
  <2>3. IsPrefixOf(call'[f].chain, store')
    BY <1>9, <1>11, PrefixSelf DEF TypeOK, k
  <2> QED
    BY <2>1, <2>2, <2>3 DEF CachesArePrefixes
<1>16. CallInv(f, k)
  BY <1>1, <1>2, <1>8, <1>9 DEF CallInv, LastEvent, c
<1>17. BatchInv(k)
  <2> DEFINE d == call[f].done
  <2>1. d \in Nat /\ L \in Nat /\ k.done = d + 1 /\ Len(k.chain) = L + 1
    BY <1>1, <1>7, <1>9
  <2>2. /\ d <= L
        /\ \A i \in 1..d : store[L - d + i].cmd = c /\ store[L - d + i].idx = i
        /\ c \in Keyed => \A n \in 1..L : store[n].cmd = c => store[n].idx <= d
    BY <1>1, <1>3 DEF BatchInv, L, c
  <2> HIDE DEF d
  <2>3. k.done <= Len(k.chain)
    BY <2>1, <2>2
  <2>4. ASSUME NEW i \in 1..k.done
        PROVE  /\ k.chain[Len(k.chain) - k.done + i].cmd = k.cmd
               /\ k.chain[Len(k.chain) - k.done + i].idx = i
    <3>1. CASE i \in 1..d
      <4>1. L - d + i \in 1..L /\ Len(k.chain) - k.done + i = L - d + i
        BY <2>1, <2>2, <3>1
      <4> QED
        BY <1>7, <1>9, <2>2, <3>1, <4>1
    <3>2. CASE i = d + 1
      <4>1. Len(k.chain) - k.done + i = L + 1
        BY <2>1, <3>2
      <4> QED
        BY <1>6, <1>7, <1>9, <3>2, <4>1 DEF d
    <3> QED
      BY <2>1, <3>1, <3>2
  <2>5. k.expected # 0 => k.expected = Len(k.chain) - k.done
    <3>1. call[f].expected # 0 => call[f].expected = L - d
      BY <1>1, <1>3 DEF BatchInv, L, d
    <3>2. Len(k.chain) - k.done = L - d
      BY <2>1
    <3> QED
      BY <1>9, <3>1, <3>2
  <2>6. ASSUME k.cmd \in Keyed, NEW n \in 1..Len(k.chain), k.chain[n].cmd = k.cmd
        PROVE  k.chain[n].idx <= k.done
    <3>1. CASE n \in 1..L
      <4>1. k.chain[n] = store[n] /\ store[n] \in Receipt
        BY <1>1, <1>7, <1>9, <3>1 DEF L
      <4>2. store[n].idx <= d /\ store[n].idx \in Nat
        BY <1>9, <2>6, <2>2, <3>1, <4>1 DEF Receipt
      <4> QED
        BY <2>1, <4>1, <4>2
    <3>2. CASE n = L + 1
      BY <1>6, <1>7, <1>9, <2>1, <3>2 DEF d
    <3> QED
      BY <2>1, <3>1, <3>2
  <2> QED
    BY <2>3, <2>4, <2>5, <2>6 DEF BatchInv
<1>18. CallsInv'
  BY <1>10, <1>16, <1>17 DEF IInv, CallsInv, k
<1>19. EventIdOnce'
  <2>1. ASSUME NEW n \in 1..L, c \in Keyed, store[n].cmd = c PROVE store[n].idx # r.idx
    <3>1. store[n].idx <= call[f].done
      BY <1>1, <1>3, <2>1 DEF BatchInv, L, c
    <3>2. store[n] \in Receipt
      BY <1>1 DEF L
    <3>3. store[n].idx \in Nat
      BY <3>2 DEF Receipt
    <3> QED
      BY <1>1, <1>6, <3>1, <3>3
  <2>2. ASSUME NEW m \in 1..(L + 1), NEW n \in 1..(L + 1), store'[m].cmd = store'[n].cmd,
               store'[m].idx = store'[n].idx, store'[m].cmd \in Keyed
        PROVE  m = n
    <3>1. CASE m \in 1..L /\ n \in 1..L
      BY <1>7, <2>2, <3>1 DEF IInv, EventIdOnce, L
    <3>2. CASE m = L + 1 /\ n \in 1..L
      BY <1>6, <1>7, <2>1, <2>2, <3>2
    <3>3. CASE m \in 1..L /\ n = L + 1
      BY <1>6, <1>7, <2>1, <2>2, <3>3
    <3> QED
      BY <1>1, <3>1, <3>2, <3>3
  <2> QED
    BY <1>7, <2>2 DEF EventIdOnce
<1> QED
  BY <1>11, <1>12, <1>13, <1>14, <1>15, <1>18, <1>19 DEF IInv
-----------------------------------------------------------------------------
(* The invariant is inductive. *)
LEMMA InitInv == Init => IInv
<1> SUFFICES ASSUME Init PROVE IInv
  OBVIOUS
<1>1. TypeOK /\ LockInv
  BY TypeInit, LockInit
<1>2. store = << >> /\ Len(store) = 0
  BY DEF Init
<1>3. CachesArePrefixes
  BY <1>2 DEF Init, CachesArePrefixes, IsPrefixOf, NoSnap, Idle
<1>4. CallsInv
  BY IdleInv DEF Init, CallsInv
<1> QED
  BY <1>1, <1>2, <1>3, <1>4 DEF IInv, HashIsPosition, ChainVerifies, EventIdOnce

(* Every step keeps the invariant. *)
LEMMA NextInv == IInv /\ [Next]_vars => IInv'
<1> SUFFICES ASSUME IInv, [Next]_vars PROVE IInv'
  OBVIOUS
<1>1. ASSUME NEW f \in Fibers, Step(f) PROVE IInv'
  BY <1>1, InvLoadCached, InvLoadMiss, InvReadStore, InvReadVersion, InvInstallSnapshot,
     InvDecideCommand, InvAppendEvent, InvThrow DEF Step
<1>2. ASSUME NEW f \in Fibers,
             BeginRead(f) \/ \E c \in Cmds, h \in 0..Len(store) : BeginExecute(f, c, h)
      PROVE  IInv'
  BY <1>2, InvBegin
<1>3. ASSUME NEW p \in Procs, Crash(p) PROVE IInv'
  BY <1>3, InvCrash
<1>4. CASE UNCHANGED vars
  BY <1>4 DEF vars, IInv, TypeOK, LockInv, HoldsLock, HashIsPosition, ChainVerifies,
              CachesArePrefixes, CallsInv, EventIdOnce
<1> QED
  BY <1>1, <1>2, <1>3, <1>4 DEF Next

(* The inductive invariant holds in every reachable state. *)
THEOREM Invariance == Spec => []IInv
<1> QED
  BY InitInv, NextInv, PTL DEF Spec

-----------------------------------------------------------------------------
(* Type correctness, for any number of processes and fibers. *)
THEOREM TypeCorrect == Spec => []TypeOK
<1>1. IInv => TypeOK
  BY DEF IInv
<1> QED
  BY <1>1, Invariance, PTL

(* A stream verifies whatever processes wrote to it, in whatever order and *)
(* from whatever stale caches.                                             *)
THEOREM StreamVerifies == Spec => []ChainVerifies
<1>1. IInv => ChainVerifies
  BY DEF IInv
<1> QED
  BY <1>1, Invariance, PTL

(* No retry, in any process, records an event of an eventId twice. *)
THEOREM EventIdsAreIdempotent == Spec => []EventIdOnce
<1>1. IInv => EventIdOnce
  BY DEF IInv
<1> QED
  BY <1>1, Invariance, PTL

(* No cache ever holds a receipt that is not in the store. *)
THEOREM CachesLag == Spec => []CachesArePrefixes
<1>1. IInv => CachesArePrefixes
  BY DEF IInv
<1> QED
  BY <1>1, Invariance, PTL

(* A successful execute stored its whole batch in one block, right after   *)
(* the head it expected.                                                   *)
THEOREM SuccessIsAtomic == Spec => []OkMeansWholeBatch
<1>1. ASSUME IInv, NEW f \in Fibers, call[f].result = "ok"
      PROVE  LET c == call[f].cmd
                 first == Len(call[f].chain) - NEvents[c] IN
             /\ first >= 0
             /\ \A i \in 1..NEvents[c] : store[first + i].cmd = c /\ store[first + i].idx = i
             /\ call[f].expected # 0 => call[f].expected = first
  <2> DEFINE c == call[f].cmd
             L == Len(call[f].chain)
             d == call[f].done
             first == L - d
  <2>1. /\ CallInv(f, call[f]) /\ BatchInv(call[f]) /\ IsPrefixOf(call[f].chain, store)
        /\ d \in Nat /\ L \in Nat
    <3>1. call[f].chain \in Seq(Receipt) /\ call[f].done \in Nat
      BY <1>1, CallFields DEF IInv
    <3> QED
      BY <1>1, <3>1 DEF IInv, CallsInv, CachesArePrefixes
  <2>2. c \in Cmds /\ d = NEvents[c] /\ d > 0
    BY <1>1, <2>1, RuntimeAssumption DEF CallInv
  <2>3. d <= L /\ (call[f].expected # 0 => call[f].expected = L - d)
    BY <2>1, <2>2 DEF BatchInv
  <2>4. \A i \in 1..d : call[f].chain[L - d + i].cmd = c /\ call[f].chain[L - d + i].idx = i
    BY <2>1 DEF BatchInv
  <2>5. \A n \in 1..L : call[f].chain[n] = store[n]
    BY <2>1 DEF IsPrefixOf
  <2> HIDE DEF c, L, d
  <2>6. ASSUME NEW i \in 1..d PROVE store[first + i].cmd = c /\ store[first + i].idx = i
    <3>1. first + i \in 1..L
      BY <2>1, <2>3
    <3> QED
      BY <2>4, <2>5, <3>1
  <2>7. first >= 0
    BY <2>1, <2>3
  <2> QED
    BY <2>2, <2>3, <2>6, <2>7 DEF c, L, d
<1>2. IInv => OkMeansWholeBatch
  BY <1>1 DEF OkMeansWholeBatch
<1> QED
  BY <1>2, Invariance, PTL

-----------------------------------------------------------------------------
(* The refinement: every step appends to the log what ReceiptLog allows,   *)
(* or leaves it.                                                           *)
LogBar(s) == [n \in 1..Len(s) |-> [cmd |-> s[n].cmd, idx |-> s[n].idx]]

(* An empty stream is the empty log. *)
LEMMA LogInit == Init => Log!Init
<1> SUFFICES ASSUME Init PROVE Log!Init
  OBVIOUS
<1>1. store = << >> /\ 1..Len(store) = {}
  BY DEF Init
<1> QED
  BY <1>1 DEF Log!Init

(* An append that succeeds is a step of the abstract log. *)
LEMMA AppendRecords ==
  ASSUME IInv, NEW f \in Fibers, AppendEvent(f)
  PROVE  Log!Next
<1> DEFINE c == call[f].cmd
           d == call[f].done
           L == Len(store)
           r == NextReceipt(f)
<1>1. /\ store \in Seq(Receipt) /\ L \in Nat /\ d \in Nat /\ call[f].pc = "append"
      /\ CallInv(f, call[f]) /\ BatchInv(call[f])
  BY CallFields DEF IInv, TypeOK, CallsInv, AppendEvent
<1>2. c \in Cmds /\ NEvents[c] \in Nat /\ d < NEvents[c]
  BY <1>1, RuntimeAssumption DEF CallInv
<1>3. call[f].chain = store
  BY HeadMatchesMeansEqual DEF IInv, AppendEvent
<1>4. r \in Receipt /\ r.cmd = c /\ r.idx = d + 1
  <2>1. HeadHash(call[f].chain) \in Nat
    BY <1>1, <1>3, HeadHashType
  <2> QED
    BY <1>1, <1>2, <2>1 DEF NextReceipt, Receipt
<1>5. /\ store' = Append(store, r) /\ Len(store') = L + 1 /\ store'[L + 1] = r
      /\ \A n \in 1..L : store'[n] = store[n]
  BY <1>1, <1>4 DEF AppendEvent
<1>6. d <= L /\ (\A i \in 1..d : store[L - d + i].cmd = c /\ store[L - d + i].idx = i)
  BY <1>1, <1>3 DEF BatchInv
<1>7. c \in Keyed => \A n \in 1..L : store[n].cmd = c => store[n].idx <= d
  BY <1>1, <1>3 DEF BatchInv
<1>8. \A n \in 1..L : store[n].cmd \in Cmds /\ store[n].idx \in Nat
  <2>1. \A n \in 1..L : store[n] \in Receipt
    BY <1>1
  <2> QED
    BY <2>1 DEF Receipt
<1> DEFINE log == LogBar(store)
<1>9. Len(log) = L /\ \A n \in 1..L : log[n] = [cmd |-> store[n].cmd, idx |-> store[n].idx]
  BY <1>1 DEF LogBar
<1> HIDE DEF c, d, L, r
<1>10. d + 1 \in 1..NEvents[c]
  BY <1>1, <1>2
<1>11. d + 1 > 1 => L > 0 /\ log[L] = [cmd |-> c, idx |-> (d + 1) - 1]
  <2> SUFFICES ASSUME d + 1 > 1 PROVE L > 0 /\ log[L] = [cmd |-> c, idx |-> (d + 1) - 1]
    OBVIOUS
  <2>1. L > 0 /\ L \in 1..L /\ d \in 1..d /\ L - d + d = L /\ (d + 1) - 1 = d
    BY <1>1, <1>6
  <2>2. store[L].cmd = c /\ store[L].idx = d
    BY <1>6, <2>1
  <2> QED
    BY <1>9, <2>1, <2>2
<1>12. c \in Keyed => ~ \E n \in 1..L : log[n].cmd = c /\ log[n].idx = d + 1
  <2> SUFFICES ASSUME c \in Keyed, NEW n \in 1..L, log[n].cmd = c, log[n].idx = d + 1 PROVE FALSE
    OBVIOUS
  <2>1. store[n].cmd = c /\ store[n].idx = d + 1
    BY <1>9
  <2> QED
    BY <1>1, <1>7, <2>1
<1>13. LogBar(store') = Append(log, [cmd |-> c, idx |-> d + 1])
  <2>1. LogBar(store') = [n \in 1..(L + 1) |-> [cmd |-> store'[n].cmd, idx |-> store'[n].idx]]
    BY <1>5 DEF LogBar
  <2>2. log = [n \in 1..L |-> [cmd |-> store[n].cmd, idx |-> store[n].idx]]
    BY DEF LogBar, L
  <2>3. log \in Seq([cmd : Cmds, idx : Nat])
    BY <1>1, <1>8, <2>2
  <2> QED
    BY <1>1, <1>4, <1>5, <1>9, <2>1, <2>3
<1> QED
  BY <1>2, <1>10, <1>11, <1>12, <1>9, <1>13 DEF Log!Next, Log!Record, Log!Occurs, LogBar, L

(* Every step of the runtime is a step of the log, or none. *)
LEMMA LogNext == IInv /\ [Next]_vars => [Log!Next]_(LogBar(store))
<1> SUFFICES ASSUME IInv, [Next]_vars PROVE Log!Next \/ LogBar(store') = LogBar(store)
  BY DEF LogBar
<1>1. CASE \E f \in Fibers : AppendEvent(f)
  BY <1>1, AppendRecords
<1>2. CASE ~ \E f \in Fibers : AppendEvent(f)
  <2>1. store' = store
    BY <1>2 DEF Next, Step, BeginRead, BeginExecute, LoadCached, LoadMiss, ReadStore, ReadVersion,
                InstallSnapshot, DecideCommand, AppendConflict, ReducerRejects, Crash, vars
  <2> QED
    BY <2>1
<1> QED
  BY <1>1, <1>2

(* The runtime, with all its caches, locks, races and crashes, implements  *)
(* the append-only log of ReceiptLog.                                      *)
THEOREM Refinement == Spec => ImplementsLog
<1>1. Init => Log!Init
  BY LogInit
<1>2. IInv /\ [Next]_vars => [Log!Next]_(LogBar(store))
  BY LogNext
<1> QED
  BY <1>1, <1>2, Invariance, PTL DEF Spec, ImplementsLog, Log!Spec, LogBar

-----------------------------------------------------------------------------
(* One process, and no reader beside its executes: only the fiber that     *)
(* holds the lock appends, so what it loaded stays the store, and a cache  *)
(* whose version is that of the store is the store.  A call that has       *)
(* passed "load" is at the head of the one promise chain.                  *)
ExactCall(k, stored) ==
  /\ k.pc \in {"version", "install", "decide", "append"} => k.chain = stored
  /\ k.pc = "install" => k.version = Version(stored)
  /\ k.result # "conflict"

ExactInv ==
  /\ \A p \in Procs : snap[p].cached => snap[p].version = Version(snap[p].chain)
  /\ \A f \in Fibers : ExactCall(call[f], store)

OneHome == Readers = {} /\ \A f, g \in Fibers : Home[f] = Home[g]

(* A cache hit is the store. *)
LEMMA HitIsStore ==
  ASSUME IInv, ExactInv, NEW f \in Fibers, CacheHit(f)
  PROVE  snap[Home[f]].chain = store
<1> DEFINE c == snap[Home[f]].chain
<1>1. Home[f] \in Procs /\ c \in Seq(Receipt) /\ store \in Seq(Receipt)
  BY SnapType, RuntimeAssumption DEF IInv, TypeOK
<1>2. Version(c) = Version(store) /\ IsPrefixOf(c, store)
  BY <1>1 DEF CacheHit, ExactInv, IInv, CachesArePrefixes
<1>3. Len(c) = Len(store)
  BY <1>2 DEF Version
<1> QED
  BY <1>1, <1>2, <1>3 DEF IsPrefixOf

(* One fiber moves, and stores nothing. *)
LEMMA ExactMoves ==
  ASSUME IInv, ExactInv, NEW f \in Fibers, NEW k, call' = [call EXCEPT ![f] = k],
         UNCHANGED <<store, snap>>, ExactCall(k, store)
  PROVE  ExactInv'
<1>1. call'[f] = k /\ \A g \in Fibers : g # f => call'[g] = call[g]
  BY DEF IInv, TypeOK
<1> QED
  BY <1>1 DEF ExactInv

(* A step of a fiber keeps cache and chain exact. *)
LEMMA ExactStep ==
  ASSUME OneHome, IInv, ExactInv, NEW f \in Fibers, Step(f) PROVE ExactInv'
<1>0. /\ f \notin Readers /\ call[f] \in Call /\ Home[f] \in Procs
      /\ ExactCall(call[f], store) /\ store \in Seq(Receipt)
  BY CallType, RuntimeAssumption DEF OneHome, IInv, ExactInv, TypeOK
<1>1. CASE LoadCached(f)
  <2> DEFINE k == [call[f] EXCEPT !.pc = "decide", !.chain = snap[Home[f]].chain]
  <2>1. call' = [call EXCEPT ![f] = k] /\ UNCHANGED <<store, snap>> /\ CacheHit(f)
    BY <1>0, <1>1 DEF LoadCached
  <2>2. k.pc = "decide" /\ k.chain = store /\ k.result = call[f].result
    BY <1>0, <2>1, HitIsStore DEF Call
  <2> QED
    BY <1>0, <2>1, <2>2, ExactMoves DEF ExactCall
<1>2. CASE LoadMiss(f)
  <2> DEFINE k == [call[f] EXCEPT !.pc = "read"]
  <2>1. call' = [call EXCEPT ![f] = k] /\ UNCHANGED <<store, snap>>
    BY <1>2 DEF LoadMiss
  <2>2. k.pc = "read" /\ k.result = call[f].result
    BY <1>0 DEF Call
  <2> QED
    BY <1>0, <2>1, <2>2, ExactMoves DEF ExactCall
<1>3. CASE ReadStore(f)
  <2> DEFINE k == [call[f] EXCEPT !.pc = "version", !.chain = store]
  <2>1. call' = [call EXCEPT ![f] = k] /\ UNCHANGED <<store, snap>>
    BY <1>3 DEF ReadStore
  <2>2. k.pc = "version" /\ k.chain = store /\ k.result = call[f].result
    BY <1>0 DEF Call
  <2> QED
    BY <1>0, <2>1, <2>2, ExactMoves DEF ExactCall
<1>4. CASE ReadVersion(f)
  <2> DEFINE k == [call[f] EXCEPT !.pc = "install", !.version = Version(store)]
  <2>1. call' = [call EXCEPT ![f] = k] /\ UNCHANGED <<store, snap>> /\ call[f].pc = "version"
    BY <1>4 DEF ReadVersion
  <2>2. /\ k.pc = "install" /\ k.chain = call[f].chain /\ k.version = Version(store)
        /\ k.result = call[f].result
    BY <1>0 DEF Call
  <2> QED
    BY <1>0, <2>1, <2>2, ExactMoves DEF ExactCall
<1>5. CASE InstallSnapshot(f)
  <2> DEFINE new == [cached |-> TRUE, chain |-> call[f].chain, version |-> call[f].version]
  <2>1. call[f].pc = "install" /\ snap' = [snap EXCEPT ![Home[f]] = new] /\ store' = store
    BY <1>5 DEF InstallSnapshot
  <2>2. new.version = Version(new.chain)
    BY <1>0, <2>1 DEF ExactCall
  <2>3. ASSUME NEW p \in Procs, snap'[p].cached PROVE snap'[p].version = Version(snap'[p].chain)
    BY <1>0, <2>1, <2>2, <2>3 DEF ExactInv, IInv, TypeOK
  <2>4. ASSUME NEW k, call' = [call EXCEPT ![f] = k], ExactCall(k, store) PROVE ExactInv'
    <3>1. call'[f] = k /\ \A g \in Fibers : g # f => call'[g] = call[g]
      BY <2>4 DEF IInv, TypeOK
    <3> QED
      BY <2>1, <2>3, <2>4, <3>1 DEF ExactInv
  <2>5. CASE call[f].done > 0
    <3> DEFINE k == [call[f] EXCEPT !.pc = "idle", !.result = "ok", !.chain = call[f].chain]
    <3>1. call' = [call EXCEPT ![f] = k]
      BY <1>0, <1>5, <2>5 DEF InstallSnapshot, Finish
    <3>2. k.pc = "idle" /\ k.result = "ok"
      BY <1>0 DEF Call
    <3> QED
      BY <2>4, <3>1, <3>2 DEF ExactCall
  <2>6. CASE ~(call[f].done > 0)
    <3> DEFINE k == [call[f] EXCEPT !.pc = "decide"]
    <3>1. call' = [call EXCEPT ![f] = k]
      BY <1>0, <1>5, <2>6 DEF InstallSnapshot
    <3>2. k.pc = "decide" /\ k.chain = call[f].chain /\ k.result = call[f].result
      BY <1>0 DEF Call
    <3> QED
      BY <1>0, <2>1, <2>4, <3>1, <3>2 DEF ExactCall
  <2> QED
    BY <2>5, <2>6
<1>6. ASSUME NEW res \in Results \ {"conflict"}, Finish(f, res, call[f].chain),
             UNCHANGED <<store, snap>>
      PROVE  ExactInv'
  <2> DEFINE k == [call[f] EXCEPT !.pc = "idle", !.result = res, !.chain = call[f].chain]
  <2>1. call' = [call EXCEPT ![f] = k]
    BY <1>6 DEF Finish
  <2>2. k.pc = "idle" /\ k.result = res
    BY <1>0 DEF Call
  <2> QED
    BY <1>6, <2>1, <2>2, ExactMoves DEF ExactCall
<1>7. CASE DecideCommand(f)
  <2>1. UNCHANGED <<store, snap>> /\ call[f].pc = "decide"
    BY <1>7 DEF DecideCommand
  <2>2. CASE Finish(f, "duplicate", call[f].chain) \/ Finish(f, "stale", call[f].chain)
    BY <1>6, <2>1, <2>2 DEF Results
  <2>3. CASE call' = [call EXCEPT ![f].pc = "append"]
    <3> DEFINE k == [call[f] EXCEPT !.pc = "append"]
    <3>1. call' = [call EXCEPT ![f] = k]
      BY <2>3
    <3>2. k.pc = "append" /\ k.chain = call[f].chain /\ k.result = call[f].result
      BY <1>0 DEF Call
    <3> QED
      BY <1>0, <2>1, <3>1, <3>2, ExactMoves DEF ExactCall
  <2> QED
    BY <1>7, <2>2, <2>3 DEF DecideCommand
<1>8. CASE AppendEvent(f)
  <2> DEFINE r == NextReceipt(f)
  <2>1. PICK pc \in {"append", "version"} :
          call' = [call EXCEPT ![f] = [@ EXCEPT !.pc = pc, !.done = call[f].done + 1,
                                     !.chain = Append(call[f].chain, r)]]
    BY <1>8 DEF AppendEvent
  <2> DEFINE k == [call[f] EXCEPT !.pc = pc, !.done = call[f].done + 1,
                                  !.chain = Append(call[f].chain, r)]
  <2>2. call'[f] = k /\ \A g \in Fibers : g # f => call'[g] = call[g]
    BY <1>0, <2>1 DEF IInv, TypeOK
  <2>3. store' = Append(store, r) /\ snap' = snap /\ call[f].pc = "append"
    BY <1>8 DEF AppendEvent
  <2>4. call[f].chain = store
    BY <1>0, <2>3 DEF ExactCall
  <2>5. k.pc = pc /\ k.chain = Append(store, r) /\ k.result = call[f].result
    BY <1>0, <2>4 DEF Call
  <2>6. ASSUME NEW g \in Fibers, g # f PROVE call[g].pc \in {"idle", "load"}
    <3>1. HoldsLock(f)
      BY <1>0, <2>3 DEF IInv, LockInv
    <3>2. ~HoldsLock(g)
      BY <2>6, <3>1 DEF HoldsLock, OneHome
    <3> QED
      BY <3>2 DEF IInv, LockInv, OneHome
  <2>7. ASSUME NEW g \in Fibers PROVE ExactCall(call'[g], store')
    <3>1. CASE g = f
      BY <1>0, <2>2, <2>3, <2>5, <3>1 DEF ExactCall
    <3>2. CASE g # f
      BY <2>2, <2>6, <3>2 DEF ExactCall, ExactInv
    <3> QED
      BY <3>1, <3>2
  <2> QED
    BY <2>3, <2>7 DEF ExactInv
<1>9. CASE AppendConflict(f)
  BY <1>0, <1>9 DEF AppendConflict, HeadMatches, ExactCall
<1>10. CASE ReducerRejects(f)
  BY <1>6, <1>10 DEF ReducerRejects, Results
<1> QED
  BY <1>1, <1>2, <1>3, <1>4, <1>5, <1>7, <1>8, <1>9, <1>10 DEF Step

(* In one process, with executes only, the promise lock of the stream       *)
(* (runtime.ts, enqueueStream) and the version test of the cache            *)
(* (loadSnapshot) are enough: no append is ever refused as conflicting.    *)
THEOREM LockPreventsConflict == ASSUME OneHome PROVE Spec => []NoConflict
<1>1. Init => ExactInv
  BY DEF Init, NoSnap, Idle, ExactInv, ExactCall
<1>2. IInv /\ ExactInv /\ [Next]_vars => ExactInv'
  <2> SUFFICES ASSUME IInv, ExactInv, [Next]_vars PROVE ExactInv'
    OBVIOUS
  <2>1. ASSUME NEW f \in Fibers, BeginRead(f) PROVE FALSE
    BY <2>1 DEF OneHome, BeginRead
  <2>2. ASSUME NEW f \in Fibers, NEW c \in Cmds, NEW h \in 0..Len(store), BeginExecute(f, c, h)
        PROVE  ExactInv'
    <3> DEFINE k == [Idle EXCEPT !.pc = "load", !.cmd = c, !.expected = h, !.start = Len(store)]
    <3>1. call' = [call EXCEPT ![f] = k] /\ UNCHANGED <<store, snap>>
      BY <2>2 DEF BeginExecute
    <3>2. ExactCall(k, store)
      BY DEF Idle, ExactCall
    <3> QED
      BY <3>1, <3>2, ExactMoves
  <2>3. ASSUME NEW p \in Procs, Crash(p) PROVE ExactInv'
    <3>1. \A f \in Fibers : call'[f] = call[f] \/ call'[f] = Idle
      BY <2>3 DEF Crash
    <3>2. \A q \in Procs : snap'[q] = snap[q] \/ snap'[q] = NoSnap
      BY <2>3 DEF Crash, IInv, TypeOK
    <3>3. store' = store
      BY <2>3 DEF Crash
    <3> QED
      BY <3>1, <3>2, <3>3 DEF ExactInv, ExactCall, Idle, NoSnap
  <2>4. CASE UNCHANGED vars
    BY <2>4 DEF vars, ExactInv
  <2> QED
    BY <2>1, <2>2, <2>3, <2>4, ExactStep DEF Next
<1>3. ExactInv => NoConflict
  BY DEF ExactInv, ExactCall, NoConflict
<1> QED
  BY <1>1, <1>2, <1>3, Invariance, PTL DEF Spec
=============================================================================
