----------------------------- MODULE ReceiptLog -----------------------------
(***************************************************************************)
(* What a receipt stream promises its readers, with no processes, caches   *)
(* or locks: a log that only grows, in which the events of a keyed command *)
(* (one that carries an eventId) are recorded once each and in order.      *)
(* ReceiptRuntime implements this specification.                           *)
(***************************************************************************)
EXTENDS Naturals, Sequences

CONSTANTS Cmds,      \* commands a client may execute
          Keyed,     \* the commands that carry an eventId
          NEvents    \* number of events decide(cmd) returns

VARIABLE log         \* sequence of [cmd, idx] entries

Entry == [cmd : Cmds, idx : Nat \ {0}]

Occurs(c, i) == \E n \in 1..Len(log) : log[n].cmd = c /\ log[n].idx = i

Init == log = << >>

(* Event i of command c is recorded.  A keyed command records event i only *)
(* directly after its event i-1, and never twice.                          *)
Record(c, i) ==
  /\ i \in 1..NEvents[c]
  /\ i > 1 => /\ Len(log) > 0
              /\ log[Len(log)] = [cmd |-> c, idx |-> i - 1]
  /\ c \in Keyed => ~Occurs(c, i)
  /\ log' = Append(log, [cmd |-> c, idx |-> i])

Next == \E c \in Cmds : \E i \in 1..NEvents[c] : Record(c, i)

Spec == Init /\ [][Next]_log
=============================================================================
