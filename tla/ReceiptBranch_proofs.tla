------------------------ MODULE ReceiptBranch_proofs ------------------------
(***************************************************************************)
(* Theorems about ReceiptBranch, for any actors, streams and any number of *)
(* appends and forks.                                                      *)
(*                                                                         *)
(* View is defined by recursion on the depth; ViewExists builds it layer   *)
(* by layer, and every lemma about it is about any view v of any receipts  *)
(* loc and branch rows br (Sees), so that the view before and the view     *)
(* after a step can be compared.  Induction on the depth is the search for *)
(* a least counterexample (Least).                                         *)
(*                                                                         *)
(* Whoever forks: BranchTypes, since a branch sees no receipt twice: the   *)
(* receipts of its parent belong to streams that end at a smaller depth    *)
(* than its own (ViewOwned), and so it is never longer than all that was   *)
(* appended.                                                               *)
(*                                                                         *)
(* If one process forks at a time, no fork writes over a row that another  *)
(* one saved (RowInv).  EveryChainVerifies, since a stream that became a   *)
(* branch is no root again, the receipts of a root are linked (LinkInv)    *)
(* and relinking links those of a branch to the prefix.  What a fork       *)
(* checked still holds when its row is saved (ForkInv).  Hence fork points *)
(* exist (ForkPointsExist) and chains only grow (ViewGrows): a parent that *)
(* grows does so behind the fork point (HistoryIsKept).                    *)
(***************************************************************************)
EXTENDS ReceiptBranch, FiniteSetTheorems, WellFoundedInduction, TLAPS

(* What is seen of each stream at most d parents deep, given below, what   *)
(* is seen one parent less deep.                                           *)
Layer(loc, br, below, d) ==
  [s \in Streams |->
     IF br[s].parent = None THEN [ends |-> TRUE, chain |-> loc[s]]
     ELSE IF d = 0 THEN [ends |-> FALSE, chain |-> << >>]
     ELSE LET up == below[br[s].parent]
              prefix == ParentPrefix(up.chain, br[s].at)
          IN  [ends |-> up.ends, chain |-> Materialize(s, prefix, loc[s])]]

(* v is the view of the streams loc with the branch rows br. *)
Sees(v, loc, br) == v = [d \in Nat |-> Layer(loc, br, v[d - 1], d)]

(* Layers up to n. *)
Upto(g, n, loc, br) ==
  /\ DOMAIN g = 0..n
  /\ \A d \in 0..n : g[d] = Layer(loc, br, g[d - 1], d)

-----------------------------------------------------------------------------
(* A nonempty set of numbers has a least one: every induction below is the *)
(* search for the least counterexample.                                    *)
LEMMA Least ==
  ASSUME NEW D, D \subseteq Nat, D # {}
  PROVE  \E d \in D : \A e \in D : d <= e
<1>1. PICK d \in D : \A e \in D : ~(<<e, d>> \in OpToRel(<, Nat))
  BY NatLessThanWellFounded, WFMin
<1>2. \A e \in D : ~(e < d)
  BY <1>1 DEF OpToRel
<1>. QED
  BY <1>2

(* The bottom layer has nothing below. *)
LEMMA BottomLayer ==
  ASSUME NEW loc, NEW br, NEW a, NEW b
  PROVE  Layer(loc, br, a, 0) = Layer(loc, br, b, 0)
BY DEF Layer

(* The layers up to any depth exist. *)
LEMMA LayersExist ==
  ASSUME NEW loc, NEW br, NEW n \in Nat
  PROVE  \E g : Upto(g, n, loc, br)
<1>. DEFINE D == {k \in Nat : ~\E g : Upto(g, k, loc, br)}
<1>. SUFFICES ASSUME D # {} PROVE FALSE
  OBVIOUS
<1>1. PICK k \in D : \A e \in D : k <= e
  BY Least
<1>2. CASE k = 0
  <2>. DEFINE g == [d \in 0..0 |-> Layer(loc, br, 0, 0)]
  <2>1. g[0] = Layer(loc, br, g[0 - 1], 0)
    BY BottomLayer
  <2>2. Upto(g, 0, loc, br)
    BY <2>1 DEF Upto
  <2>. QED
    BY <1>1, <1>2, <2>2
<1>3. CASE k # 0
  <2>1. k - 1 \in Nat /\ k - 1 \notin D
    BY <1>1, <1>3
  <2>2. PICK h : Upto(h, k - 1, loc, br)
    BY <2>1
  <2>. DEFINE g == [d \in 0..k |-> IF d = k THEN Layer(loc, br, h[k - 1], k) ELSE h[d]]
  <2>3. g[k] = Layer(loc, br, g[k - 1], k)
    BY <2>1, <1>1
  <2>4. ASSUME NEW d \in 0..(k - 1) PROVE g[d] = Layer(loc, br, g[d - 1], d)
    <3>1. g[d] = Layer(loc, br, h[d - 1], d)
      BY <2>2, <2>1, <1>1 DEF Upto
    <3>2. CASE d = 0
      BY <3>1, <3>2, BottomLayer
    <3>3. CASE d # 0
      <4>1. g[d - 1] = h[d - 1]
        BY <3>3, <2>1, <1>1
      <4>. QED
        BY <3>1, <4>1
    <3>. QED
      BY <3>2, <3>3
  <2>5. Upto(g, k, loc, br)
    <3>1. \A d \in 0..k : d = k \/ d \in 0..(k - 1)
      BY <1>1
    <3>. QED
      BY <2>3, <2>4, <3>1 DEF Upto
  <2>. QED
    BY <2>5, <1>1
<1>. QED
  BY <1>2, <1>3

(* The layers up to some depth are determined. *)
LEMMA LayersUnique ==
  ASSUME NEW loc, NEW br, NEW n \in Nat, NEW m \in Nat, NEW g, NEW h,
         Upto(g, n, loc, br), Upto(h, m, loc, br), NEW k \in Nat, k <= n, k <= m
  PROVE  g[k] = h[k]
<1>. DEFINE D == {d \in Nat : d <= n /\ d <= m /\ g[d] # h[d]}
<1>. SUFFICES ASSUME D # {} PROVE FALSE
  OBVIOUS
<1>1. PICK d \in D : \A e \in D : d <= e
  BY Least
<1>2. g[d] = Layer(loc, br, g[d - 1], d) /\ h[d] = Layer(loc, br, h[d - 1], d)
  BY <1>1 DEF Upto
<1>3. CASE d = 0
  BY <1>1, <1>2, <1>3, BottomLayer
<1>4. CASE d # 0
  <2>1. d - 1 \in Nat /\ d - 1 \notin D
    BY <1>1, <1>4
  <2>2. g[d - 1] = h[d - 1]
    BY <2>1, <1>1
  <2>. QED
    BY <1>1, <1>2, <2>2
<1>. QED
  BY <1>3, <1>4

(* Hence streams and branch rows have a view. *)
LEMMA ViewExists ==
  ASSUME NEW loc, NEW br
  PROVE  \E v : Sees(v, loc, br)
<1>. DEFINE G(n) == CHOOSE g : Upto(g, n, loc, br)
<1>1. \A n \in Nat : Upto(G(n), n, loc, br)
  BY LayersExist
<1>. HIDE DEF G
<1>. DEFINE v == [d \in Nat |-> G(d)[d]]
<1>2. ASSUME NEW d \in Nat PROVE v[d] = Layer(loc, br, v[d - 1], d)
  <2>1. v[d] = Layer(loc, br, G(d)[d - 1], d)
    <3>1. d \in 0..d
      OBVIOUS
    <3>. QED
      BY <1>1, <3>1 DEF Upto
  <2>2. CASE d = 0
    BY <2>1, <2>2, BottomLayer
  <2>3. CASE d # 0
    <3>1. d - 1 \in Nat
      BY <2>3
    <3>2. G(d)[d - 1] = G(d - 1)[d - 1]
      BY <1>1, <3>1, LayersUnique
    <3>. QED
      BY <2>1, <3>1, <3>2
  <2>. QED
    BY <2>2, <2>3
<1>3. v = [d \in Nat |-> Layer(loc, br, v[d - 1], d)]
  BY <1>2
<1>. HIDE DEF v
<1>. QED
  BY <1>3 DEF Sees

(* View is the view of the streams as they are, and as they are next. *)
LEMMA ViewNow == Sees(View, local, branch)
<1>1. \E v : Sees(v, local, branch)
  BY ViewExists
<1>. QED
  BY <1>1 DEF Sees, View, Layer

(* The same of the state after a step. *)
LEMMA ViewNext == Sees(View', local', branch')
<1>1. \E v : Sees(v, local', branch')
  BY ViewExists
<1>. QED
  BY <1>1 DEF Sees, View, Layer

-----------------------------------------------------------------------------
(* Streams and branch rows of the right types. *)
Wellformed(loc, br) ==
  /\ loc \in [Streams -> Seq(Receipt)]
  /\ br \in [Streams -> [known : BOOLEAN, parent : Streams \cup {None}, at : Nat]]

(* A stream without a parent is seen as it is. *)
LEMMA RootView ==
  ASSUME NEW v, NEW loc, NEW br, Sees(v, loc, br), NEW d \in Nat, NEW s \in Streams,
         br[s].parent = None
  PROVE  v[d][s].ends /\ v[d][s].chain = loc[s]
BY DEF Sees, Layer

(* Without a look at its parent a branch cannot be seen. *)
LEMMA BottomView ==
  ASSUME NEW v, NEW loc, NEW br, Sees(v, loc, br), NEW s \in Streams, v[0][s].ends
  PROVE  br[s].parent = None
BY DEF Sees, Layer

(* A branch is seen through its parent. *)
LEMMA BranchView ==
  ASSUME NEW v, NEW loc, NEW br, Sees(v, loc, br), NEW d \in Nat, NEW s \in Streams,
         br[s].parent # None, d # 0
  PROVE  /\ v[d][s].ends = v[d - 1][br[s].parent].ends
         /\ v[d][s].chain =
              Materialize(s, ParentPrefix(v[d - 1][br[s].parent].chain, br[s].at), loc[s])
BY DEF Sees, Layer

(* What is seen of a stream that can be seen does not change with a look   *)
(* one parent deeper.                                                      *)
LEMMA SettledStep ==
  ASSUME NEW v, NEW loc, NEW br, Wellformed(loc, br), Sees(v, loc, br),
         NEW d \in Nat, NEW s \in Streams, v[d][s].ends
  PROVE  v[d + 1][s].ends /\ v[d + 1][s].chain = v[d][s].chain
<1>. DEFINE Same(e, t) == v[e + 1][t].ends /\ v[e + 1][t].chain = v[e][t].chain
            D == {e \in Nat : \E t \in Streams : v[e][t].ends /\ ~Same(e, t)}
<1>. SUFFICES ASSUME D # {} PROVE FALSE
  OBVIOUS
<1>1. PICK e \in D : \A f \in D : e <= f
  BY Least
<1>2. PICK t \in Streams : v[e][t].ends /\ ~Same(e, t)
  BY <1>1
<1>. DEFINE p == br[t].parent
<1>3. p # None
  <2>. SUFFICES ASSUME p = None PROVE Same(e, t)
    BY <1>2
  <2>1. v[e][t].chain = loc[t]
    BY <1>1, RootView
  <2>2. v[e + 1][t].ends /\ v[e + 1][t].chain = loc[t]
    BY <1>1, RootView
  <2>. QED
    BY <2>1, <2>2
<1>4. e # 0
  BY <1>2, <1>3, BottomView
<1>5. p \in Streams /\ e - 1 \in Nat /\ e - 1 \notin D /\ e + 1 \in Nat /\ (e - 1) + 1 = e /\ (e + 1) - 1 = e
  BY <1>1, <1>3, <1>4 DEF Wellformed
<1>6. v[e - 1][p].ends
  BY <1>1, <1>2, <1>3, <1>4, BranchView
<1>7. Same(e - 1, p)
  BY <1>5, <1>6
<1>8. v[e][p].ends /\ v[e][p].chain = v[e - 1][p].chain
  BY <1>5, <1>7
<1>9. v[e][t].chain = Materialize(t, ParentPrefix(v[e - 1][p].chain, br[t].at), loc[t])
  BY <1>1, <1>3, <1>4, BranchView
<1>10. /\ v[e + 1][t].ends = v[e][p].ends
       /\ v[e + 1][t].chain = Materialize(t, ParentPrefix(v[e][p].chain, br[t].at), loc[t])
  <2>1. e + 1 # 0
    BY <1>1
  <2>. QED
    BY <2>1, <1>3, <1>5, BranchView
<1>. QED
  BY <1>2, <1>8, <1>9, <1>10

(* Nor does it with a look any deeper. *)
LEMMA Settled ==
  ASSUME NEW v, NEW loc, NEW br, Wellformed(loc, br), Sees(v, loc, br),
         NEW d \in Nat, NEW e \in Nat, d <= e, NEW s \in Streams, v[d][s].ends
  PROVE  v[e][s].ends /\ v[e][s].chain = v[d][s].chain
<1>. DEFINE Same(k) == v[k][s].ends /\ v[k][s].chain = v[d][s].chain
            D == {k \in Nat : d <= k /\ ~Same(k)}
<1>. SUFFICES ASSUME D # {} PROVE FALSE
  OBVIOUS
<1>1. PICK k \in D : \A f \in D : k <= f
  BY Least
<1>2. k # d /\ k \in Nat /\ d <= k
  BY <1>1
<1>3. k - 1 \in Nat /\ d <= k - 1 /\ (k - 1) + 1 = k
  BY <1>2
<1>4. Same(k - 1)
  BY <1>1, <1>3
<1>5. Same(k)
  BY <1>3, <1>4, SettledStep
<1>. QED
  BY <1>1, <1>5

(* A branch that can be seen has a parent that can, one parent less deep.  *)
LEMMA ParentSeen ==
  ASSUME NEW v, NEW loc, NEW br, Wellformed(loc, br), Sees(v, loc, br),
         NEW d \in Nat, NEW s \in Streams, v[d][s].ends, br[s].parent # None
  PROVE  LET p == br[s].parent
         IN  /\ d # 0 /\ d - 1 \in Nat /\ p \in Streams /\ v[d - 1][p].ends
             /\ v[d][p].ends /\ v[d][p].chain = v[d - 1][p].chain
             /\ v[d][s].chain = Materialize(s, ParentPrefix(v[d][p].chain, br[s].at), loc[s])
<1>. DEFINE p == br[s].parent
<1>1. d # 0 /\ d - 1 \in Nat /\ d - 1 <= d /\ p \in Streams
  BY BottomView DEF Wellformed
<1>2. /\ v[d - 1][p].ends
      /\ v[d][s].chain = Materialize(s, ParentPrefix(v[d - 1][p].chain, br[s].at), loc[s])
  BY <1>1, BranchView
<1>3. v[d][p].ends /\ v[d][p].chain = v[d - 1][p].chain
  BY <1>1, <1>2, Settled
<1>. QED
  BY <1>1, <1>2, <1>3

-----------------------------------------------------------------------------
(* The prefix a branch shares with its parent. *)
LEMMA PrefixFacts ==
  ASSUME NEW chain \in Seq(Receipt), NEW at \in Nat
  PROVE  LET p == ParentPrefix(chain, at)
         IN  /\ p \in Seq(Receipt)
             /\ Len(p) = IF at < Len(chain) THEN at ELSE Len(chain)
             /\ \A i \in 1..Len(p) : p[i] = chain[i]
<1>. DEFINE n == IF at < Len(chain) THEN at ELSE Len(chain)
<1>1. n \in Nat /\ n <= Len(chain)
  OBVIOUS
<1>. HIDE DEF n
<1>2. /\ SubSeq(chain, 1, n) \in Seq(Receipt) /\ Len(SubSeq(chain, 1, n)) = n
      /\ \A i \in 1..n : SubSeq(chain, 1, n)[i] = chain[i]
  BY <1>1
<1>3. ParentPrefix(chain, at) = SubSeq(chain, 1, n)
  BY DEF ParentPrefix, n
<1>. QED
  BY <1>2, <1>3 DEF n

(* The hash of the head. *)
LEMMA HeadFacts ==
  ASSUME NEW chain \in Seq(Receipt)
  PROVE  HeadHash(chain) \in Hash
<1>1. CASE chain = << >>
  <2>1. << >> \in Seq(Streams \X Nat)
    OBVIOUS
  <2>. QED
    BY <1>1, <2>1 DEF HeadHash, Hash
<1>2. CASE chain # << >>
  <2>1. Len(chain) \in 1..Len(chain)
    BY <1>2
  <2>2. chain[Len(chain)] \in Receipt
    BY <2>1
  <2>. QED
    BY <1>2, <2>2 DEF HeadHash, Receipt
<1>. QED
  BY <1>1, <1>2

(* A receipt linked to a history is a receipt, and commits to it and to    *)
(* itself.                                                                 *)
LEMMA UptoHash ==
  ASSUME NEW s \in Streams, NEW chain \in Seq(Receipt), NEW prev \in Hash, NEW n \in Nat, n <= Len(chain)
  PROVE  prev \o [i \in 1..n |-> <<s, chain[i].body>>] \in Hash
<1>1. \A i \in 1..n : chain[i] \in Receipt
  OBVIOUS
<1>2. \A i \in 1..n : <<s, chain[i].body>> \in Streams \X Nat
  BY <1>1 DEF Receipt
<1>3. [i \in 1..n |-> <<s, chain[i].body>>] \in Seq(Streams \X Nat)
  BY <1>2
<1>. QED
  BY <1>3 DEF Hash

(* Relinked receipts keep their bodies and form a chain from prev on. *)
LEMMA RelinkFacts ==
  ASSUME NEW s \in Streams, NEW chain \in Seq(Receipt), NEW prev \in Hash
  PROVE  LET r == Relink(s, chain, prev)
         IN  /\ r \in Seq(Receipt) /\ Len(r) = Len(chain)
             /\ \A i \in 1..Len(r) :
                  /\ r[i].body = chain[i].body
                  /\ r[i].prev = IF i = 1 THEN prev ELSE r[i - 1].hash
<1>. DEFINE upto(n) == prev \o [i \in 1..n |-> <<s, chain[i].body>>]
<1>1. \A n \in 0..Len(chain) : upto(n) \in Hash
  BY UptoHash
<1>2. upto(0) = prev
  <2>1. [i \in 1..0 |-> <<s, chain[i].body>>] = << >>
    OBVIOUS
  <2>. QED
    BY <2>1 DEF Hash
<1>. HIDE DEF upto
<1>. DEFINE r == [n \in 1..Len(chain) |->
                    [body |-> chain[n].body, prev |-> upto(n - 1), hash |-> upto(n)]]
<1>3. Relink(s, chain, prev) = r
  BY DEF Relink, upto
<1>4. ASSUME NEW n \in 1..Len(chain) PROVE chain[n].body \in Nat
  <2>1. chain[n] \in Receipt
    OBVIOUS
  <2>. QED
    BY <2>1 DEF Receipt
<1>5. \A n \in 1..Len(chain) : r[n] \in Receipt
  BY <1>1, <1>4 DEF Receipt
<1>6. r \in Seq(Receipt) /\ Len(r) = Len(chain)
  BY <1>5
<1>7. ASSUME NEW i \in 1..Len(chain)
      PROVE  r[i].body = chain[i].body /\ r[i].prev = IF i = 1 THEN prev ELSE r[i - 1].hash
  BY <1>2
<1>. HIDE DEF r
<1>. QED
  BY <1>3, <1>6, <1>7

(* A relinked receipt is determined by the receipts up to it. *)
LEMMA RelinkGrows ==
  ASSUME NEW s \in Streams, NEW a \in Seq(Receipt), NEW b \in Seq(Receipt), NEW prev \in Hash,
         IsPrefixOf(a, b)
  PROVE  /\ Len(a) <= Len(b)
         /\ \A i \in 1..Len(a) : Relink(s, b, prev)[i] = Relink(s, a, prev)[i]
<1>1. Len(a) <= Len(b) /\ \A i \in 1..Len(a) : a[i] = b[i]
  BY DEF IsPrefixOf
<1>2. ASSUME NEW n \in 0..Len(a)
      PROVE  [i \in 1..n |-> <<s, b[i].body>>] = [i \in 1..n |-> <<s, a[i].body>>]
  BY <1>1
<1>3. ASSUME NEW i \in 1..Len(a) PROVE Relink(s, b, prev)[i] = Relink(s, a, prev)[i]
  <2>1. i \in 1..Len(b) /\ i - 1 \in 0..Len(a) /\ i \in 0..Len(a)
    BY <1>1
  <2>2. Relink(s, a, prev)[i] =
          [body |-> a[i].body, prev |-> prev \o [j \in 1..(i - 1) |-> <<s, a[j].body>>],
           hash |-> prev \o [j \in 1..i |-> <<s, a[j].body>>]]
    BY DEF Relink
  <2>3. Relink(s, b, prev)[i] =
          [body |-> b[i].body, prev |-> prev \o [j \in 1..(i - 1) |-> <<s, b[j].body>>],
           hash |-> prev \o [j \in 1..i |-> <<s, b[j].body>>]]
    BY <2>1 DEF Relink
  <2>4. /\ [j \in 1..(i - 1) |-> <<s, b[j].body>>] = [j \in 1..(i - 1) |-> <<s, a[j].body>>]
        /\ [j \in 1..i |-> <<s, b[j].body>>] = [j \in 1..i |-> <<s, a[j].body>>]
        /\ a[i] = b[i]
    BY <2>1, <1>1, <1>2
  <2>. QED
    BY <2>2, <2>3, <2>4
<1>. QED
  BY <1>1, <1>3

-----------------------------------------------------------------------------
(* The receipts a branch adds to the prefix. *)
Own(prefix, receipts) ==
  IF HoldsPrefix(prefix, receipts)
  THEN SubSeq(receipts, Len(prefix) + 1, Len(receipts)) ELSE receipts

(* They are receipts. *)
LEMMA OwnSeq ==
  ASSUME NEW prefix \in Seq(Receipt), NEW receipts \in Seq(Receipt)
  PROVE  Own(prefix, receipts) \in Seq(Receipt)
<1>1. ASSUME Len(prefix) <= Len(receipts)
      PROVE  SubSeq(receipts, Len(prefix) + 1, Len(receipts)) \in Seq(Receipt)
  <2>1. Len(prefix) \in Nat /\ Len(receipts) \in Nat
    OBVIOUS
  <2>. QED
    BY <2>1, <1>1
<1>. QED
  BY <1>1 DEF Own, HoldsPrefix

(* A concatenation. *)
LEMMA Joined ==
  ASSUME NEW p \in Seq(Receipt), NEW q \in Seq(Receipt)
  PROVE  /\ p \o q \in Seq(Receipt) /\ Len(p \o q) = Len(p) + Len(q)
         /\ \A i \in 1..Len(p) : (p \o q)[i] = p[i]
         /\ \A i \in 1..Len(q) : (p \o q)[Len(p) + i] = q[i]
OBVIOUS

(* What a branch sees is the prefix and then its own receipts, relinked. *)
LEMMA MaterializeFacts ==
  ASSUME NEW s \in Streams, NEW prefix \in Seq(Receipt), NEW receipts \in Seq(Receipt)
  PROVE  LET m == Materialize(s, prefix, receipts)
             r == Relink(s, Own(prefix, receipts), HeadHash(prefix))
         IN  /\ m \in Seq(Receipt) /\ Len(m) = Len(prefix) + Len(Own(prefix, receipts))
             /\ \A i \in 1..Len(prefix) : m[i] = prefix[i]
             /\ \A i \in 1..Len(Own(prefix, receipts)) :
                  /\ m[Len(prefix) + i] = r[i]
                  /\ m[Len(prefix) + i].body = Own(prefix, receipts)[i].body
<1>. DEFINE own == Own(prefix, receipts)
            r == Relink(s, own, HeadHash(prefix))
<1>1. own \in Seq(Receipt) /\ HeadHash(prefix) \in Hash
  BY OwnSeq, HeadFacts
<1>. HIDE DEF own
<1>2. r \in Seq(Receipt) /\ Len(r) = Len(own) /\ \A i \in 1..Len(r) : r[i].body = own[i].body
  BY <1>1, RelinkFacts
<1>3. Materialize(s, prefix, receipts) = prefix \o r
  BY DEF Materialize, Own, own
<1>. HIDE DEF r
<1>4. /\ prefix \o r \in Seq(Receipt) /\ Len(prefix \o r) = Len(prefix) + Len(own)
      /\ \A i \in 1..Len(prefix) : (prefix \o r)[i] = prefix[i]
      /\ \A i \in 1..Len(own) : (prefix \o r)[Len(prefix) + i] = r[i]
  <2>1. r \in Seq(Receipt) /\ Len(r) = Len(own)
    BY <1>2
  <2>2. /\ prefix \o r \in Seq(Receipt) /\ Len(prefix \o r) = Len(prefix) + Len(r)
        /\ \A i \in 1..Len(prefix) : (prefix \o r)[i] = prefix[i]
        /\ \A i \in 1..Len(r) : (prefix \o r)[Len(prefix) + i] = r[i]
    BY <2>1, Joined
  <2>. QED
    BY <2>1, <2>2
<1>. QED
  BY <1>2, <1>3, <1>4 DEF own, r

(* If the prefix is linked, what the branch sees is. *)
LEMMA MaterializeLinks ==
  ASSUME NEW s \in Streams, NEW prefix \in Seq(Receipt), NEW receipts \in Seq(Receipt), Linked(prefix)
  PROVE  Linked(Materialize(s, prefix, receipts))
<1>. DEFINE own == Own(prefix, receipts)
            r == Relink(s, own, HeadHash(prefix))
            m == Materialize(s, prefix, receipts)
<1>1. own \in Seq(Receipt) /\ HeadHash(prefix) \in Hash
  BY OwnSeq, HeadFacts
<1>2. /\ m \in Seq(Receipt) /\ Len(m) = Len(prefix) + Len(own)
      /\ \A i \in 1..Len(prefix) : m[i] = prefix[i]
      /\ \A i \in 1..Len(own) : m[Len(prefix) + i] = r[i]
  BY MaterializeFacts
<1>. HIDE DEF own, m
<1>3. /\ Len(r) = Len(own)
      /\ \A i \in 1..Len(r) : r[i].prev = IF i = 1 THEN HeadHash(prefix) ELSE r[i - 1].hash
  BY <1>1, RelinkFacts
<1>. HIDE DEF r
<1>4. ASSUME NEW n \in 1..Len(m)
      PROVE  m[n].prev = IF n = 1 THEN << >> ELSE m[n - 1].hash
  <2>. DEFINE k == Len(prefix)
  <2>1. k \in Nat /\ Len(own) \in Nat /\ n \in Nat /\ n >= 1 /\ n <= k + Len(own)
    BY <1>1, <1>2
  <2>2. CASE n <= k
    <3>1. n \in 1..k /\ (n # 1 => n - 1 \in 1..k)
      BY <2>1, <2>2
    <3>2. prefix[n].prev = IF n = 1 THEN << >> ELSE prefix[n - 1].hash
      BY <3>1 DEF Linked
    <3>. QED
      BY <3>1, <3>2, <1>2
  <2>3. CASE n = k + 1
    <3>1. 1 \in 1..Len(own) /\ n = k + 1
      BY <2>1, <2>3
    <3>2. m[n] = r[1] /\ r[1].prev = HeadHash(prefix)
      BY <3>1, <1>2, <1>3
    <3>3. CASE k = 0
      BY <3>2, <3>3, <2>3 DEF HeadHash
    <3>4. CASE k # 0
      <4>1. k \in 1..k /\ n # 1 /\ n - 1 = k /\ prefix # << >>
        BY <2>1, <2>3, <3>4
      <4>2. m[n - 1] = prefix[k]
        BY <4>1, <1>2
      <4>. QED
        BY <3>2, <4>1, <4>2 DEF HeadHash
    <3>. QED
      BY <3>3, <3>4
  <2>4. CASE n > k + 1
    <3>. DEFINE i == n - k
    <3>1. i \in 1..Len(own) /\ i - 1 \in 1..Len(own) /\ n = k + i /\ n - 1 = k + (i - 1) /\ i # 1 /\ n # 1
      BY <2>1, <2>4
    <3>2. m[n] = r[i] /\ m[n - 1] = r[i - 1] /\ r[i].prev = r[i - 1].hash
      BY <3>1, <1>2, <1>3
    <3>. QED
      BY <3>1, <3>2
  <2>. QED
    BY <2>1, <2>2, <2>3, <2>4
<1>. QED
  BY <1>4 DEF Linked, m

(* What a branch sees only grows when its receipts do, as long as they do  *)
(* not begin with the prefix.                                              *)
LEMMA MaterializeGrows ==
  ASSUME NEW s \in Streams, NEW prefix \in Seq(Receipt), NEW a \in Seq(Receipt), NEW b \in Seq(Receipt),
         IsPrefixOf(a, b), ~HoldsPrefix(prefix, a), ~HoldsPrefix(prefix, b)
  PROVE  IsPrefixOf(Materialize(s, prefix, a), Materialize(s, prefix, b))
<1>. DEFINE ma == Materialize(s, prefix, a)
            mb == Materialize(s, prefix, b)
            ra == Relink(s, a, HeadHash(prefix))
            rb == Relink(s, b, HeadHash(prefix))
<1>1. Own(prefix, a) = a /\ Own(prefix, b) = b
  BY DEF Own
<1>2. /\ ma \in Seq(Receipt) /\ Len(ma) = Len(prefix) + Len(a)
      /\ \A i \in 1..Len(prefix) : ma[i] = prefix[i]
      /\ \A i \in 1..Len(a) : ma[Len(prefix) + i] = ra[i]
  BY <1>1, MaterializeFacts
<1>3. /\ mb \in Seq(Receipt) /\ Len(mb) = Len(prefix) + Len(b)
      /\ \A i \in 1..Len(prefix) : mb[i] = prefix[i]
      /\ \A i \in 1..Len(b) : mb[Len(prefix) + i] = rb[i]
  BY <1>1, MaterializeFacts
<1>4. Len(a) <= Len(b) /\ \A i \in 1..Len(a) : rb[i] = ra[i]
  BY RelinkGrows, HeadFacts
<1>. HIDE DEF ma, mb, ra, rb
<1>5. ASSUME NEW n \in 1..Len(ma) PROVE mb[n] = ma[n]
  <2>. DEFINE k == Len(prefix)
  <2>1. k \in Nat /\ Len(a) \in Nat /\ Len(b) \in Nat /\ n \in Nat /\ n >= 1 /\ n <= k + Len(a)
    BY <1>2
  <2>2. CASE n <= k
    BY <2>1, <2>2, <1>2, <1>3
  <2>3. CASE n > k
    <3>. DEFINE i == n - k
    <3>1. i \in 1..Len(a) /\ i \in 1..Len(b) /\ n = k + i
      BY <2>1, <2>3, <1>4
    <3>2. ma[k + i] = ra[i]
      BY <3>1, <1>2
    <3>3. mb[k + i] = rb[i]
      BY <3>1, <1>3
    <3>4. rb[i] = ra[i]
      BY <3>1, <1>4
    <3>. QED
      BY <3>1, <3>2, <3>3, <3>4
  <2>. QED
    BY <2>1, <2>2, <2>3
<1>6. Len(ma) <= Len(mb)
  BY <1>2, <1>3, <1>4
<1>7. SubSeq(mb, 1, Len(ma)) = ma
  BY <1>2, <1>3, <1>5, <1>6
<1>. QED
  BY <1>6, <1>7 DEF IsPrefixOf, ma, mb

-----------------------------------------------------------------------------
(* A fork between its checks and its end. *)
Forking(c) == c.op \in {"save", "look", "bare"}

(* The types, but for the bound on fork points. *)
CallsFit ==
  \A a \in Actors :
    /\ call[a].op # "idle" => call[a].stream \in Streams
    /\ Forking(call[a]) => a \in Forkers
    /\ call[a].op = "save" => call[a].new \in Streams /\ call[a].new # call[a].stream

Typed ==
  /\ Wellformed(local, branch)
  /\ call \in [Actors -> Calls]
  /\ appends \in Nat
  /\ CallsFit

(* One process forks at a time.  Two may give each other's new names a     *)
(* parent, or one name two parents, and then a fork point need not exist;  *)
(* or one saves a bare row over the row of the other's new branch.         *)
OneForker == \A a, b \in Forkers : a = b

(* A stream without a row is no branch, and the parent a fork found        *)
(* without one has none when the fork saves a bare row for it.             *)
RowInv ==
  /\ Typed
  /\ \A s \in Streams : ~branch[s].known => branch[s] = NoBranch
  /\ \A a \in Actors : call[a].op = "bare" => ~branch[call[a].stream].known

(* Streams without a parent are linked, and an append to one is offered    *)
(* the head of its receipts.                                               *)
RootsLinked == \A s \in Streams : branch[s].parent = None => Linked(local[s])
RootsAppend ==
  \A a \in Actors : call[a].op = "append" /\ branch[call[a].stream].parent = None
                      => call[a].prev = call[a].localPrev
LinkInv == RowInv /\ RootsLinked /\ RootsAppend

-----------------------------------------------------------------------------
(* There are finitely many streams. *)
LEMMA DepthNat == Depth \in Nat
BY BranchAssumption, FS_CardinalityType DEF Depth

(* What is seen of a stream is a sequence of receipts. *)
LEMMA ViewSeq ==
  ASSUME NEW v, NEW loc, NEW br, Wellformed(loc, br), Sees(v, loc, br), NEW d \in Nat, NEW s \in Streams
  PROVE  v[d][s].chain \in Seq(Receipt)
<1>. DEFINE D == {e \in Nat : \E t \in Streams : v[e][t].chain \notin Seq(Receipt)}
<1>. SUFFICES ASSUME D # {} PROVE FALSE
  OBVIOUS
<1>1. PICK e \in D : \A f \in D : e <= f
  BY Least
<1>2. PICK t \in Streams : v[e][t].chain \notin Seq(Receipt)
  BY <1>1
<1>3. loc[t] \in Seq(Receipt) /\ e \in Nat
  BY <1>1 DEF Wellformed
<1>4. br[t].parent # None
  <2>. SUFFICES ASSUME br[t].parent = None PROVE FALSE
    OBVIOUS
  <2>1. v[e][t].chain = loc[t]
    BY <1>3, RootView
  <2>. QED
    BY <1>2, <1>3, <2>1
<1>5. e # 0
  <2>. SUFFICES ASSUME e = 0 PROVE FALSE
    OBVIOUS
  <2>1. v[e][t].chain = << >>
    BY <1>4 DEF Sees, Layer
  <2>. QED
    BY <1>2, <2>1
<1>. DEFINE p == br[t].parent
            prefix == ParentPrefix(v[e - 1][p].chain, br[t].at)
<1>6. p \in Streams /\ br[t].at \in Nat /\ e - 1 \in Nat /\ e - 1 \notin D
  BY <1>1, <1>3, <1>4, <1>5 DEF Wellformed
<1>7. v[e - 1][p].chain \in Seq(Receipt)
  BY <1>6
<1>8. prefix \in Seq(Receipt)
  BY <1>6, <1>7, PrefixFacts
<1>9. v[e][t].chain = Materialize(t, prefix, loc[t])
  BY <1>3, <1>4, <1>5, BranchView
<1>. QED
  BY <1>2, <1>3, <1>8, <1>9, MaterializeFacts

(* A prefix of a linked chain is linked. *)
LEMMA PrefixLinked ==
  ASSUME NEW chain \in Seq(Receipt), NEW at \in Nat, Linked(chain)
  PROVE  Linked(ParentPrefix(chain, at))
<1>. DEFINE p == ParentPrefix(chain, at)
<1>1. p \in Seq(Receipt) /\ Len(p) <= Len(chain) /\ \A i \in 1..Len(p) : p[i] = chain[i]
  BY PrefixFacts
<1>. HIDE DEF p
<1>2. ASSUME NEW n \in 1..Len(p) PROVE p[n].prev = IF n = 1 THEN << >> ELSE p[n - 1].hash
  <2>1. n \in 1..Len(chain) /\ p[n] = chain[n]
    BY <1>1
  <2>2. n # 1 => n - 1 \in 1..Len(p) /\ p[n - 1] = chain[n - 1]
    BY <1>1
  <2>. QED
    BY <2>1, <2>2 DEF Linked
<1>. QED
  BY <1>2 DEF Linked, p

(* If the roots are linked, so is all that is seen. *)
LEMMA ViewLinked ==
  ASSUME NEW v, NEW loc, NEW br, Wellformed(loc, br), Sees(v, loc, br),
         \A s \in Streams : br[s].parent = None => Linked(loc[s]),
         NEW d \in Nat, NEW s \in Streams
  PROVE  Linked(v[d][s].chain)
<1>. DEFINE D == {e \in Nat : \E t \in Streams : ~Linked(v[e][t].chain)}
<1>. SUFFICES ASSUME D # {} PROVE FALSE
  OBVIOUS
<1>1. PICK e \in D : \A f \in D : e <= f
  BY Least
<1>2. PICK t \in Streams : ~Linked(v[e][t].chain)
  BY <1>1
<1>3. loc[t] \in Seq(Receipt) /\ e \in Nat
  BY <1>1 DEF Wellformed
<1>4. br[t].parent # None
  <2>. SUFFICES ASSUME br[t].parent = None PROVE FALSE
    OBVIOUS
  <2>1. v[e][t].chain = loc[t]
    BY <1>3, RootView
  <2>. QED
    BY <1>2, <2>1
<1>5. e # 0
  <2>. SUFFICES ASSUME e = 0 PROVE FALSE
    OBVIOUS
  <2>1. v[e][t].chain = << >>
    BY <1>4 DEF Sees, Layer
  <2>. QED
    BY <1>2, <2>1 DEF Linked
<1>. DEFINE p == br[t].parent
            prefix == ParentPrefix(v[e - 1][p].chain, br[t].at)
<1>6. p \in Streams /\ br[t].at \in Nat /\ e - 1 \in Nat /\ e - 1 \notin D
  BY <1>1, <1>3, <1>4, <1>5 DEF Wellformed
<1>7. v[e - 1][p].chain \in Seq(Receipt) /\ Linked(v[e - 1][p].chain)
  BY <1>6, ViewSeq
<1>8. prefix \in Seq(Receipt) /\ Linked(prefix)
  BY <1>6, <1>7, PrefixFacts, PrefixLinked
<1>9. v[e][t].chain = Materialize(t, prefix, loc[t])
  BY <1>3, <1>4, <1>5, BranchView
<1>. QED
  BY <1>2, <1>3, <1>8, <1>9, MaterializeLinks

(* The chain of a stream is a sequence of receipts. *)
LEMMA ChainSeq ==
  ASSUME Typed, NEW s \in Streams
  PROVE  Chain(s) \in Seq(Receipt)
BY ViewNow, ViewSeq, DepthNat DEF Typed, Chain

-----------------------------------------------------------------------------
(* What an append stores. *)
Stored(a) == [body |-> appends + 1, prev |-> call[a].prev,
              hash |-> Append(call[a].prev, <<call[a].stream, appends + 1>>)]

(* The one stream that StoreReceipt changes. *)
LEMMA StoreFacts ==
  ASSUME Typed, NEW a \in Actors, StoreReceipt(a)
  PROVE  LET s == call[a].stream
         IN  /\ call[a].op = "append" /\ s \in Streams
             /\ Stored(a) \in Receipt
             /\ local' = [local EXCEPT ![s] = Append(local[s], Stored(a))]
             /\ HeadHash(local[s]) = PhysicalPrev(call[a])
             /\ appends' = appends + 1 /\ branch' = branch
             /\ call' = [call EXCEPT ![a] = [call[a] EXCEPT !.op = "idle", !.result = "ok"]]
<1>1. call[a].op = "append" /\ call[a].stream \in Streams
  BY DEF StoreReceipt, Typed, CallsFit
<1>2. call[a].prev \in Seq(Streams \X Nat) /\ appends + 1 \in Nat
  BY DEF Typed, Calls, Hash
<1>3. <<call[a].stream, appends + 1>> \in Streams \X Nat
  BY <1>1, <1>2
<1>4. Append(call[a].prev, <<call[a].stream, appends + 1>>) \in Seq(Streams \X Nat)
  BY <1>2, <1>3
<1>5. Stored(a) \in Receipt
  BY <1>2, <1>4 DEF Stored, Receipt, Hash
<1>. QED
  BY <1>1, <1>5 DEF StoreReceipt, Stored

(* Types are kept. *)
LEMMA TypedNext ==
  ASSUME Typed, [Next]_vars
  PROVE  Typed'
<1>1. CASE UNCHANGED vars
  BY <1>1 DEF vars, Typed, Wellformed, CallsFit
<1>2. ASSUME NEW a \in Actors, NEW s \in Streams, LoadForExecute(a, s) PROVE Typed'
  <2>. DEFINE c == [Idle EXCEPT !.op = "append", !.stream = s,
                     !.prev = HeadHash(Chain(s)), !.localPrev = HeadHash(local[s])]
  <2>1. HeadHash(Chain(s)) \in Hash /\ HeadHash(local[s]) \in Hash
    BY ChainSeq, HeadFacts DEF Typed, Wellformed
  <2>2. c \in Calls /\ c.op = "append" /\ c.stream = s
    BY <2>1 DEF Idle, Calls
  <2>3. call' = [call EXCEPT ![a] = c] /\ UNCHANGED <<local, branch, appends>>
    BY <1>2 DEF LoadForExecute
  <2>. HIDE DEF c
  <2>4. CallsFit'
    BY <2>2, <2>3 DEF Typed, CallsFit, Forking
  <2>. QED
    BY <2>2, <2>3, <2>4 DEF Typed, Wellformed
<1>3. ASSUME NEW a \in Actors, StoreReceipt(a) PROVE Typed'
  <2>. DEFINE s == call[a].stream
              c == [call[a] EXCEPT !.op = "idle", !.result = "ok"]
  <2>1. /\ s \in Streams /\ Stored(a) \in Receipt
        /\ local' = [local EXCEPT ![s] = Append(local[s], Stored(a))]
        /\ appends' = appends + 1 /\ branch' = branch
        /\ call' = [call EXCEPT ![a] = c]
    BY <1>3, StoreFacts
  <2>2. c \in Calls /\ c.op = "idle"
    BY DEF Typed, Calls
  <2>. HIDE DEF c
  <2>3. Append(local[s], Stored(a)) \in Seq(Receipt)
    BY <2>1 DEF Typed, Wellformed
  <2>4. local' \in [Streams -> Seq(Receipt)]
    BY <2>1, <2>3 DEF Typed, Wellformed
  <2>5. CallsFit'
    BY <2>1, <2>2 DEF Typed, CallsFit, Forking
  <2>. QED
    BY <2>1, <2>2, <2>4, <2>5 DEF Typed, Wellformed
<1>4. ASSUME NEW a \in Actors, AppendConflict(a) PROVE Typed'
  <2>. DEFINE c == [call[a] EXCEPT !.op = "idle", !.result = "conflict"]
  <2>1. call' = [call EXCEPT ![a] = c] /\ UNCHANGED <<local, branch, appends>>
    BY <1>4 DEF AppendConflict
  <2>2. c \in Calls /\ c.op = "idle"
    BY DEF Typed, Calls
  <2>. HIDE DEF c
  <2>3. CallsFit'
    BY <2>1, <2>2 DEF Typed, CallsFit, Forking
  <2>. QED
    BY <2>1, <2>2, <2>3 DEF Typed, Wellformed
<1>5. ASSUME NEW a \in Actors, SaveBranch(a) PROVE Typed'
  <2>. DEFINE c == [call[a] EXCEPT !.op = "look"]
              row == [known |-> TRUE, parent |-> call[a].stream, at |-> call[a].at]
  <2>1. /\ call[a].op = "save" /\ call[a].stream \in Streams /\ call[a].at \in Nat /\ a \in Forkers
        /\ branch' = [branch EXCEPT ![call[a].new] = row]
        /\ call' = [call EXCEPT ![a] = c] /\ UNCHANGED <<local, appends>>
    BY <1>5 DEF SaveBranch, Typed, CallsFit, Calls, Forking
  <2>2. c \in Calls /\ c.op = "look" /\ c.stream = call[a].stream
    BY DEF Typed, Calls
  <2>3. row \in [known : BOOLEAN, parent : Streams \cup {None}, at : Nat]
    BY <2>1
  <2>. HIDE DEF c, row
  <2>4. CallsFit'
    BY <2>1, <2>2 DEF Typed, CallsFit, Forking
  <2>. QED
    BY <2>1, <2>2, <2>3, <2>4 DEF Typed, Wellformed
<1>8. ASSUME NEW a \in Actors, LookForParent(a) PROVE Typed'
  <2>. DEFINE c == IF branch[call[a].stream].known
                   THEN [call[a] EXCEPT !.op = "idle", !.result = "ok"]
                   ELSE [call[a] EXCEPT !.op = "bare"]
  <2>1. /\ call[a].op = "look" /\ call[a].stream \in Streams /\ a \in Forkers
        /\ call' = [call EXCEPT ![a] = c] /\ UNCHANGED <<local, branch, appends>>
    BY <1>8 DEF LookForParent, Typed, CallsFit, Forking
  <2>2. c \in Calls /\ c.op \in {"idle", "bare"} /\ c.stream = call[a].stream
    BY DEF Typed, Calls
  <2>. HIDE DEF c
  <2>3. CallsFit'
    BY <2>1, <2>2 DEF Typed, CallsFit, Forking
  <2>. QED
    BY <2>1, <2>2, <2>3 DEF Typed, Wellformed
<1>9. ASSUME NEW a \in Actors, SaveParent(a) PROVE Typed'
  <2>. DEFINE c == [call[a] EXCEPT !.op = "idle", !.result = "ok"]
              row == [known |-> TRUE, parent |-> None, at |-> 0]
  <2>1. /\ branch' = [branch EXCEPT ![call[a].stream] = row]
        /\ call' = [call EXCEPT ![a] = c] /\ UNCHANGED <<local, appends>>
    BY <1>9 DEF SaveParent
  <2>2. c \in Calls /\ c.op = "idle"
    BY DEF Typed, Calls
  <2>3. row \in [known : BOOLEAN, parent : Streams \cup {None}, at : Nat]
    OBVIOUS
  <2>. HIDE DEF c, row
  <2>4. CallsFit'
    BY <2>1, <2>2 DEF Typed, CallsFit, Forking
  <2>. QED
    BY <2>1, <2>2, <2>3, <2>4 DEF Typed, Wellformed
<1>6. ASSUME NEW a \in Actors, NEW s \in Streams, NEW new \in Streams, NEW at \in 0..MaxAppends,
             CheckFork(a, s, at, new)
      PROVE  Typed'
  <2>. DEFINE c == IF MayFork(s, at, new)
                   THEN [Idle EXCEPT !.op = "save", !.stream = s, !.new = new, !.at = at]
                   ELSE [Idle EXCEPT !.result = "refused"]
  <2>1. at \in Nat
    BY BranchAssumption
  <2>2. << >> \in Hash
    BY DEF Hash
  <2>3. /\ c \in Calls /\ c.op \in {"idle", "save"}
        /\ c.op = "save" => c.stream = s /\ c.new = new
    BY <2>1, <2>2 DEF Idle, Calls
  <2>4. call' = [call EXCEPT ![a] = c] /\ UNCHANGED <<local, branch, appends>> /\ a \in Forkers /\ s # new
    BY <1>6 DEF CheckFork
  <2>. HIDE DEF c
  <2>6. CallsFit'
    BY <2>3, <2>4 DEF Typed, CallsFit, Forking
  <2>. QED
    BY <2>3, <2>4, <2>6 DEF Typed, Wellformed
<1>. QED
  BY <1>1, <1>2, <1>3, <1>4, <1>5, <1>6, <1>8, <1>9 DEF Next

(* They hold at the start. *)
LEMMA TypedInit == Init => Typed
<1>. SUFFICES ASSUME Init PROVE Typed
  OBVIOUS
<1>1. << >> \in Hash /\ << >> \in Seq(Receipt)
  BY DEF Hash
<1>. QED
  BY <1>1 DEF Init, Typed, Wellformed, CallsFit, Forking, NoBranch, Idle, Calls

-----------------------------------------------------------------------------
(* A receipt that names the head of a linked chain extends it. *)
LEMMA AppendLinked ==
  ASSUME NEW chain \in Seq(Receipt), Linked(chain), NEW r \in Receipt, r.prev = HeadHash(chain)
  PROVE  Linked(Append(chain, r))
<1>. DEFINE c == Append(chain, r)
<1>1. Len(c) = Len(chain) + 1 /\ c[Len(chain) + 1] = r /\ \A i \in 1..Len(chain) : c[i] = chain[i]
  OBVIOUS
<1>. HIDE DEF c
<1>2. ASSUME NEW n \in 1..Len(c) PROVE c[n].prev = IF n = 1 THEN << >> ELSE c[n - 1].hash
  <2>1. CASE n \in 1..Len(chain)
    BY <1>1, <2>1 DEF Linked
  <2>2. CASE n = Len(chain) + 1
    <3>1. CASE Len(chain) = 0
      BY <1>1, <2>2, <3>1 DEF HeadHash
    <3>2. CASE Len(chain) # 0
      <4>1. n # 1 /\ n - 1 = Len(chain) /\ n - 1 \in 1..Len(chain) /\ chain # << >>
        BY <2>2, <3>2
      <4>. QED
        BY <1>1, <2>2, <4>1 DEF HeadHash
    <3>. QED
      BY <3>1, <3>2
  <2>. QED
    BY <1>1, <2>1, <2>2
<1>. QED
  BY <1>2 DEF Linked, c

(* While one process forks, no row is saved but its own. *)
LEMMA RowNext ==
  ASSUME OneForker, RowInv, [Next]_vars
  PROVE  RowInv'
<1>0. Typed /\ Typed' /\ call \in [Actors -> Calls] /\ branch \in [Streams -> [known : BOOLEAN, parent : Streams \cup {None}, at : Nat]]
  BY TypedNext DEF RowInv, Typed, Wellformed
<1>1. ASSUME NEW a \in Actors, NEW c, call' = [call EXCEPT ![a] = c], c.op # "bare", branch' = branch
      PROVE  RowInv'
  BY <1>0, <1>1 DEF RowInv
<1>2. CASE UNCHANGED vars
  BY <1>0, <1>2 DEF vars, RowInv
<1>3. ASSUME NEW a \in Actors, NEW s \in Streams, LoadForExecute(a, s) PROVE RowInv'
  <2>. DEFINE c == [Idle EXCEPT !.op = "append", !.stream = s,
                     !.prev = HeadHash(Chain(s)), !.localPrev = HeadHash(local[s])]
  <2>1. c.op # "bare"
    BY DEF Idle
  <2>2. call' = [call EXCEPT ![a] = c] /\ branch' = branch
    BY <1>3 DEF LoadForExecute
  <2>. HIDE DEF c
  <2>. QED
    BY <1>1, <2>1, <2>2
<1>4. ASSUME NEW a \in Actors, StoreReceipt(a) PROVE RowInv'
  <2>1. [call[a] EXCEPT !.op = "idle", !.result = "ok"].op # "bare"
    BY <1>0 DEF Calls
  <2>. QED
    BY <1>0, <1>1, <1>4, <2>1, StoreFacts
<1>5. ASSUME NEW a \in Actors, AppendConflict(a) PROVE RowInv'
  <2>1. [call[a] EXCEPT !.op = "idle", !.result = "conflict"].op # "bare"
    BY <1>0 DEF Calls
  <2>. QED
    BY <1>1, <1>5, <2>1 DEF AppendConflict
<1>6. ASSUME NEW a \in Actors, NEW s \in Streams, NEW new \in Streams, NEW at \in 0..MaxAppends,
             CheckFork(a, s, at, new)
      PROVE  RowInv'
  <2>. DEFINE c == IF MayFork(s, at, new)
                   THEN [Idle EXCEPT !.op = "save", !.stream = s, !.new = new, !.at = at]
                   ELSE [Idle EXCEPT !.result = "refused"]
  <2>1. c.op # "bare"
    BY DEF Idle
  <2>2. call' = [call EXCEPT ![a] = c] /\ branch' = branch
    BY <1>6 DEF CheckFork
  <2>. HIDE DEF c
  <2>. QED
    BY <1>1, <2>1, <2>2
<1>7. ASSUME NEW a \in Actors, SaveBranch(a) PROVE RowInv'
  <2>. DEFINE c == [call[a] EXCEPT !.op = "look"]
  <2>1. /\ call[a].op = "save" /\ a \in Forkers /\ c.op = "look"
        /\ call' = [call EXCEPT ![a] = c]
        /\ branch' = [branch EXCEPT ![call[a].new] =
                        [known |-> TRUE, parent |-> call[a].stream, at |-> call[a].at]]
    BY <1>0, <1>7 DEF SaveBranch, Typed, CallsFit, Forking, Calls
  <2>. HIDE DEF c
  <2>2. ASSUME NEW b \in Actors, call'[b].op = "bare" PROVE FALSE
    <3>1. b # a /\ call[b].op = "bare"
      BY <1>0, <2>1, <2>2
    <3>. QED
      BY <1>0, <2>1, <3>1 DEF Typed, CallsFit, Forking, OneForker
  <2>. QED
    BY <1>0, <2>1, <2>2 DEF RowInv
<1>8. ASSUME NEW a \in Actors, LookForParent(a) PROVE RowInv'
  <2>. DEFINE c == IF branch[call[a].stream].known
                   THEN [call[a] EXCEPT !.op = "idle", !.result = "ok"]
                   ELSE [call[a] EXCEPT !.op = "bare"]
  <2>1. /\ c.op = "bare" => ~branch[c.stream].known
        /\ call' = [call EXCEPT ![a] = c] /\ branch' = branch
    BY <1>0, <1>8 DEF LookForParent, Calls
  <2>. HIDE DEF c
  <2>. QED
    BY <1>0, <2>1 DEF RowInv
<1>9. ASSUME NEW a \in Actors, SaveParent(a) PROVE RowInv'
  <2>. DEFINE c == [call[a] EXCEPT !.op = "idle", !.result = "ok"]
  <2>1. /\ call[a].op = "bare" /\ a \in Forkers /\ c.op = "idle"
        /\ call' = [call EXCEPT ![a] = c]
        /\ branch' = [branch EXCEPT ![call[a].stream] = [known |-> TRUE, parent |-> None, at |-> 0]]
    BY <1>0, <1>9 DEF SaveParent, Typed, CallsFit, Forking, Calls
  <2>. HIDE DEF c
  <2>2. ASSUME NEW b \in Actors, call'[b].op = "bare" PROVE FALSE
    <3>1. b # a /\ call[b].op = "bare"
      BY <1>0, <2>1, <2>2
    <3>. QED
      BY <1>0, <2>1, <3>1 DEF Typed, CallsFit, Forking, OneForker
  <2>. QED
    BY <1>0, <2>1, <2>2 DEF RowInv
<1>. QED
  BY <1>2, <1>3, <1>4, <1>5, <1>6, <1>7, <1>8, <1>9 DEF Next

(* RowInv holds at the start. *)
LEMMA RowInit == Init => RowInv
BY TypedInit DEF Init, RowInv, NoBranch, Idle

(* Roots stay linked, and a stream that has become a branch never is a     *)
(* root again.                                                             *)
LEMMA LinkNext ==
  ASSUME OneForker, LinkInv, [Next]_vars
  PROVE  LinkInv'
<1>1. RowInv'
  BY RowNext DEF LinkInv
<1>2. CASE UNCHANGED vars
  BY <1>1, <1>2 DEF vars, LinkInv, RootsLinked, RootsAppend
<1>3. ASSUME NEW a \in Actors, NEW s \in Streams, LoadForExecute(a, s) PROVE LinkInv'
  <2>. DEFINE c == [Idle EXCEPT !.op = "append", !.stream = s,
                     !.prev = HeadHash(Chain(s)), !.localPrev = HeadHash(local[s])]
  <2>1. call' = [call EXCEPT ![a] = c] /\ UNCHANGED <<local, branch, appends>>
    BY <1>3 DEF LoadForExecute
  <2>2. c.stream = s /\ c.prev = HeadHash(Chain(s)) /\ c.localPrev = HeadHash(local[s])
    BY DEF Idle
  <2>. HIDE DEF c
  <2>3. branch[s].parent = None => Chain(s) = local[s]
    BY ViewNow, RootView, DepthNat DEF Chain
  <2>4. RootsAppend'
    BY <2>1, <2>2, <2>3 DEF LinkInv, RowInv, Typed, RootsAppend
  <2>. QED
    BY <1>1, <2>1, <2>4 DEF LinkInv, RootsLinked
<1>4. ASSUME NEW a \in Actors, StoreReceipt(a) PROVE LinkInv'
  <2>. DEFINE s == call[a].stream
              c == [call[a] EXCEPT !.op = "idle", !.result = "ok"]
  <2>1. /\ call[a].op = "append" /\ s \in Streams /\ Stored(a) \in Receipt
        /\ local' = [local EXCEPT ![s] = Append(local[s], Stored(a))]
        /\ HeadHash(local[s]) = PhysicalPrev(call[a])
        /\ branch' = branch
        /\ call' = [call EXCEPT ![a] = c]
    BY <1>4, StoreFacts DEF LinkInv, RowInv
  <2>2. c.op = "idle"
    BY DEF LinkInv, RowInv, Typed, Calls
  <2>. HIDE DEF c
  <2>3. RootsAppend'
    BY <2>1, <2>2 DEF LinkInv, RowInv, Typed, RootsAppend
  <2>4. ASSUME branch[s].parent = None PROVE Linked(Append(local[s], Stored(a)))
    <3>1. call[a].prev = call[a].localPrev
      BY <2>1, <2>4 DEF LinkInv, RootsAppend
    <3>2. Stored(a).prev = HeadHash(local[s])
      BY <2>1, <3>1 DEF PhysicalPrev, Stored
    <3>. QED
      BY <2>1, <2>4, <3>2, AppendLinked DEF LinkInv, RowInv, RootsLinked, Typed, Wellformed
  <2>5. RootsLinked'
    BY <2>1, <2>4 DEF LinkInv, RowInv, RootsLinked, Typed, Wellformed
  <2>. QED
    BY <1>1, <2>3, <2>5 DEF LinkInv
<1>5. ASSUME NEW a \in Actors, AppendConflict(a) PROVE LinkInv'
  <2>. DEFINE c == [call[a] EXCEPT !.op = "idle", !.result = "conflict"]
  <2>1. call' = [call EXCEPT ![a] = c] /\ UNCHANGED <<local, branch, appends>>
    BY <1>5 DEF AppendConflict
  <2>2. c.op = "idle"
    BY DEF LinkInv, RowInv, Typed, Calls
  <2>. HIDE DEF c
  <2>3. RootsAppend'
    BY <2>1, <2>2 DEF LinkInv, RowInv, Typed, RootsAppend
  <2>. QED
    BY <1>1, <2>1, <2>3 DEF LinkInv, RootsLinked
<1>6. ASSUME NEW a \in Actors, SaveBranch(a) \/ LookForParent(a) \/ SaveParent(a) PROVE LinkInv'
  <2>. DEFINE c == call'[a]
  <2>1. \A b \in Actors : b # a => call'[b] = call[b]
    BY <1>6 DEF SaveBranch, LookForParent, SaveParent, LinkInv, RowInv, Typed
  <2>2. c.op # "append" /\ local' = local
    BY <1>6 DEF SaveBranch, LookForParent, SaveParent, LinkInv, RowInv, Typed, Calls
  <2>. HIDE DEF c
  <2>3. ASSUME NEW s \in Streams, branch'[s].parent = None PROVE branch[s].parent = None
    <3>0. branch \in [Streams -> [known : BOOLEAN, parent : Streams \cup {None}, at : Nat]]
      BY DEF LinkInv, RowInv, Typed, Wellformed
    <3>1. CASE SaveBranch(a)
      <4>1. call[a].stream \in Streams /\ None \notin Streams
        BY <3>1, BranchAssumption DEF SaveBranch, LinkInv, RowInv, Typed, CallsFit
      <4>2. branch'[s] = IF s = call[a].new THEN [known |-> TRUE, parent |-> call[a].stream, at |-> call[a].at]
                         ELSE branch[s]
        BY <3>0, <3>1 DEF SaveBranch
      <4>. QED
        BY <2>3, <4>1, <4>2
    <3>2. CASE LookForParent(a)
      BY <2>3, <3>2 DEF LookForParent
    <3>3. CASE SaveParent(a)
      <4>1. ~branch[call[a].stream].known
        BY <3>3 DEF SaveParent, LinkInv, RowInv
      <4>2. s # call[a].stream => branch'[s] = branch[s]
        BY <3>0, <3>3 DEF SaveParent
      <4>. QED
        BY <2>3, <4>1, <4>2 DEF LinkInv, RowInv, NoBranch
    <3>. QED
      BY <1>6, <3>1, <3>2, <3>3
  <2>4. RootsAppend'
    <3>. SUFFICES ASSUME NEW b \in Actors, call'[b].op = "append", branch'[call'[b].stream].parent = None
                  PROVE  call'[b].prev = call'[b].localPrev
      BY DEF RootsAppend
    <3>1. b # a /\ call'[b] = call[b]
      BY <2>1, <2>2 DEF c
    <3>2. call[b].stream \in Streams
      BY <3>1 DEF LinkInv, RowInv, Typed, CallsFit
    <3>. QED
      BY <2>3, <3>1, <3>2 DEF LinkInv, RootsAppend
  <2>. QED
    BY <1>1, <2>2, <2>3, <2>4 DEF LinkInv, RootsLinked
<1>7. ASSUME NEW a \in Actors, NEW s \in Streams, NEW new \in Streams, NEW at \in 0..MaxAppends,
             CheckFork(a, s, at, new)
      PROVE  LinkInv'
  <2>. DEFINE c == IF MayFork(s, at, new)
                   THEN [Idle EXCEPT !.op = "save", !.stream = s, !.new = new, !.at = at]
                   ELSE [Idle EXCEPT !.result = "refused"]
  <2>1. c.op # "append"
    BY DEF Idle
  <2>2. call' = [call EXCEPT ![a] = c] /\ UNCHANGED <<local, branch, appends>>
    BY <1>7 DEF CheckFork
  <2>. HIDE DEF c
  <2>3. RootsAppend'
    BY <2>1, <2>2 DEF LinkInv, RowInv, Typed, RootsAppend
  <2>. QED
    BY <1>1, <2>2, <2>3 DEF LinkInv, RootsLinked
<1>. QED
  BY <1>2, <1>3, <1>4, <1>5, <1>6, <1>7 DEF Next

(* With one forker LinkInv is an invariant. *)
THEOREM LinkInvariance == ASSUME OneForker PROVE Spec => []LinkInv
<1>1. Init => LinkInv
  <2>. SUFFICES ASSUME Init PROVE RootsLinked /\ RootsAppend
    BY RowInit DEF LinkInv
  <2>1. Linked(<< >>)
    BY DEF Linked
  <2>. QED
    BY <2>1 DEF Init, RootsLinked, RootsAppend, Idle
<1>2. LinkInv /\ [Next]_vars => LinkInv'
  BY LinkNext
<1>. QED
  BY <1>1, <1>2, PTL DEF Spec

(* With one forker, `receipt verify` accepts every stream and every branch *)
(* that can be read, whatever is appended before, between and after the    *)
(* steps of a fork: the receipts of a root name each other, a branch stays *)
(* a branch, and relinking links its receipts to those of its parent.      *)
THEOREM EveryChainVerifies == ASSUME OneForker PROVE Spec => []ChainsVerify
<1>1. LinkInv => ChainsVerify
  <2>. SUFFICES ASSUME LinkInv, NEW s \in Streams PROVE Linked(Chain(s))
    BY DEF ChainsVerify
  <2>. QED
    BY ViewNow, ViewLinked, DepthNat DEF LinkInv, RowInv, Typed, RootsLinked, Chain
<1>. QED
  BY <1>1, LinkInvariance, PTL

-----------------------------------------------------------------------------
(* Receipt b is stored under the name s. *)
Owns(loc, s, b) == \E n \in 1..Len(loc[s]) : loc[s][n].body = b

(* No two stored receipts are equal. *)
OneOwner(loc) ==
  \A s, t \in Streams : \A n \in 1..Len(loc[s]), m \in 1..Len(loc[t]) :
    loc[s][n].body = loc[t][m].body => s = t /\ n = m

(* What is seen of s are different receipts, of streams seen as well. *)
Owned(v, loc, d, s) ==
  /\ \A n \in 1..Len(v[d][s].chain) :
       \E t \in Streams : v[d][t].ends /\ Owns(loc, t, v[d][s].chain[n].body)
  /\ \A n, m \in 1..Len(v[d][s].chain) :
       v[d][s].chain[n].body = v[d][s].chain[m].body => n = m

(* A branch first seen at depth d owns none of the prefix.                 *)
LEMMA PrefixForeign ==
  ASSUME NEW v, NEW loc, NEW br, Wellformed(loc, br), Sees(v, loc, br), OneOwner(loc),
         NEW d \in Nat, NEW s \in Streams, d # 0, br[s].parent # None, ~v[d - 1][s].ends,
         Owned(v, loc, d - 1, br[s].parent)
  PROVE  LET prefix == ParentPrefix(v[d - 1][br[s].parent].chain, br[s].at)
         IN  /\ \A n \in 1..Len(prefix) : ~Owns(loc, s, prefix[n].body)
             /\ ~HoldsPrefix(prefix, loc[s])
<1>. DEFINE p == br[s].parent
            prefix == ParentPrefix(v[d - 1][p].chain, br[s].at)
<1>1. p \in Streams /\ br[s].at \in Nat /\ d - 1 \in Nat
  BY DEF Wellformed
<1>2. v[d - 1][p].chain \in Seq(Receipt)
  BY <1>1, ViewSeq
<1>3. /\ prefix \in Seq(Receipt) /\ Len(prefix) <= Len(v[d - 1][p].chain)
      /\ \A i \in 1..Len(prefix) : prefix[i] = v[d - 1][p].chain[i]
  <2>. DEFINE chain == v[d - 1][p].chain
              at == br[s].at
  <2>1. chain \in Seq(Receipt) /\ at \in Nat
    BY <1>1, <1>2
  <2>. HIDE DEF chain, at
  <2>2. /\ ParentPrefix(chain, at) \in Seq(Receipt)
        /\ Len(ParentPrefix(chain, at)) <= Len(chain)
        /\ \A i \in 1..Len(ParentPrefix(chain, at)) : ParentPrefix(chain, at)[i] = chain[i]
    BY <2>1, PrefixFacts
  <2>. QED
    BY <2>2 DEF chain, at
<1>. HIDE DEF prefix
<1>4. ASSUME NEW n \in 1..Len(prefix), Owns(loc, s, prefix[n].body) PROVE FALSE
  <2>1. n \in 1..Len(v[d - 1][p].chain)
    BY <1>2, <1>3
  <2>2. PICK t \in Streams : v[d - 1][t].ends /\ Owns(loc, t, prefix[n].body)
    BY <2>1, <1>3 DEF Owned
  <2>3. t = s
    BY <1>4, <2>2 DEF Owns, OneOwner
  <2>. QED
    BY <2>2, <2>3
<1>5. ASSUME HoldsPrefix(prefix, loc[s]) PROVE FALSE
  <2>1. 1 \in 1..Len(prefix) /\ 1 \in 1..Len(loc[s])
    BY <1>3, <1>5 DEF HoldsPrefix, Wellformed
  <2>2. Owns(loc, s, prefix[1].body)
    BY <2>1, <1>5 DEF HoldsPrefix, Owns
  <2>. QED
    BY <1>4, <2>1, <2>2
<1>. QED
  BY <1>4, <1>5 DEF prefix

(* The chain m consists of the first k receipts of chain and of receipts.  *)
Parts(m, k, chain, receipts) ==
  /\ m \in Seq(Receipt) /\ k \in Nat /\ k <= Len(chain)
  /\ Len(m) = k + Len(receipts)
  /\ \A n \in 1..Len(m) :
       /\ n <= k => n \in 1..Len(chain) /\ m[n] = chain[n]
       /\ ~(n <= k) => n - k \in 1..Len(receipts) /\ m[n].body = receipts[n - k].body

(* Where the receipts of a branch come from. *)
LEMMA BranchParts ==
  ASSUME NEW s \in Streams, NEW chain \in Seq(Receipt), NEW at \in Nat, NEW receipts \in Seq(Receipt),
         ~HoldsPrefix(ParentPrefix(chain, at), receipts)
  PROVE  Parts(Materialize(s, ParentPrefix(chain, at), receipts), Len(ParentPrefix(chain, at)),
               chain, receipts)
<1>. DEFINE prefix == ParentPrefix(chain, at)
            m == Materialize(s, prefix, receipts)
<1>1. /\ prefix \in Seq(Receipt)
      /\ Len(prefix) = IF at < Len(chain) THEN at ELSE Len(chain)
      /\ \A i \in 1..Len(prefix) : prefix[i] = chain[i]
  BY PrefixFacts
<1>. HIDE DEF prefix
<1>2. Own(prefix, receipts) = receipts
  BY DEF Own, prefix
<1>3. /\ m \in Seq(Receipt) /\ Len(m) = Len(prefix) + Len(receipts)
      /\ \A i \in 1..Len(prefix) : m[i] = prefix[i]
      /\ \A i \in 1..Len(receipts) : m[Len(prefix) + i].body = receipts[i].body
  <2>. DEFINE own == Own(prefix, receipts)
  <2>1. /\ m \in Seq(Receipt) /\ Len(m) = Len(prefix) + Len(own)
        /\ \A i \in 1..Len(prefix) : m[i] = prefix[i]
        /\ \A i \in 1..Len(own) : m[Len(prefix) + i].body = own[i].body
    BY <1>1, MaterializeFacts
  <2>2. own = receipts
    BY <1>2
  <2>. HIDE DEF own, m
  <2>. QED
    BY <2>1, <2>2
<1>. HIDE DEF m
<1>. DEFINE k == Len(prefix)
            l == Len(receipts)
            c == Len(chain)
<1>4. k \in Nat /\ l \in Nat /\ c \in Nat /\ k <= c
  BY <1>1
<1>5. ASSUME NEW n \in 1..Len(m), n <= k
      PROVE  n \in 1..c /\ m[n] = chain[n]
  <2>1. n \in 1..k /\ n \in 1..c
    BY <1>4, <1>5
  <2>. QED
    BY <2>1, <1>1, <1>3
<1>6. ASSUME NEW n \in 1..Len(m), ~(n <= k)
      PROVE  n - k \in 1..l /\ m[n].body = receipts[n - k].body
  <2>1. n \in 1..(k + l)
    BY <1>3
  <2>2. n - k \in 1..l /\ n = k + (n - k)
    BY <2>1, <1>4, <1>6
  <2>. QED
    BY <2>2, <1>3
<1>. QED
  BY <1>3, <1>4, <1>5, <1>6 DEF prefix, m, Parts

(* What is seen of a stream that can be seen are different receipts.       *)
LEMMA ViewOwned ==
  ASSUME NEW v, NEW loc, NEW br, Wellformed(loc, br), Sees(v, loc, br), OneOwner(loc),
         NEW d \in Nat, NEW s \in Streams, v[d][s].ends
  PROVE  Owned(v, loc, d, s)
<1>. DEFINE D == {e \in Nat : \E t \in Streams : v[e][t].ends /\ ~Owned(v, loc, e, t)}
<1>. SUFFICES ASSUME D # {} PROVE FALSE
  OBVIOUS
<1>1. PICK e \in D : \A f \in D : e <= f
  BY Least
<1>2. PICK t \in Streams : v[e][t].ends /\ ~Owned(v, loc, e, t)
  BY <1>1
<1>3. e \in Nat /\ loc[t] \in Seq(Receipt)
  BY <1>1 DEF Wellformed
<1>4. CASE br[t].parent = None
  <2>1. v[e][t].chain = loc[t]
    BY <1>3, <1>4, RootView
  <2>2. Owned(v, loc, e, t)
    BY <1>2, <2>1 DEF Owned, Owns, OneOwner
  <2>. QED
    BY <1>2, <2>2
<1>5. CASE br[t].parent # None
  <2>. DEFINE p == br[t].parent
              prefix == ParentPrefix(v[e - 1][p].chain, br[t].at)
              m == Materialize(t, prefix, loc[t])
  <2>1. e # 0 /\ e - 1 \in Nat /\ e - 1 \notin D /\ p \in Streams /\ v[e - 1][p].ends
    <3>1. e # 0 /\ e - 1 \in Nat /\ p \in Streams /\ v[e - 1][p].ends
      BY <1>2, <1>3, <1>5, ParentSeen
    <3>. QED
      BY <3>1, <1>1
  <2>2. Owned(v, loc, e - 1, p)
    BY <2>1
  <2>3. CASE v[e - 1][t].ends
    <3>1. Owned(v, loc, e - 1, t)
      BY <2>1, <2>3
    <3>2. v[e][t].chain = v[e - 1][t].chain
      BY <2>1, <2>3, <1>3, Settled
    <3>3. \A u \in Streams : v[e - 1][u].ends => v[e][u].ends
      BY <2>1, <1>3, Settled
    <3>4. Owned(v, loc, e, t)
      BY <3>1, <3>2, <3>3 DEF Owned
    <3>. QED
      BY <1>2, <3>4
  <2>4. CASE ~v[e - 1][t].ends
    <3>1. /\ \A n \in 1..Len(prefix) : ~Owns(loc, t, prefix[n].body)
          /\ ~HoldsPrefix(prefix, loc[t])
      BY <1>3, <1>5, <2>1, <2>2, <2>4, PrefixForeign
    <3>2. v[e - 1][p].chain \in Seq(Receipt) /\ br[t].at \in Nat
      BY <2>1, ViewSeq DEF Wellformed
    <3>4. v[e][t].chain = m
      BY <1>3, <1>5, <2>1, BranchView
    <3>. DEFINE k == Len(prefix)
    <3>6. Parts(m, k, v[e - 1][p].chain, loc[t])
      BY <1>3, <3>1, <3>2, BranchParts
    <3>7. \A i \in 1..k : prefix[i] = v[e - 1][p].chain[i]
      BY <3>2, PrefixFacts
    <3>. HIDE DEF m, prefix
    <3>8. ASSUME NEW n \in 1..Len(m), n <= k
          PROVE  /\ n \in 1..Len(v[e - 1][p].chain)
                 /\ m[n] = v[e - 1][p].chain[n] /\ ~Owns(loc, t, m[n].body)
      <4>1. n \in 1..Len(v[e - 1][p].chain) /\ m[n] = v[e - 1][p].chain[n]
        BY <3>6, <3>8 DEF Parts
      <4>2. k \in Nat /\ m \in Seq(Receipt)
        BY <3>6 DEF Parts
      <4>3. n \in 1..k
        BY <4>2, <3>8
      <4>. QED
        BY <3>1, <3>7, <4>1, <4>3
    <3>9. ASSUME NEW n \in 1..Len(m), ~(n <= k)
          PROVE  /\ n - k \in 1..Len(loc[t]) /\ m[n].body = loc[t][n - k].body
                 /\ Owns(loc, t, m[n].body)
      <4>1. n - k \in 1..Len(loc[t]) /\ m[n].body = loc[t][n - k].body
        BY <3>6, <3>9 DEF Parts
      <4>. QED
        BY <4>1 DEF Owns
    <3>10. ASSUME NEW n \in 1..Len(m) PROVE \E u \in Streams : v[e][u].ends /\ Owns(loc, u, m[n].body)
      <4>1. CASE n <= k
        <5>1. PICK u \in Streams : v[e - 1][u].ends /\ Owns(loc, u, m[n].body)
          BY <4>1, <3>8, <2>2 DEF Owned
        <5>2. v[e][u].ends
          BY <5>1, <2>1, <1>3, Settled
        <5>. QED
          BY <5>1, <5>2
      <4>2. CASE ~(n <= k)
        BY <4>2, <3>9, <1>2
      <4>. QED
        BY <4>1, <4>2
    <3>11. ASSUME NEW n \in 1..Len(m), NEW l \in 1..Len(m), m[n].body = m[l].body PROVE n = l
      <4>1. CASE n <= k /\ l <= k
        <5>1. n \in 1..Len(v[e - 1][p].chain) /\ m[n] = v[e - 1][p].chain[n]
          BY <4>1, <3>8
        <5>2. l \in 1..Len(v[e - 1][p].chain) /\ m[l] = v[e - 1][p].chain[l]
          BY <4>1, <3>8
        <5>. QED
          BY <5>1, <5>2, <3>11, <2>2 DEF Owned
      <4>2. CASE ~(n <= k) /\ ~(l <= k)
        <5>1. n - k \in 1..Len(loc[t]) /\ m[n].body = loc[t][n - k].body
          BY <4>2, <3>9
        <5>2. l - k \in 1..Len(loc[t]) /\ m[l].body = loc[t][l - k].body
          BY <4>2, <3>9
        <5>3. loc[t][n - k].body = loc[t][l - k].body
          BY <5>1, <5>2, <3>11
        <5>. HIDE DEF k
        <5>4. n - k = l - k
          <6>. DEFINE i == n - k
                      j == l - k
          <6>1. i \in 1..Len(loc[t]) /\ j \in 1..Len(loc[t]) /\ loc[t][i].body = loc[t][j].body
            BY <5>1, <5>2, <5>3
          <6>. HIDE DEF i, j
          <6>2. i = j
            BY <6>1 DEF OneOwner
          <6>. QED
            BY <6>2 DEF i, j
        <5>5. k \in Nat /\ n \in Nat /\ l \in Nat
          BY <3>6 DEF Parts
        <5>. QED
          BY <5>4, <5>5
      <4>3. CASE n <= k /\ ~(l <= k)
        BY <4>3, <3>8, <3>9, <3>11
      <4>4. CASE ~(n <= k) /\ l <= k
        BY <4>4, <3>8, <3>9, <3>11
      <4>. QED
        BY <4>1, <4>2, <4>3, <4>4
    <3>12. Owned(v, loc, e, t)
      BY <3>4, <3>10, <3>11 DEF Owned
    <3>. QED
      BY <1>2, <3>12
  <2>. QED
    BY <2>3, <2>4
<1>. QED
  BY <1>4, <1>5

-----------------------------------------------------------------------------
(* Different numbers up to k are no more than k. *)
LEMMA CountBound ==
  ASSUME NEW chain \in Seq(Receipt), NEW k \in Nat,
         \A n \in 1..Len(chain) : chain[n].body \in 1..k,
         \A n, m \in 1..Len(chain) : chain[n].body = chain[m].body => n = m
  PROVE  Len(chain) <= k
<1>. DEFINE l == Len(chain)
            f == [n \in 1..l |-> chain[n].body]
<1>. SUFFICES ASSUME ~(l <= k) PROVE FALSE
  OBVIOUS
<1>1. l \in Nat /\ k < l
  OBVIOUS
<1>2. IsFiniteSet(1..l) /\ Cardinality(1..l) = l
  BY <1>1, FS_Interval
<1>3. IsFiniteSet(1..k) /\ Cardinality(1..k) = k
  BY FS_Interval
<1>4. f \in [1..l -> 1..k]
  OBVIOUS
<1>5. \E x, y \in 1..l : x # y /\ f[x] = f[y]
  <2>. DEFINE S == 1..l
              T == 1..k
  <2>1. IsFiniteSet(S) /\ IsFiniteSet(T) /\ Cardinality(T) < Cardinality(S) /\ f \in [S -> T]
    BY <1>1, <1>2, <1>3, <1>4
  <2>. HIDE DEF S, T, f
  <2>2. \E x, y \in S : x # y /\ f[x] = f[y]
    BY <2>1, FS_PigeonHole
  <2>. QED
    BY <2>2 DEF S
<1>. QED
  BY <1>5

(* Receipts are numbered by their appends, and a fork point, in the table  *)
(* or about to be written to it, is a number of receipts there were.       *)
Numbered == \A s \in Streams : \A n \in 1..Len(local[s]) : local[s][n].body \in 1..appends
ForksBounded ==
  /\ \A s \in Streams : branch[s].at <= appends
  /\ \A a \in Actors : call[a].at <= appends
BodyInv == Typed /\ Numbered /\ OneOwner(local) /\ ForksBounded

(* What can be read of a stream is no longer than all that was appended.   *)
LEMMA ChainBounded ==
  ASSUME BodyInv, NEW s \in Streams, Readable(s)
  PROVE  Len(Chain(s)) <= appends
<1>1. Owned(View, local, Depth, s)
  BY ViewNow, ViewOwned, DepthNat DEF BodyInv, Typed, Readable
<1>2. Chain(s) \in Seq(Receipt) /\ appends \in Nat
  BY ChainSeq DEF BodyInv, Typed
<1>3. ASSUME NEW n \in 1..Len(Chain(s)) PROVE Chain(s)[n].body \in 1..appends
  <2>1. PICK t \in Streams : Owns(local, t, Chain(s)[n].body)
    BY <1>1 DEF Owned, Chain
  <2>. QED
    BY <2>1 DEF Owns, BodyInv, Numbered
<1>4. \A n, m \in 1..Len(Chain(s)) : Chain(s)[n].body = Chain(s)[m].body => n = m
  BY <1>1 DEF Owned, Chain
<1>. QED
  BY <1>2, <1>3, <1>4, CountBound

(* The number of the next receipt is new. *)
LEMMA StoreBodies ==
  ASSUME BodyInv, NEW a \in Actors, StoreReceipt(a)
  PROVE  Numbered' /\ OneOwner(local') /\ ForksBounded'
<1>. DEFINE s == call[a].stream
            c == [call[a] EXCEPT !.op = "idle", !.result = "ok"]
            new == Stored(a)
<1>1. /\ s \in Streams /\ new \in Receipt
      /\ local' = [local EXCEPT ![s] = Append(local[s], new)]
      /\ appends' = appends + 1 /\ branch' = branch
      /\ call' = [call EXCEPT ![a] = c]
  BY StoreFacts DEF BodyInv
<1>2. c.at = call[a].at
  BY DEF BodyInv, Typed, Calls
<1>3. new.body = appends + 1 /\ appends \in Nat
  BY DEF Stored, BodyInv, Typed
<1>. HIDE DEF c, new
<1>4. \A t \in Streams : local[t] \in Seq(Receipt)
  BY DEF BodyInv, Typed, Wellformed
<1>5. /\ Len(Append(local[s], new)) = Len(local[s]) + 1
      /\ Append(local[s], new)[Len(local[s]) + 1] = new
      /\ \A n \in 1..Len(local[s]) : Append(local[s], new)[n] = local[s][n]
  BY <1>1, <1>4
<1>6. /\ local'[s] = Append(local[s], new)
      /\ \A t \in Streams : t # s => local'[t] = local[t]
  BY <1>1 DEF BodyInv, Typed, Wellformed
<1>7. ASSUME NEW t \in Streams, NEW n \in 1..Len(local'[t])
      PROVE  \/ n \in 1..Len(local[t]) /\ local'[t][n] = local[t][n] /\ local[t][n].body \in 1..appends
             \/ t = s /\ n = Len(local[s]) + 1 /\ local'[t][n].body = appends + 1
  <2>1. CASE n \in 1..Len(local[t])
    BY <2>1, <1>5, <1>6 DEF BodyInv, Numbered
  <2>2. CASE n \notin 1..Len(local[t])
    <3>1. t = s /\ n \in 1..(Len(local[s]) + 1)
      BY <2>2, <1>5, <1>6
    <3>2. n = Len(local[s]) + 1
      BY <2>2, <3>1, <1>1, <1>4
    <3>. QED
      BY <3>1, <3>2, <1>3, <1>5, <1>6
  <2>. QED
    BY <2>1, <2>2
<1>8. Numbered'
  <2>1. ASSUME NEW t \in Streams, NEW n \in 1..Len(local'[t]) PROVE local'[t][n].body \in 1..(appends + 1)
    BY <1>3, <1>7
  <2>. QED
    BY <1>1, <2>1 DEF Numbered
<1>9. OneOwner(local')
  <2>1. ASSUME NEW t \in Streams, NEW u \in Streams, NEW n \in 1..Len(local'[t]), NEW m \in 1..Len(local'[u]),
               local'[t][n].body = local'[u][m].body
        PROVE  t = u /\ n = m
    <3>1. CASE n \in 1..Len(local[t]) /\ local'[t][n] = local[t][n] /\ local[t][n].body \in 1..appends
      <4>1. m \in 1..Len(local[u]) /\ local'[u][m] = local[u][m]
        BY <2>1, <3>1, <1>3, <1>7
      <4>. QED
        BY <2>1, <3>1, <4>1 DEF BodyInv, OneOwner
    <3>2. CASE t = s /\ n = Len(local[s]) + 1 /\ local'[t][n].body = appends + 1
      <4>1. u = s /\ m = Len(local[s]) + 1
        BY <2>1, <3>2, <1>3, <1>7
      <4>. QED
        BY <3>2, <4>1
    <3>. QED
      BY <3>1, <3>2, <1>7
  <2>. QED
    BY <2>1 DEF OneOwner
<1>10. ForksBounded'
  <2>1. \A t \in Streams : branch[t].at \in Nat /\ branch[t].at <= appends
    BY DEF BodyInv, Typed, Wellformed, ForksBounded
  <2>2. \A b \in Actors : call[b].at \in Nat /\ call[b].at <= appends
    BY DEF BodyInv, Typed, Calls, ForksBounded
  <2>3. \A b \in Actors : call'[b].at = call[b].at
    BY <1>1, <1>2 DEF BodyInv, Typed
  <2>. QED
    BY <1>1, <1>3, <2>1, <2>2, <2>3 DEF ForksBounded
<1>. QED
  BY <1>8, <1>9, <1>10

(* BodyInv is inductive. *)
LEMMA BodyNext ==
  ASSUME BodyInv, [Next]_vars
  PROVE  BodyInv'
<1>1. Typed'
  BY TypedNext DEF BodyInv
<1>0. appends \in Nat /\ \A a \in Actors : call[a] \in Calls
  BY DEF BodyInv, Typed
<1>2. CASE UNCHANGED vars
  BY <1>1, <1>2 DEF vars, BodyInv, Numbered, ForksBounded
<1>3. ASSUME NEW a \in Actors, NEW s \in Streams, LoadForExecute(a, s) PROVE BodyInv'
  <2>. DEFINE c == [Idle EXCEPT !.op = "append", !.stream = s,
                     !.prev = HeadHash(Chain(s)), !.localPrev = HeadHash(local[s])]
  <2>1. call' = [call EXCEPT ![a] = c] /\ UNCHANGED <<local, branch, appends>>
    BY <1>3 DEF LoadForExecute
  <2>2. c.at <= appends
    BY <1>0 DEF Idle
  <2>. HIDE DEF c
  <2>. QED
    BY <1>1, <2>1, <2>2 DEF BodyInv, Typed, Numbered, ForksBounded
<1>4. ASSUME NEW a \in Actors, StoreReceipt(a) PROVE BodyInv'
  BY <1>1, <1>4, StoreBodies DEF BodyInv
<1>5. ASSUME NEW a \in Actors, AppendConflict(a) PROVE BodyInv'
  <2>. DEFINE c == [call[a] EXCEPT !.op = "idle", !.result = "conflict"]
  <2>1. call' = [call EXCEPT ![a] = c] /\ UNCHANGED <<local, branch, appends>>
    BY <1>5 DEF AppendConflict
  <2>2. c.at <= appends
    BY <1>0 DEF Calls, BodyInv, ForksBounded
  <2>. HIDE DEF c
  <2>. QED
    BY <1>1, <2>1, <2>2 DEF BodyInv, Typed, Numbered, ForksBounded
<1>6. ASSUME NEW a \in Actors, SaveBranch(a) \/ LookForParent(a) \/ SaveParent(a) PROVE BodyInv'
  <2>. DEFINE B == [known : BOOLEAN, parent : Streams \cup {None}, at : Nat]
  <2>1. /\ \A b \in Actors : call'[b].at = call[b].at
        /\ UNCHANGED <<local, appends>>
    <3>1. call \in [Actors -> Calls]
      BY DEF BodyInv, Typed
    <3>2. CASE SaveBranch(a)
      BY <3>1, <3>2 DEF SaveBranch, Calls
    <3>3. CASE LookForParent(a)
      BY <3>1, <3>3 DEF LookForParent, Calls
    <3>4. CASE SaveParent(a)
      BY <3>1, <3>4 DEF SaveParent, Calls
    <3>. QED
      BY <1>6, <3>2, <3>3, <3>4
  <2>2. call[a].at <= appends /\ 0 <= appends
    BY <1>0 DEF BodyInv, ForksBounded
  <2>3. ASSUME NEW s \in Streams PROVE branch'[s].at <= appends
    <3>1. branch \in [Streams -> B] /\ branch[s].at <= appends
      BY DEF BodyInv, Typed, Wellformed, ForksBounded
    <3>2. branch'[s].at \in {branch[s].at, call[a].at, 0}
      <4>1. CASE SaveBranch(a)
        BY <3>1, <4>1 DEF SaveBranch
      <4>2. CASE LookForParent(a)
        BY <4>2 DEF LookForParent
      <4>3. CASE SaveParent(a)
        BY <3>1, <4>3 DEF SaveParent
      <4>. QED
        BY <1>6, <4>1, <4>2, <4>3
    <3>. QED
      BY <2>2, <3>1, <3>2
  <2>. QED
    BY <1>1, <2>1, <2>3 DEF BodyInv, Numbered, ForksBounded
<1>7. ASSUME NEW a \in Actors, NEW s \in Streams, NEW new \in Streams, NEW at \in 0..MaxAppends,
             CheckFork(a, s, at, new)
      PROVE  BodyInv'
  <2>. DEFINE c == IF MayFork(s, at, new)
                   THEN [Idle EXCEPT !.op = "save", !.stream = s, !.new = new, !.at = at]
                   ELSE [Idle EXCEPT !.result = "refused"]
  <2>1. call' = [call EXCEPT ![a] = c] /\ UNCHANGED <<local, branch, appends>> /\ Readable(s)
    BY <1>7 DEF CheckFork
  <2>2. MayFork(s, at, new) => at <= appends
    <3>1. MayFork(s, at, new) => at <= Len(Chain(s))
      BY DEF MayFork
    <3>2. Len(Chain(s)) <= appends /\ Len(Chain(s)) \in Nat
      BY <2>1, ChainBounded, ChainSeq DEF BodyInv
    <3>. QED
      BY <3>1, <3>2, <1>0, BranchAssumption
  <2>3. c.at <= appends
    BY <1>0, <2>2 DEF Idle
  <2>. HIDE DEF c
  <2>. QED
    BY <1>1, <2>1, <2>3 DEF BodyInv, Typed, Numbered, ForksBounded
<1>. QED
  BY <1>2, <1>3, <1>4, <1>5, <1>6, <1>7 DEF Next

(* BodyInv is an invariant. *)
THEOREM BodyInvariance == Spec => []BodyInv
<1>1. Init => BodyInv
  <2>. SUFFICES ASSUME Init PROVE Numbered /\ OneOwner(local) /\ ForksBounded
    BY TypedInit DEF BodyInv
  <2>. QED
    BY DEF Init, Numbered, OneOwner, ForksBounded, NoBranch, Idle
<1>2. BodyInv /\ [Next]_vars => BodyInv'
  BY BodyNext
<1>. QED
  BY <1>1, <1>2, PTL DEF Spec

(* Every variable keeps its type, and no fork point is ever beyond all     *)
(* that was appended, however many processes fork and append: what can be  *)
(* read of a branch are different receipts.                                *)
THEOREM BranchTypes == Spec => []TypeOK
<1>1. BodyInv => TypeOK
  <2>. SUFFICES ASSUME BodyInv PROVE TypeOK
    OBVIOUS
  <2>1. branch \in [Streams -> [known : BOOLEAN, parent : Streams \cup {None}, at : 0..appends]]
    BY DEF BodyInv, Typed, Wellformed, ForksBounded
  <2>. QED
    BY <2>1 DEF BodyInv, Typed, Wellformed, TypeOK
<1>. QED
  BY <1>1, BodyInvariance, PTL

-----------------------------------------------------------------------------
(* A branch that can be seen does not begin with the prefix of its parent. *)
LEMMA BranchForeign ==
  ASSUME NEW v, NEW loc, NEW br, Wellformed(loc, br), Sees(v, loc, br), OneOwner(loc),
         NEW d \in Nat, NEW s \in Streams, v[d][s].ends, br[s].parent # None
  PROVE  ~HoldsPrefix(ParentPrefix(v[d][br[s].parent].chain, br[s].at), loc[s])
<1>. DEFINE p == br[s].parent
            D == {e \in Nat : v[e][s].ends}
<1>1. PICK e \in D : \A f \in D : e <= f
  <2>1. D # {} /\ D \subseteq Nat
    OBVIOUS
  <2>. HIDE DEF D
  <2>. QED
    BY <2>1, Least
<1>2. e \in Nat /\ e <= d /\ v[e][s].ends
  BY <1>1
<1>3. e # 0 /\ e - 1 \in Nat /\ p \in Streams /\ v[e - 1][p].ends
  BY <1>2, ParentSeen
<1>4. ~v[e - 1][s].ends
  BY <1>1, <1>2, <1>3
<1>5. Owned(v, loc, e - 1, p)
  BY <1>3, ViewOwned
<1>6. ~HoldsPrefix(ParentPrefix(v[e - 1][p].chain, br[s].at), loc[s])
  BY <1>2, <1>3, <1>4, <1>5, PrefixForeign
<1>7. e - 1 <= d
  BY <1>2
<1>8. v[d][p].chain = v[e - 1][p].chain
  BY <1>3, <1>7, Settled
<1>. QED
  BY <1>6, <1>8

(* Whether a stream can be seen depends on the branch rows alone. *)
LEMMA EndsSame ==
  ASSUME NEW v, NEW w, NEW loc, NEW new, NEW br, Wellformed(loc, br), Wellformed(new, br),
         Sees(v, loc, br), Sees(w, new, br), NEW d \in Nat, NEW s \in Streams, v[d][s].ends
  PROVE  w[d][s].ends
<1>. DEFINE D == {e \in Nat : \E t \in Streams : v[e][t].ends /\ ~w[e][t].ends}
<1>. SUFFICES ASSUME D # {} PROVE FALSE
  OBVIOUS
<1>1. PICK e \in D : \A f \in D : e <= f
  BY Least
<1>2. PICK t \in Streams : v[e][t].ends /\ ~w[e][t].ends
  BY <1>1
<1>3. e \in Nat
  BY <1>1
<1>4. br[t].parent # None
  BY <1>2, <1>3, RootView
<1>. DEFINE p == br[t].parent
<1>5. e # 0 /\ e - 1 \in Nat /\ p \in Streams /\ v[e - 1][p].ends
  BY <1>2, <1>3, <1>4, ParentSeen
<1>6. w[e - 1][p].ends
  BY <1>1, <1>5
<1>7. w[e][t].ends = w[e - 1][p].ends
  BY <1>3, <1>4, <1>5, BranchView
<1>. QED
  BY <1>2, <1>6, <1>7

(* A layer shows of a stream what its parent shows below.                *)
LEMMA SameLayer ==
  ASSUME NEW loc, NEW br, NEW br2, NEW below, NEW below2, NEW d, NEW s \in Streams,
         br2[s].parent = br[s].parent, br2[s].at = br[s].at,
         br[s].parent = None \/ d = 0 \/ below2[br[s].parent] = below[br[s].parent]
  PROVE  Layer(loc, br2, below2, d)[s] = Layer(loc, br, below, d)[s]
<1>1. CASE br[s].parent = None
  BY <1>1 DEF Layer
<1>2. CASE br[s].parent # None /\ d = 0
  BY <1>2 DEF Layer
<1>3. CASE br[s].parent # None /\ d # 0
  BY <1>3 DEF Layer
<1>. QED
  BY <1>1, <1>2, <1>3

(* Streams with the same receipts and the same ancestors are seen alike. *)
LEMMA SameView ==
  ASSUME NEW v, NEW w, NEW loc, NEW br, NEW br2, Sees(v, loc, br), Sees(w, loc, br2),
         NEW X \in SUBSET Streams,
         \A s \in X : /\ br2[s].parent = br[s].parent /\ br2[s].at = br[s].at
                      /\ br[s].parent = None \/ br[s].parent \in X,
         NEW d \in Nat, NEW s \in X
  PROVE  w[d][s] = v[d][s]
<1>. DEFINE D == {e \in Nat : \E t \in X : w[e][t] # v[e][t]}
<1>. SUFFICES ASSUME D # {} PROVE FALSE
  OBVIOUS
<1>1. PICK e \in D : \A f \in D : e <= f
  BY Least
<1>2. PICK t \in X : w[e][t] # v[e][t]
  BY <1>1
<1>3. e \in Nat /\ t \in Streams
  BY <1>1
<1>4. v[e] = Layer(loc, br, v[e - 1], e) /\ w[e] = Layer(loc, br2, w[e - 1], e)
  BY <1>3 DEF Sees
<1>5. /\ br2[t].parent = br[t].parent /\ br2[t].at = br[t].at
      /\ br[t].parent = None \/ br[t].parent \in X
  OBVIOUS
<1>. DEFINE p == br[t].parent
<1>6. ~(p = None \/ e = 0 \/ w[e - 1][p] = v[e - 1][p])
  <2>1. SUFFICES ASSUME p = None \/ e = 0 \/ w[e - 1][p] = v[e - 1][p] PROVE FALSE
    OBVIOUS
  <2>2. Layer(loc, br2, w[e - 1], e)[t] = Layer(loc, br, v[e - 1], e)[t]
    <3>1. \A below, below2 : (p = None \/ e = 0 \/ below2[p] = below[p])
                              => Layer(loc, br2, below2, e)[t] = Layer(loc, br, below, e)[t]
      BY <1>3, <1>5, SameLayer
    <3>. QED
      BY <2>1, <3>1
  <2>. QED
    BY <2>2, <1>2, <1>4
<1>7. p \in X /\ e - 1 \in Nat /\ e - 1 \notin D
  BY <1>1, <1>3, <1>5, <1>6
<1>8. w[e - 1][p] = v[e - 1][p]
  BY <1>7
<1>. QED
  BY <1>6, <1>8

(* A prefix of a prefix, cut where the shorter one has it, is the same. *)
LEMMA CutSame ==
  ASSUME NEW a \in Seq(Receipt), NEW b \in Seq(Receipt), IsPrefixOf(a, b), NEW at \in Nat, at <= Len(a)
  PROVE  ParentPrefix(b, at) = ParentPrefix(a, at)
<1>. DEFINE p == ParentPrefix(a, at)
            q == ParentPrefix(b, at)
<1>1. Len(a) <= Len(b) /\ \A i \in 1..Len(a) : b[i] = a[i]
  BY DEF IsPrefixOf
<1>2. p \in Seq(Receipt) /\ Len(p) = at /\ \A i \in 1..Len(p) : p[i] = a[i]
  <2>1. /\ p \in Seq(Receipt) /\ Len(p) = IF at < Len(a) THEN at ELSE Len(a)
        /\ \A i \in 1..Len(p) : p[i] = a[i]
    BY PrefixFacts
  <2>. HIDE DEF p
  <2>2. at < Len(a) \/ at = Len(a)
    OBVIOUS
  <2>3. Len(p) = at
    BY <2>1, <2>2
  <2>. QED
    BY <2>1, <2>3
<1>3. q \in Seq(Receipt) /\ Len(q) = at /\ \A i \in 1..Len(q) : q[i] = b[i]
  <2>1. /\ q \in Seq(Receipt) /\ Len(q) = IF at < Len(b) THEN at ELSE Len(b)
        /\ \A i \in 1..Len(q) : q[i] = b[i]
    BY PrefixFacts
  <2>. HIDE DEF q
  <2>2. Len(a) \in Nat /\ Len(b) \in Nat
    OBVIOUS
  <2>3. at < Len(b) \/ at = Len(b)
    BY <2>2, <1>1
  <2>4. Len(q) = at
    BY <2>1, <2>3
  <2>. QED
    BY <2>1, <2>4
<1>. HIDE DEF p, q
<1>4. \A i \in 1..at : p[i] = q[i]
  BY <1>1, <1>2, <1>3
<1>5. p = q
  BY <1>2, <1>3, <1>4
<1>. QED
  BY <1>5 DEF p, q

(* When receipts are added behind those of each stream, what is seen only  *)
(* grows, as long as the fork points exist.                                *)
LEMMA ViewGrows ==
  ASSUME NEW v, NEW w, NEW loc, NEW new, NEW br, Wellformed(loc, br), Wellformed(new, br),
         Sees(v, loc, br), Sees(w, new, br), OneOwner(loc), OneOwner(new),
         \A s \in Streams : IsPrefixOf(loc[s], new[s]),
         NEW top \in Nat,
         \A s \in Streams : br[s].parent # None /\ v[top][s].ends
                              => br[s].at <= Len(v[top][br[s].parent].chain),
         NEW d \in Nat, d <= top, NEW s \in Streams, v[d][s].ends
  PROVE  IsPrefixOf(v[d][s].chain, w[d][s].chain)
<1>. DEFINE D == {e \in Nat : e <= top /\ \E t \in Streams :
                     v[e][t].ends /\ ~IsPrefixOf(v[e][t].chain, w[e][t].chain)}
<1>. SUFFICES ASSUME D # {} PROVE FALSE
  OBVIOUS
<1>1. PICK e \in D : \A f \in D : e <= f
  BY Least
<1>2. PICK t \in Streams : v[e][t].ends /\ ~IsPrefixOf(v[e][t].chain, w[e][t].chain)
  BY <1>1
<1>3. e \in Nat /\ e <= top
  BY <1>1
<1>4. br[t].parent # None
  <2>. SUFFICES ASSUME br[t].parent = None PROVE FALSE
    OBVIOUS
  <2>1. v[e][t].chain = loc[t]
    BY <1>3, RootView
  <2>2. w[e][t].chain = new[t]
    BY <1>3, RootView
  <2>. QED
    BY <1>2, <2>1, <2>2
<1>. DEFINE p == br[t].parent
            at == br[t].at
<1>5. /\ e # 0 /\ e - 1 \in Nat /\ p \in Streams /\ v[e - 1][p].ends
      /\ v[e][p].ends /\ v[e][p].chain = v[e - 1][p].chain
      /\ v[e][t].chain = Materialize(t, ParentPrefix(v[e][p].chain, at), loc[t])
  BY <1>2, <1>3, <1>4, ParentSeen
<1>6. e - 1 \notin D /\ e - 1 <= top
  BY <1>1, <1>3, <1>5
<1>7. IsPrefixOf(v[e - 1][p].chain, w[e - 1][p].chain)
  BY <1>5, <1>6
<1>8. w[e][t].ends
  BY <1>2, <1>3, EndsSame
<1>9. /\ w[e][p].chain = w[e - 1][p].chain
      /\ w[e][t].chain = Materialize(t, ParentPrefix(w[e][p].chain, at), new[t])
  BY <1>3, <1>4, <1>8, ParentSeen
<1>10. v[top][t].ends
  BY <1>2, <1>3, Settled
<1>11. v[top][p].chain = v[e][p].chain
  BY <1>3, <1>5, Settled
<1>12. at \in Nat /\ at <= Len(v[e][p].chain)
  BY <1>4, <1>10, <1>11 DEF Wellformed
<1>13. v[e][p].chain \in Seq(Receipt)
  BY <1>3, <1>5, ViewSeq
<1>14. w[e][p].chain \in Seq(Receipt)
  BY <1>3, <1>5, ViewSeq
<1>15. ParentPrefix(w[e][p].chain, at) = ParentPrefix(v[e][p].chain, at)
  <2>1. IsPrefixOf(v[e][p].chain, w[e][p].chain)
    BY <1>5, <1>7, <1>9
  <2>. QED
    BY <2>1, <1>12, <1>13, <1>14, CutSame
<1>16. ~HoldsPrefix(ParentPrefix(v[e][p].chain, at), loc[t])
  BY <1>2, <1>3, <1>4, BranchForeign
<1>17. ~HoldsPrefix(ParentPrefix(w[e][p].chain, at), new[t])
  BY <1>3, <1>4, <1>8, BranchForeign
<1>18. ParentPrefix(v[e][p].chain, at) \in Seq(Receipt)
  BY <1>12, <1>13, PrefixFacts
<1>19. loc[t] \in Seq(Receipt) /\ new[t] \in Seq(Receipt)
  BY DEF Wellformed
<1>20. IsPrefixOf(v[e][t].chain, w[e][t].chain)
  <2>. DEFINE prefix == ParentPrefix(v[e][p].chain, at)
  <2>1. prefix \in Seq(Receipt) /\ ~HoldsPrefix(prefix, loc[t]) /\ ~HoldsPrefix(prefix, new[t])
    BY <1>15, <1>16, <1>17, <1>18
  <2>2. v[e][t].chain = Materialize(t, prefix, loc[t]) /\ w[e][t].chain = Materialize(t, prefix, new[t])
    BY <1>5, <1>9, <1>15
  <2>. HIDE DEF prefix
  <2>3. IsPrefixOf(Materialize(t, prefix, loc[t]), Materialize(t, prefix, new[t]))
    BY <2>1, <1>19, MaterializeGrows
  <2>. QED
    BY <2>2, <2>3
<1>. QED
  BY <1>2, <1>20

-----------------------------------------------------------------------------
(* A parent has a row of its own, or the fork is at work that sees to it.  *)
ParentsKnown ==
  \A s \in Streams : branch[s].parent # None =>
    \/ branch[branch[s].parent].known
    \/ \E a \in Actors : call[a].op \in {"look", "bare"} /\ call[a].stream = branch[s].parent

(* What a fork has checked still holds when its row is saved. *)
CheckHolds ==
  \A a \in Actors : call[a].op = "save" =>
    /\ ~branch[call[a].new].known
    /\ Readable(call[a].stream)
    /\ call[a].at <= Len(Chain(call[a].stream))

ForkInv == BodyInv /\ RowInv /\ ParentsKnown /\ CheckHolds /\ ForkPointExists

-----------------------------------------------------------------------------
(* A chain is a prefix of itself. *)
LEMMA PrefixOfItself ==
  ASSUME NEW chain \in Seq(Receipt)
  PROVE  IsPrefixOf(chain, chain)
BY DEF IsPrefixOf

(* A step that changes neither receipts nor rows changes no view. *)
LEMMA IdleView ==
  ASSUME UNCHANGED <<local, branch>>, Typed, NEW s \in Streams
  PROVE  View'[Depth][s] = View[Depth][s]
<1>1. Sees(View', local, branch)
  BY ViewNext
<1>2. \A t \in Streams : branch[t].parent = None \/ branch[t].parent \in Streams
  BY DEF Typed, Wellformed
<1>. QED
  BY <1>1, <1>2, ViewNow, SameView, DepthNat

(* An append adds a receipt behind those of its stream. *)
LEMMA StoreView ==
  ASSUME BodyInv, BodyInv', ForkPointExists, NEW a \in Actors, StoreReceipt(a), NEW s \in Streams
  PROVE  /\ Readable(s) => Readable(s)' /\ IsPrefixOf(Chain(s), Chain(s)')
         /\ Readable(s)' => Readable(s)
<1>1. /\ call[a].stream \in Streams /\ Stored(a) \in Receipt /\ branch' = branch
      /\ local' = [local EXCEPT ![call[a].stream] = Append(local[call[a].stream], Stored(a))]
  BY StoreFacts DEF BodyInv
<1>2. Wellformed(local, branch) /\ Wellformed(local', branch)
  BY <1>1 DEF BodyInv, Typed
<1>3. Sees(View', local', branch)
  BY <1>1, ViewNext
<1>4. ASSUME NEW t \in Streams PROVE IsPrefixOf(local[t], local'[t])
  <2>1. local[t] \in Seq(Receipt)
    BY <1>2 DEF Wellformed
  <2>2. CASE t = call[a].stream
    <3>1. local'[t] = Append(local[t], Stored(a))
      BY <1>1, <1>2, <2>2 DEF Wellformed
    <3>. QED
      BY <1>1, <2>1, <3>1 DEF IsPrefixOf
  <2>3. CASE t # call[a].stream
    <3>1. local'[t] = local[t]
      BY <1>1, <1>2, <2>3 DEF Wellformed
    <3>. QED
      BY <2>1, <3>1, PrefixOfItself
  <2>. QED
    BY <2>2, <2>3
<1>5. OneOwner(local) /\ OneOwner(local')
  BY DEF BodyInv
<1>6. ASSUME NEW t \in Streams, branch[t].parent # None, View[Depth][t].ends
      PROVE  branch[t].at <= Len(View[Depth][branch[t].parent].chain)
  BY <1>6 DEF ForkPointExists, Readable, Chain
<1>7. ASSUME View[Depth][s].ends PROVE View'[Depth][s].ends
  BY <1>2, <1>3, <1>7, ViewNow, EndsSame, DepthNat
<1>8. ASSUME View'[Depth][s].ends PROVE View[Depth][s].ends
  BY <1>2, <1>3, <1>8, ViewNow, EndsSame, DepthNat
<1>9. ASSUME View[Depth][s].ends PROVE IsPrefixOf(View[Depth][s].chain, View'[Depth][s].chain)
  <2>. DEFINE v == View
              w == View'
              top == Depth
  <2>1. Sees(v, local, branch) /\ Sees(w, local', branch) /\ top \in Nat /\ top <= top /\ v[top][s].ends
    BY <1>3, <1>9, ViewNow, DepthNat
  <2>2. \A t \in Streams : branch[t].parent # None /\ v[top][t].ends
           => branch[t].at <= Len(v[top][branch[t].parent].chain)
    BY <1>6
  <2>. HIDE DEF v, w, top
  <2>3. IsPrefixOf(v[top][s].chain, w[top][s].chain)
    BY <1>2, <1>4, <1>5, <2>1, <2>2, ViewGrows
  <2>. QED
    BY <2>3 DEF v, w, top
<1>. QED
  BY <1>7, <1>8, <1>9 DEF Readable, Chain, Depth

(* Nobody forks while another fork saves its row. *)
LEMMA SavesAlone ==
  ASSUME OneForker, Typed, NEW a \in Actors, NEW b \in Actors,
         Forking(call[a]), Forking(call[b])
  PROVE  a = b
BY DEF OneForker, Typed, CallsFit

(* A fork changes the view of the new branch alone: nobody has it as a     *)
(* parent yet.                                                             *)
LEMMA SaveView ==
  ASSUME OneForker, ForkInv, NEW a \in Actors, SaveBranch(a), NEW s \in Streams, s # call[a].new
  PROVE  View'[Depth][s] = View[Depth][s]
<1>. DEFINE new == call[a].new
            X == Streams \ {new}
<1>1. call[a].op = "save" /\ new \in Streams /\ local' = local
  BY DEF SaveBranch, ForkInv, BodyInv, Typed, CallsFit
<1>2. ~branch[new].known
  BY <1>1 DEF ForkInv, CheckHolds
<1>3. ASSUME NEW t \in X
      PROVE  /\ branch'[t].parent = branch[t].parent /\ branch'[t].at = branch[t].at
             /\ branch[t].parent = None \/ branch[t].parent \in X
  <2>1. branch[t] \in [known : BOOLEAN, parent : Streams \cup {None}, at : Nat]
    BY DEF ForkInv, BodyInv, Typed, Wellformed
  <2>2. branch'[t] = branch[t]
    BY DEF SaveBranch, ForkInv, BodyInv, Typed, Wellformed
  <2>3. ASSUME branch[t].parent = new PROVE FALSE
    <3>1. PICK b \in Actors : call[b].op \in {"look", "bare"}
      BY <1>1, <1>2, <2>3, BranchAssumption DEF ForkInv, ParentsKnown
    <3>2. a = b
      BY <1>1, <3>1, SavesAlone DEF ForkInv, BodyInv, Forking
    <3>. QED
      BY <1>1, <3>1, <3>2
  <2>. QED
    BY <2>1, <2>2, <2>3
<1>4. Sees(View', local, branch')
  BY <1>1, ViewNext
<1>5. s \in X /\ X \in SUBSET Streams
  OBVIOUS
<1>. HIDE DEF X
<1>. QED
  BY <1>3, <1>4, <1>5, ViewNow, SameView, DepthNat

(* A bare row changes no view: the stream had no row.                      *)
LEMMA BareView ==
  ASSUME RowInv, NEW a \in Actors, SaveParent(a), NEW s \in Streams
  PROVE  View'[Depth][s] = View[Depth][s]
<1>1. call[a].stream \in Streams /\ local' = local
  BY DEF SaveParent, RowInv, Typed, CallsFit
<1>2. branch[call[a].stream] = NoBranch
  BY <1>1 DEF SaveParent, RowInv
<1>3. ASSUME NEW t \in Streams
      PROVE  /\ branch'[t].parent = branch[t].parent /\ branch'[t].at = branch[t].at
             /\ branch[t].parent = None \/ branch[t].parent \in Streams
  <2>1. branch[t] \in [known : BOOLEAN, parent : Streams \cup {None}, at : Nat]
    BY DEF RowInv, Typed, Wellformed
  <2>2. branch'[t] = IF t = call[a].stream THEN [known |-> TRUE, parent |-> None, at |-> 0]
                     ELSE branch[t]
    BY DEF SaveParent, RowInv, Typed, Wellformed
  <2>. QED
    BY <1>2, <2>1, <2>2 DEF NoBranch
<1>4. Sees(View', local, branch')
  BY <1>1, ViewNext
<1>. QED
  BY <1>3, <1>4, ViewNow, SameView, DepthNat DEF RowInv, Typed

(* What can be read after a step. *)
LEMMA ReadableNext ==
  ASSUME NEW s \in Streams, View'[Depth][s] = View[Depth][s]
  PROVE  Readable(s)' = Readable(s) /\ Chain(s)' = Chain(s)
BY DEF Readable, Chain, Depth

(* What a fork c has checked. *)
Checked(c) ==
  /\ ~branch[c.new].known
  /\ View[Depth][c.stream].ends
  /\ c.at <= Len(View[Depth][c.stream].chain)

(* CheckHolds in terms of the view. *)
LEMMA CheckHoldsIs ==
  CheckHolds <=> \A a \in Actors : call[a].op = "save" => Checked(call[a])
BY DEF CheckHolds, Checked, Readable, Chain

(* The same after a step, of the calls there are then. *)
LEMMA CheckHoldsNext ==
  ASSUME \A a \in Actors : \A c : c = call'[a] /\ c.op = "save" => Checked(c)'
  PROVE  CheckHolds'
BY DEF CheckHolds, Checked, Readable, Chain

(* A parent keeps its row, or the fork that sees to it.                    *)
LEMMA ParentsStay ==
  ASSUME ForkInv, branch' = branch,
         \A a \in Actors : call[a].op \in {"look", "bare"} =>
            \/ branch[call[a].stream].known
            \/ call'[a].op \in {"look", "bare"} /\ call'[a].stream = call[a].stream
  PROVE  ParentsKnown'
<1>1. ASSUME NEW s \in Streams, branch[s].parent # None, ~branch[branch[s].parent].known
      PROVE  \E a \in Actors : call'[a].op \in {"look", "bare"} /\ call'[a].stream = branch[s].parent
  BY <1>1 DEF ForkInv, ParentsKnown
<1>. QED
  BY <1>1 DEF ParentsKnown

(* A step that changes neither what is seen nor a row of the table but     *)
(* a bare one, and saves no fork but one that was just checked.            *)
LEMMA IdleForks ==
  ASSUME ForkInv, BodyInv', RowInv', ParentsKnown',
         \A s \in Streams : View'[Depth][s] = View[Depth][s],
         \A s \in Streams : branch'[s].parent = branch[s].parent /\ branch'[s].at = branch[s].at,
         \A a \in Actors : call'[a].op = "save" =>
            /\ call'[a].stream \in Streams
            /\ branch'[call'[a].new].known = branch[call'[a].new].known
            /\ call'[a] = call[a] \/ Checked(call'[a])
  PROVE  ForkInv'
<1>1. \A s \in Streams : View'[Depth][s] = View[Depth][s]
  OBVIOUS
<1>2. ParentsKnown'
  OBVIOUS
<1>3. CheckHolds'
  <2>1. ASSUME NEW a \in Actors, NEW c, c = call'[a], c.op = "save" PROVE Checked(c)'
    <3>1. Checked(c) /\ c.stream \in Streams
      BY <2>1, CheckHoldsIs DEF ForkInv
    <3>2. branch'[c.new].known = branch[c.new].known
      BY <2>1
    <3>3. View'[Depth][c.stream] = View[Depth][c.stream]
      BY <1>1, <3>1
    <3>. QED
      BY <3>1, <3>2, <3>3 DEF Checked, Depth
  <2>. QED
    BY <2>1, CheckHoldsNext
<1>4. ForkPointExists'
  <2>1. ASSUME NEW s \in Streams, branch'[s].parent # None, View'[Depth][s].ends
        PROVE  branch'[s].at <= Len(View'[Depth][branch'[s].parent].chain)
    <3>1. branch[s].parent \in Streams
      BY <2>1 DEF ForkInv, BodyInv, Typed, Wellformed
    <3>2. branch[s].at <= Len(View[Depth][branch[s].parent].chain)
      BY <2>1, <1>1 DEF ForkInv, ForkPointExists, Readable, Chain
    <3>. QED
      BY <3>1, <3>2, <1>1
  <2>. QED
    BY <2>1 DEF ForkPointExists, Readable, Chain, Depth
<1>. QED
  BY <1>2, <1>3, <1>4 DEF ForkInv

-----------------------------------------------------------------------------
(* Order of numbers. *)
LEMMA AtMost ==
  ASSUME NEW x \in Nat, NEW y \in Nat, NEW z \in Nat, x <= y, y <= z
  PROVE  x <= z
OBVIOUS

(* What was checked of a stream survives an append, since chains only      *)
(* grow.                                                                   *)
LEMMA StoreForks ==
  ASSUME ForkInv, BodyInv', RowInv', NEW a \in Actors, StoreReceipt(a)
  PROVE  ForkInv'
<1>1. ASSUME NEW s \in Streams
      PROVE  /\ View[Depth][s].ends =>
                  View'[Depth][s].ends /\ Len(View[Depth][s].chain) <= Len(View'[Depth][s].chain)
             /\ View'[Depth][s].ends => View[Depth][s].ends
  BY StoreView DEF ForkInv, Readable, Chain, Depth, IsPrefixOf
<1>2. /\ branch' = branch
      /\ call' = [call EXCEPT ![a] = [call[a] EXCEPT !.op = "idle", !.result = "ok"]]
  BY StoreFacts DEF ForkInv, BodyInv
<1>3. ParentsKnown'
  BY <1>2, ParentsStay DEF StoreReceipt, ForkInv, BodyInv, Typed
<1>4. \A s \in Streams : Len(View[Depth][s].chain) \in Nat /\ Len(View'[Depth][s].chain) \in Nat
  <2>1. \A s \in Streams : View[Depth][s].chain \in Seq(Receipt)
    BY ViewNow, ViewSeq, DepthNat DEF ForkInv, BodyInv, Typed
  <2>2. \A s \in Streams : View'[Depth][s].chain \in Seq(Receipt)
    BY ViewNext, ViewSeq, DepthNat DEF BodyInv, Typed
  <2>. QED
    BY <2>1, <2>2
<1>5. CheckHolds'
  <2>1. ASSUME NEW b \in Actors, NEW c, c = call'[b], c.op = "save" PROVE Checked(c)'
    <3>1. b # a /\ c = call[b]
      BY <2>1, <1>2 DEF ForkInv, BodyInv, Typed, Calls
    <3>2. Checked(c) /\ c.stream \in Streams /\ c.at \in Nat
      BY <2>1, <3>1, CheckHoldsIs DEF ForkInv, BodyInv, Typed, CallsFit, Calls
    <3>3. /\ View'[Depth][c.stream].ends
          /\ Len(View[Depth][c.stream].chain) <= Len(View'[Depth][c.stream].chain)
      BY <1>1, <3>2 DEF Checked
    <3>4. c.at <= Len(View'[Depth][c.stream].chain)
      <4>1. /\ Len(View[Depth][c.stream].chain) \in Nat
            /\ Len(View'[Depth][c.stream].chain) \in Nat
        BY <3>2, <1>4
      <4>2. c.at <= Len(View[Depth][c.stream].chain)
        BY <3>2 DEF Checked
      <4>. QED
        BY <3>2, <3>3, <4>1, <4>2, AtMost
    <3>. QED
      BY <1>2, <3>2, <3>3, <3>4 DEF Checked, Depth
  <2>. QED
    BY <2>1, CheckHoldsNext
<1>6. ForkPointExists'
  <2>1. ASSUME NEW s \in Streams, branch'[s].parent # None, View'[Depth][s].ends
        PROVE  branch'[s].at <= Len(View'[Depth][branch'[s].parent].chain)
    <3>. DEFINE p == branch[s].parent
    <3>1. p \in Streams /\ branch[s].at \in Nat
      BY <2>1, <1>2 DEF ForkInv, BodyInv, Typed, Wellformed
    <3>2. View[Depth][s].ends
      BY <2>1, <1>1
    <3>3. branch[s].at <= Len(View[Depth][p].chain)
      BY <2>1, <3>2, <1>2 DEF ForkInv, ForkPointExists, Readable, Chain
    <3>4. View[Depth][p].ends
      BY <2>1, <3>2, <1>2, ViewNow, ParentSeen, DepthNat DEF ForkInv, BodyInv, Typed
    <3>5. Len(View[Depth][p].chain) <= Len(View'[Depth][p].chain)
      BY <1>1, <3>1, <3>4
    <3>. QED
      <4>1. /\ Len(View[Depth][p].chain) \in Nat
            /\ Len(View'[Depth][p].chain) \in Nat
        BY <3>1, <1>4
      <4>2. branch[s].at <= Len(View'[Depth][p].chain)
        BY <3>1, <3>3, <3>5, <4>1, AtMost
      <4>. QED
        BY <1>2, <4>2
  <2>. QED
    BY <2>1 DEF ForkPointExists, Readable, Chain, Depth
<1>. QED
  BY <1>3, <1>5, <1>6 DEF ForkInv

(* The row a fork saves names a parent that has the receipts it says.      *)
LEMMA SaveForks ==
  ASSUME OneForker, ForkInv, BodyInv', RowInv', NEW a \in Actors, SaveBranch(a)
  PROVE  ForkInv'
<1>. DEFINE new == call[a].new
            up == call[a].stream
<1>1. /\ call[a].op = "save" /\ new \in Streams /\ up \in Streams /\ new # up /\ a \in Forkers
      /\ call' = [call EXCEPT ![a] = [call[a] EXCEPT !.op = "look"]]
      /\ branch' = [branch EXCEPT ![new] = [known |-> TRUE, parent |-> up, at |-> call[a].at]]
  BY DEF SaveBranch, ForkInv, BodyInv, Typed, CallsFit, Forking
<1>2. \A s \in Streams : s # new => View'[Depth][s] = View[Depth][s]
  BY SaveView
<1>3. Checked(call[a])
  BY <1>1, CheckHoldsIs DEF ForkInv
<1>4. ASSUME NEW s \in Streams
      PROVE  /\ s = new => branch'[s].known /\ branch'[s].parent = up /\ branch'[s].at = call[a].at
             /\ s # new => branch'[s] = branch[s]
  BY <1>1 DEF ForkInv, BodyInv, Typed, Wellformed
<1>8. \A b \in Actors : Forking(call[b]) => b = a
  BY <1>1, SavesAlone DEF ForkInv, BodyInv, Forking
<1>9. \A s \in Streams : branch[s].parent # None => branch[branch[s].parent].known
  BY <1>1, <1>8 DEF ForkInv, ParentsKnown, Forking
<1>10. \A s \in Streams : branch[s].parent # new
  BY <1>1, <1>3, <1>9, BranchAssumption DEF Checked
<1>11. call'[a].op = "look" /\ call'[a].stream = up
  BY <1>1 DEF ForkInv, BodyInv, Typed, Calls
<1>5. ParentsKnown'
  <2>1. ASSUME NEW s \in Streams, branch'[s].parent # None
        PROVE  \/ branch'[branch'[s].parent].known
               \/ call'[a].op \in {"look", "bare"} /\ call'[a].stream = branch'[s].parent
    <3>1. CASE s = new
      BY <1>4, <1>11, <3>1
    <3>2. CASE s # new
      <4>1. branch[s].parent # None /\ branch[s].parent \in Streams /\ branch[s].parent # new
        BY <1>4, <1>10, <2>1, <3>2 DEF ForkInv, BodyInv, Typed, Wellformed
      <4>2. branch'[branch[s].parent] = branch[branch[s].parent]
        BY <1>4, <4>1
      <4>. QED
        BY <1>4, <1>9, <3>2, <4>1, <4>2
    <3>. QED
      BY <3>1, <3>2
  <2>. QED
    BY <2>1 DEF ParentsKnown
<1>6. CheckHolds'
  <2>1. ASSUME NEW b \in Actors, NEW c, c = call'[b], c.op = "save" PROVE FALSE
    <3>1. b # a /\ c = call[b]
      BY <2>1, <1>1, <1>11 DEF ForkInv, BodyInv, Typed
    <3>. QED
      BY <1>8, <2>1, <3>1 DEF Forking
  <2>. QED
    BY <2>1, CheckHoldsNext
<1>7. ForkPointExists'
  <2>1. ASSUME NEW s \in Streams, branch'[s].parent # None, View'[Depth][s].ends
        PROVE  branch'[s].at <= Len(View'[Depth][branch'[s].parent].chain)
    <3>1. CASE s = new
      BY <1>1, <1>2, <1>3, <1>4, <3>1 DEF Checked
    <3>2. CASE s # new
      <4>1. branch[s].parent # None /\ branch[s].parent \in Streams /\ branch[s].parent # new
        BY <1>4, <1>10, <2>1, <3>2 DEF ForkInv, BodyInv, Typed, Wellformed
      <4>2. View[Depth][s].ends
        BY <2>1, <3>2, <1>2
      <4>3. branch[s].at <= Len(View[Depth][branch[s].parent].chain)
        BY <4>1, <4>2 DEF ForkInv, ForkPointExists, Readable, Chain
      <4>. QED
        BY <1>2, <1>4, <3>2, <4>1, <4>3
    <3>. QED
      BY <3>1, <3>2
  <2>. QED
    BY <2>1 DEF ForkPointExists, Readable, Chain, Depth
<1>. QED
  BY <1>5, <1>6, <1>7 DEF ForkInv

(* A bare row makes no branch, and no other fork is at work.               *)
LEMMA BareForks ==
  ASSUME OneForker, ForkInv, BodyInv', RowInv', NEW a \in Actors, SaveParent(a)
  PROVE  ForkInv'
<1>. DEFINE up == call[a].stream
<1>1. /\ call[a].op = "bare" /\ up \in Streams
      /\ call' = [call EXCEPT ![a] = [call[a] EXCEPT !.op = "idle", !.result = "ok"]]
      /\ branch' = [branch EXCEPT ![up] = [known |-> TRUE, parent |-> None, at |-> 0]]
  BY DEF SaveParent, ForkInv, BodyInv, Typed, CallsFit
<1>2. branch[up] = NoBranch
  BY <1>1 DEF ForkInv, RowInv
<1>3. ASSUME NEW s \in Streams
      PROVE  /\ branch'[s].parent = branch[s].parent /\ branch'[s].at = branch[s].at
             /\ s = up => branch'[s].known
             /\ s # up => branch'[s] = branch[s]
  BY <1>1, <1>2 DEF ForkInv, BodyInv, Typed, Wellformed, NoBranch
<1>4. \A b \in Actors : Forking(call[b]) => b = a
  BY <1>1, SavesAlone DEF ForkInv, BodyInv, Forking
<1>5. ASSUME NEW b \in Actors PROVE call'[b].op # "save"
  <2>1. CASE b = a
    BY <1>1, <2>1 DEF ForkInv, BodyInv, Typed, Calls
  <2>2. CASE b # a
    BY <1>1, <1>4, <2>2 DEF ForkInv, BodyInv, Typed, Forking
  <2>. QED
    BY <2>1, <2>2
<1>6. ParentsKnown'
  <2>1. ASSUME NEW s \in Streams, branch'[s].parent # None
        PROVE  branch'[branch'[s].parent].known
    <3>1. branch[s].parent \in Streams /\ branch[s].parent # None /\ branch'[s].parent = branch[s].parent
      BY <1>3, <2>1 DEF ForkInv, BodyInv, Typed, Wellformed
    <3>2. branch[branch[s].parent].known \/ branch[s].parent = up
      BY <1>4, <3>1 DEF ForkInv, ParentsKnown, Forking
    <3>. QED
      BY <1>3, <3>1, <3>2
  <2>. QED
    BY <2>1 DEF ParentsKnown
<1>7. \A s \in Streams : View'[Depth][s] = View[Depth][s]
  BY BareView DEF ForkInv
<1>. QED
  BY <1>3, <1>5, <1>6, <1>7, IdleForks

(* ForkInv is inductive. *)
LEMMA ForkNext ==
  ASSUME OneForker, ForkInv, [Next]_vars
  PROVE  ForkInv'
<1>1. BodyInv' /\ RowInv'
  BY BodyNext, RowNext DEF ForkInv
<1>0. /\ call \in [Actors -> Calls]
      /\ \A b \in Actors : Forking(call[b]) => call[b].stream \in Streams
  BY DEF ForkInv, BodyInv, Typed, CallsFit, Forking
(* A step of a, at work on nothing that ParentsKnown needs, that leaves    *)
(* receipts and rows alone.                                                *)
<1>2. ASSUME UNCHANGED <<local, branch>>, NEW a \in Actors, NEW c, call' = [call EXCEPT ![a] = c],
             \/ call[a].op \notin {"look", "bare"}
             \/ branch[call[a].stream].known
             \/ c.op \in {"look", "bare"} /\ c.stream = call[a].stream,
             c.op = "save" => c.stream \in Streams /\ Checked(c)
      PROVE  ForkInv'
  <2>1. ParentsKnown'
    BY <1>0, <1>2, ParentsStay
  <2>2. \A s \in Streams : View'[Depth][s] = View[Depth][s]
    BY <1>2, IdleView DEF ForkInv, BodyInv
  <2>3. ASSUME NEW b \in Actors, call'[b].op = "save"
        PROVE  call'[b].stream \in Streams /\ (call'[b] = call[b] \/ Checked(call'[b]))
    <3>1. CASE b = a
      <4>1. call'[b] = c
        BY <1>0, <1>2, <3>1
      <4>. QED
        BY <1>2, <2>3, <4>1
    <3>2. CASE b # a
      BY <1>0, <1>2, <2>3, <3>2 DEF Forking
    <3>. QED
      BY <3>1, <3>2
  <2>. QED
    BY <1>1, <1>2, <2>1, <2>2, <2>3, IdleForks
<1>3. CASE UNCHANGED vars
  <2>1. ParentsKnown'
    BY <1>3, ParentsStay DEF vars
  <2>2. \A s \in Streams : View'[Depth][s] = View[Depth][s]
    BY <1>3, IdleView DEF vars, ForkInv, BodyInv
  <2>. QED
    BY <1>0, <1>1, <1>3, <2>1, <2>2, IdleForks DEF vars, Forking
<1>4. ASSUME NEW a \in Actors, NEW s \in Streams, LoadForExecute(a, s) PROVE ForkInv'
  <2>. DEFINE c == [Idle EXCEPT !.op = "append", !.stream = s,
                     !.prev = HeadHash(Chain(s)), !.localPrev = HeadHash(local[s])]
  <2>1. call' = [call EXCEPT ![a] = c] /\ UNCHANGED <<local, branch>> /\ call[a].op = "idle"
    BY <1>4 DEF LoadForExecute
  <2>2. c.op # "save"
    BY DEF Idle
  <2>. HIDE DEF c
  <2>. QED
    BY <1>2, <2>1, <2>2
<1>5. ASSUME NEW a \in Actors, StoreReceipt(a) PROVE ForkInv'
  BY <1>1, <1>5, StoreForks
<1>6. ASSUME NEW a \in Actors, AppendConflict(a) PROVE ForkInv'
  <2>. DEFINE c == [call[a] EXCEPT !.op = "idle", !.result = "conflict"]
  <2>1. call' = [call EXCEPT ![a] = c] /\ UNCHANGED <<local, branch>> /\ call[a].op = "append"
    BY <1>6 DEF AppendConflict
  <2>2. c.op # "save"
    BY <1>0 DEF Calls
  <2>. HIDE DEF c
  <2>. QED
    BY <1>2, <2>1, <2>2
<1>7. ASSUME NEW a \in Actors, SaveBranch(a) PROVE ForkInv'
  BY <1>1, <1>7, SaveForks
<1>8. ASSUME NEW a \in Actors, LookForParent(a) PROVE ForkInv'
  <2>. DEFINE c == IF branch[call[a].stream].known
                   THEN [call[a] EXCEPT !.op = "idle", !.result = "ok"]
                   ELSE [call[a] EXCEPT !.op = "bare"]
  <2>1. call' = [call EXCEPT ![a] = c] /\ UNCHANGED <<local, branch>> /\ call[a].op = "look"
    BY <1>8 DEF LookForParent
  <2>2. c.op # "save" /\ (branch[call[a].stream].known \/ (c.op = "bare" /\ c.stream = call[a].stream))
    BY <1>0 DEF Calls
  <2>. HIDE DEF c
  <2>. QED
    BY <1>2, <2>1, <2>2
<1>9. ASSUME NEW a \in Actors, SaveParent(a) PROVE ForkInv'
  BY <1>1, <1>9, BareForks
<1>10. ASSUME NEW a \in Actors, NEW s \in Streams, NEW new \in Streams, NEW at \in 0..MaxAppends,
             CheckFork(a, s, at, new)
      PROVE  ForkInv'
  <2>. DEFINE c == IF MayFork(s, at, new)
                   THEN [Idle EXCEPT !.op = "save", !.stream = s, !.new = new, !.at = at]
                   ELSE [Idle EXCEPT !.result = "refused"]
  <2>1. /\ call' = [call EXCEPT ![a] = c] /\ UNCHANGED <<local, branch>>
        /\ Readable(s) /\ call[a].op = "idle"
    BY <1>10 DEF CheckFork
  <2>2. ASSUME c.op = "save" PROVE c.stream \in Streams /\ Checked(c)
    <3>1. MayFork(s, at, new) /\ c.stream = s /\ c.new = new /\ c.at = at
      BY <2>2 DEF Idle
    <3>. HIDE DEF c
    <3>. QED
      BY <2>1, <3>1 DEF MayFork, Checked, Readable, Chain
  <2>. HIDE DEF c
  <2>. QED
    BY <1>2, <2>1, <2>2
<1>. QED
  BY <1>3, <1>4, <1>5, <1>6, <1>7, <1>8, <1>9, <1>10 DEF Next

(* With one forker ForkInv is an invariant. *)
THEOREM ForkInvariance == ASSUME OneForker PROVE Spec => []ForkInv
<1>1. Init => ForkInv
  <2>. SUFFICES ASSUME Init PROVE ForkInv
    OBVIOUS
  <2>1. BodyInv
    BY TypedInit DEF Init, BodyInv, Numbered, OneOwner, ForksBounded, NoBranch, Idle
  <2>3. RowInv
    BY RowInit
  <2>2. ParentsKnown /\ CheckHolds /\ ForkPointExists
    BY DEF Init, ParentsKnown, CheckHolds, ForkPointExists, NoBranch, Idle
  <2>. QED
    BY <2>1, <2>2, <2>3 DEF ForkInv
<1>2. ForkInv /\ [Next]_vars => ForkInv'
  BY ForkNext
<1>. QED
  BY <1>1, <1>2, PTL DEF Spec

(* With one forker, no branch ever shows less of its parent than its fork  *)
(* point says, whatever is appended between its checks, its row and later. *)
THEOREM ForkPointsExist == ASSUME OneForker PROVE Spec => []ForkPointExists
<1>1. ForkInv => ForkPointExists
  BY DEF ForkInv
<1>. QED
  BY <1>1, ForkInvariance, PTL

(* With one forker, what was once read from a stream or branch is never    *)
(* rewritten: appends to it, its ancestors and its siblings only add       *)
(* behind, and only the fork that makes a stream a branch may change it.   *)
THEOREM HistoryIsKept == ASSUME OneForker PROVE Spec => HistoryIsAppendOnly
<1>. DEFINE A == \A s \in Streams : branch[s] = branch'[s] /\ Readable(s)' => IsPrefixOf(Chain(s), Chain(s)')
<1>1. ForkInv /\ [Next]_vars => [A]_<<local, branch>>
  <2>. SUFFICES ASSUME ForkInv, [Next]_vars, ~UNCHANGED <<local, branch>>,
                       NEW s \in Streams, branch[s] = branch'[s], Readable(s)'
                PROVE  IsPrefixOf(Chain(s), Chain(s)')
    OBVIOUS
  <2>1. BodyInv'
    BY BodyNext DEF ForkInv
  <2>2. PICK a \in Actors : StoreReceipt(a) \/ SaveBranch(a) \/ SaveParent(a)
    BY DEF Next, LoadForExecute, AppendConflict, LookForParent, CheckFork, vars
  <2>3. CASE StoreReceipt(a)
    BY <2>1, <2>3, StoreView DEF ForkInv
  <2>4. CASE SaveBranch(a)
    <3>1. s # call[a].new
      <4>. SUFFICES ASSUME s = call[a].new PROVE FALSE
        OBVIOUS
      <4>1. branch'[s].known
        BY <2>4 DEF SaveBranch, ForkInv, BodyInv, Typed, Wellformed
      <4>2. ~branch[s].known
        BY <2>4 DEF SaveBranch, ForkInv, CheckHolds
      <4>. QED
        BY <4>1, <4>2
    <3>2. Chain(s)' = Chain(s)
      BY <2>4, <3>1, SaveView, ReadableNext
    <3>. QED
      BY <3>2, ChainSeq, PrefixOfItself DEF ForkInv, BodyInv
  <2>5. CASE SaveParent(a)
    <3>1. Chain(s)' = Chain(s)
      BY <2>5, BareView, ReadableNext DEF ForkInv
    <3>. QED
      BY <3>1, ChainSeq, PrefixOfItself DEF ForkInv, BodyInv
  <2>. QED
    BY <2>2, <2>3, <2>4, <2>5
<1>. QED
  BY <1>1, ForkInvariance, PTL DEF Spec, HistoryIsAppendOnly
=============================================================================
