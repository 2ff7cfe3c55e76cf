-------------------------- MODULE HashIndexSteps ---------------------------
(***************************************************************************)
(* What the proofs about HashIndex stand on: what Chain computes, the      *)
(* inductive invariant, and its steps in flat form.  Every step that the   *)
(* invariant allows is one of those (NextMoves).                           *)
(***************************************************************************)
EXTENDS HashIndex, FiniteSetTheorems, SequenceTheorems, WellFoundedInduction, TLAPS

-----------------------------------------------------------------------------
(* Induction over numbers, by way of sets: the initial segments of Nat are *)
(* well-founded.                                                           *)

(* Every set of numbers has a least one.                                   *)
LEMMA LeastNumber ==
  ASSUME NEW T \in SUBSET Nat, T # {}
  PROVE  \E n \in T : \A m \in T : n <= m
<1> DEFINE U == {1 .. n : n \in T}
<1>1. U \subseteq FiniteSubsetsOf(Nat) /\ U # {}
  <2>1. \A n \in Nat : 1 .. n \in SUBSET Nat
    OBVIOUS
  <2>2. \A n \in Nat : IsFiniteSet(1 .. n)
    BY FS_Interval
  <2>3. \A n \in Nat : 1 .. n \in FiniteSubsetsOf(Nat)
    BY <2>1, <2>2 DEF FiniteSubsetsOf
  <2>4. QED
    BY <2>3
<1>2. \E x \in U : \A y \in U : <<y, x>> \notin StrictSubsetOrdering(Nat)
  <2> HIDE DEF U
  <2>1. QED
    BY <1>1, FS_StrictSubsetOrderingWellFounded, WFMin
<1>3. PICK n \in T : \A m \in T : ~(1 .. m \subseteq 1 .. n /\ 1 .. m # 1 .. n)
  <2>1. \A x, y \in SUBSET Nat : x \subseteq y /\ x # y
                                  => <<x, y>> \in StrictSubsetOrdering(Nat)
    BY DEF StrictSubsetOrdering
  <2>2. PICK n \in T : \A y \in U : <<y, 1 .. n>> \notin StrictSubsetOrdering(Nat)
    BY <1>2
  <2>3. ASSUME NEW m \in T PROVE ~(1 .. m \subseteq 1 .. n /\ 1 .. m # 1 .. n)
    <3>1. 1 .. m \in U /\ 1 .. m \in SUBSET Nat /\ 1 .. n \in SUBSET Nat
      OBVIOUS
    <3>2. QED
      <4> HIDE DEF U
      <4>1. QED
        BY <2>1, <2>2, <3>1
  <2>4. QED
    BY <2>3
<1>4. ASSUME NEW m \in T, ~(n <= m) PROVE FALSE
  <2>1. m \in Nat /\ n \in Nat /\ m < n
    BY <1>4
  <2>2. 1 .. m \subseteq 1 .. n /\ n \in 1 .. n /\ n \notin 1 .. m
    BY <2>1
  <2>3. QED
    BY <1>3, <2>2
<1>5. QED
  BY <1>4

(* A set of numbers up to n that contains 0 and with each the next one     *)
(* contains them all.                                                      *)
LEMMA Counting ==
  ASSUME NEW n \in Nat, NEW S, 0 \in S, \A m \in 0 .. n - 1 : m \in S => m + 1 \in S
  PROVE  0 .. n \subseteq S
<1> DEFINE T == (0 .. n) \ S
<1>1. SUFFICES ASSUME T # {} PROVE FALSE
  OBVIOUS
<1>2. T \in SUBSET Nat
  OBVIOUS
<1>3. PICK m \in T : \A k \in T : m <= k
  <2> HIDE DEF T
  <2>1. QED
    BY <1>1, <1>2, LeastNumber
<1>4. m - 1 \in 0 .. n - 1 /\ m - 1 \in S
  BY <1>3
<1>5. QED
  BY <1>3, <1>4

-----------------------------------------------------------------------------
(* Chains.                                                                 *)

(* Node i is complete, its key hashes to bucket b and its link is o.       *)
Complete(b, i, o) ==
  /\ nodes.slot[i].state = "Occupied"
  /\ nodes.slot[i].data \in Node
  /\ Hash(nodes.slot[i].data.key) = b
  /\ nodes.slot[i].data.next = o

(* The offset that leads to the j-th node of c, or behind the last one.    *)
LinkTo(c, j) == IF j > Len(c) THEN None ELSE Some(c[j])

(* c are the nodes of bucket b in the order of their links.                *)
IsChain(b, c) ==
  /\ c \in Seq(Indices)
  /\ \A j, k \in 1 .. Len(c) : c[j] = c[k] => j = k
  /\ buckets[b] = LinkTo(c, 1)
  /\ \A j \in 1 .. Len(c) : Complete(b, c[j], LinkTo(c, j + 1))

(* What follows from the assumptions on the constants.                     *)
LEMMA Constants ==
  /\ Capacity \in Nat \ {0}
  /\ NoNode \notin Node /\ None = 0
  /\ \A i \in Indices : i \in Nat /\ i < Capacity /\ Some(i) \in Offset /\ Some(i) # None
                        /\ At(Some(i)) = i
  /\ \A o \in Offset : o # None => At(o) \in Indices /\ Some(At(o)) = o
  /\ None \in Offset
  BY HashIndexAssumption, NoNodeAssumption DEF Indices, Some, At, Offset, None

(* A chain is no longer than there are nodes.                              *)
LEMMA ChainLength ==
  ASSUME NEW c \in Seq(Indices), \A j, k \in 1 .. Len(c) : c[j] = c[k] => j = k
  PROVE  Len(c) \in 0 .. Capacity
<1>1. Len(c) \in Nat /\ c \in [1 .. Len(c) -> Indices]
  BY LenProperties
<1>2. c \in Injection(1 .. Len(c), Indices)
  BY <1>1 DEF Injection, IsInjective
<1>3. IsFiniteSet(Indices) /\ Cardinality(Indices) = Capacity
  BY FS_Interval, Constants DEF Indices
<1>4. Cardinality(1 .. Len(c)) = Len(c)
  BY <1>1, FS_Interval
<1>5. QED
  BY <1>1, <1>2, <1>3, <1>4, FS_Injection, Constants

(* The walk of Chain, one step at a time.                                  *)
WalkFrom(w, fuel, o) ==
  IF o = None \/ fuel = 0 THEN <<>>
  ELSE IF ReadNode(At(o)) = NoNode THEN <<At(o)>>
  ELSE <<At(o)>> \o w[fuel - 1][ReadNode(At(o)).next]

(* There is such a walk: the definition in Chain is sound.                 *)
LEMMA WalkExists ==
  \E w : w = [fuel \in 0 .. Capacity + 1 |-> [o \in Offset |-> WalkFrom(w, fuel, o)]]
<1> DEFINE P(n, w) == w = [fuel \in 0 .. n |-> [o \in Offset |-> WalkFrom(w, fuel, o)]]
           S == {n \in Nat : \E w : P(n, w)}
<1>1. 0 \in S
  <2> DEFINE w == [fuel \in 0 .. 0 |-> [o \in Offset |-> <<>>]]
  <2>1. \A fuel \in 0 .. 0, o \in Offset : WalkFrom(w, fuel, o) = <<>>
    BY DEF WalkFrom
  <2>2. P(0, w)
    BY <2>1
  <2>3. QED
    BY <2>2
<1>2. ASSUME NEW n \in Nat, n \in S PROVE n + 1 \in S
  <2>1. PICK v : P(n, v)
    BY <1>2
  <2> DEFINE last == [o \in Offset |-> WalkFrom(v, n + 1, o)]
             w == [fuel \in 0 .. n + 1 |-> IF fuel = n + 1 THEN last ELSE v[fuel]]
  <2>2. \A fuel \in 0 .. n : w[fuel] = v[fuel]
    OBVIOUS
  <2>3. ASSUME NEW fuel \in 0 .. n + 1
        PROVE  w[fuel] = [o \in Offset |-> WalkFrom(w, fuel, o)]
    <3>1. fuel = 0 \/ w[fuel - 1] = v[fuel - 1]
      OBVIOUS
    <3>2. \A o : WalkFrom(w, fuel, o) = WalkFrom(v, fuel, o)
      <4> HIDE DEF w
      <4>1. QED
        BY <3>1 DEF WalkFrom
    <3>3. w[fuel] = [o \in Offset |-> WalkFrom(v, fuel, o)]
      <4>1. CASE fuel = n + 1
        BY <4>1
      <4>2. CASE fuel # n + 1
        <5>1. fuel \in 0 .. n /\ w[fuel] = v[fuel]
          BY <4>2
        <5>2. QED
          BY <2>1, <5>1
      <4>3. QED
        BY <4>1, <4>2
    <3>4. QED
      <4> HIDE DEF w
      <4>1. QED
        BY <3>2, <3>3
  <2>4. P(n + 1, w)
    <3>1. w = [fuel \in 0 .. n + 1 |-> w[fuel]]
      OBVIOUS
    <3>2. QED
      <4> HIDE DEF w
      <4>1. QED
        BY <2>3, <3>1
  <2>5. QED
    <3> HIDE DEF w, P
    <3>1. QED
      BY <2>4
<1>3. 0 .. Capacity + 1 \subseteq S
  <2> HIDE DEF S
  <2>1. QED
    BY <1>1, <1>2, Counting, Constants
<1>4. QED
  BY <1>3, Constants

(* Chain follows the links.                                                *)
LEMMA ChainIsWalk ==
  \E w : /\ \A fuel \in 0 .. Capacity + 1, o \in Offset :
              w[fuel][o] = WalkFrom(w, fuel, o)
         /\ \A b : Chain(b) = w[Capacity + 1][buckets[b]]
<1> DEFINE P(w) == w = [fuel \in 0 .. Capacity + 1 |-> [o \in Offset |->
                         IF o = None \/ fuel = 0 THEN <<>>
                         ELSE IF ReadNode(At(o)) = NoNode THEN <<At(o)>>
                         ELSE <<At(o)>> \o w[fuel - 1][ReadNode(At(o)).next]]]
           v == CHOOSE w : P(w)
<1>1. \E w : P(w)
  BY WalkExists, Zenon DEF WalkFrom
<1>2. P(v)
  <2> HIDE DEF P
  <2>1. QED
    BY <1>1, Zenon
<1>3. \A b : Chain(b) = v[Capacity + 1][buckets[b]]
  BY Zenon DEF Chain
<1>4. \A fuel \in 0 .. Capacity + 1, o \in Offset : v[fuel][o] = WalkFrom(v, fuel, o)
  <2> HIDE DEF v
  <2> SUFFICES ASSUME NEW fuel \in 0 .. Capacity + 1, NEW o \in Offset
               PROVE  v[fuel][o] = WalkFrom(v, fuel, o)
    OBVIOUS
  <2>1. v[fuel] = [x \in Offset |->
                     IF x = None \/ fuel = 0 THEN <<>>
                     ELSE IF ReadNode(At(x)) = NoNode THEN <<At(x)>>
                     ELSE <<At(x)>> \o v[fuel - 1][ReadNode(At(x)).next]]
    BY <1>2
  <2>2. QED
    BY <2>1 DEF WalkFrom
<1>5. QED
  <2> HIDE DEF v
  <2>1. QED
    BY <1>3, <1>4

(* Chain is what the links say.                                            *)
LEMMA ChainIs == \A b : \A c : IsChain(b, c) => Chain(b) = c
<1> SUFFICES ASSUME NEW b, NEW c, IsChain(b, c) PROVE Chain(b) = c
  OBVIOUS
<1> DEFINE n == Len(c)
<1>1. PICK w : /\ \A fuel \in 0 .. Capacity + 1, o \in Offset :
                    w[fuel][o] = WalkFrom(w, fuel, o)
               /\ Chain(b) = w[Capacity + 1][buckets[b]]
  BY ChainIsWalk
<1>2. n \in 0 .. Capacity /\ c \in Seq(Indices) /\ n \in Nat
  BY ChainLength, Constants DEF IsChain
<1>3. \A j \in 1 .. n : c[j] \in Indices
  BY <1>2, LenProperties
<1> DEFINE S == {m \in 0 .. n : \A fuel \in m .. Capacity + 1 :
                   w[fuel][LinkTo(c, n - m + 1)] = SubSeq(c, n - m + 1, n)}
<1>4. 0 \in S
  <2>1. LinkTo(c, n + 1) = None /\ SubSeq(c, n + 1, n) = <<>>
    BY <1>2, SubSeqEmpty DEF LinkTo
  <2>2. \A fuel \in 0 .. Capacity + 1 : w[fuel][None] = <<>>
    BY <1>1, Constants DEF WalkFrom
  <2>3. n - 0 + 1 = n + 1 /\ 0 \in 0 .. n
    BY <1>2
  <2>4. \A fuel \in 0 .. Capacity + 1 :
          w[fuel][LinkTo(c, n - 0 + 1)] = SubSeq(c, n - 0 + 1, n)
    BY <2>1, <2>2, <2>3
  <2>5. QED
    BY <2>3, <2>4
<1>5. ASSUME NEW m \in 0 .. n - 1, m \in S PROVE m + 1 \in S
  <2> DEFINE j == n - m
  <2>1. j \in 1 .. n /\ n - (m + 1) + 1 = j /\ n - m + 1 = j + 1 /\ m + 1 \in 0 .. n
    BY <1>2
  <2>2. LinkTo(c, j) = Some(c[j]) /\ Complete(b, c[j], LinkTo(c, j + 1))
    BY <1>2, <2>1 DEF LinkTo, IsChain
  <2>3. ReadNode(c[j]) # NoNode /\ ReadNode(c[j]).next = LinkTo(c, j + 1)
    BY <2>2, Constants DEF Complete, ReadNode, N!DataAt
  <2>4. ASSUME NEW fuel \in m + 1 .. Capacity + 1
        PROVE  w[fuel][LinkTo(c, j)] = SubSeq(c, j, n)
    <3>1. fuel \in 0 .. Capacity + 1 /\ fuel # 0 /\ fuel - 1 \in m .. Capacity + 1
      BY <1>2, Constants
    <3>2. w[fuel - 1][LinkTo(c, j + 1)] = SubSeq(c, j + 1, n)
      BY <1>5, <2>1, <3>1
    <3>3. w[fuel][Some(c[j])] = <<c[j]>> \o SubSeq(c, j + 1, n)
      <4>1. c[j] \in Indices
        BY <1>3, <2>1
      <4>2. Some(c[j]) \in Offset /\ Some(c[j]) # None /\ At(Some(c[j])) = c[j]
        BY <4>1, Constants
      <4>3. w[fuel][Some(c[j])] = WalkFrom(w, fuel, Some(c[j]))
        BY <1>1, <3>1, <4>2
      <4>4. QED
        BY <2>3, <3>1, <3>2, <4>2, <4>3 DEF WalkFrom
    <3>4. SubSeq(c, j, n) = <<c[j]>> \o SubSeq(c, j + 1, n)
      BY <1>2, <2>1, SubSeqRecursiveFirst
    <3>5. QED
      BY <2>2, <3>3, <3>4
  <2>5. QED
    BY <2>1, <2>4
<1>6. n \in S
  <2> HIDE DEF S
  <2>1. 0 .. n \subseteq S
    BY <1>2, <1>4, <1>5, Counting
  <2>2. n \in 0 .. n
    BY <1>2
  <2>3. QED
    BY <2>1, <2>2
<1>7. w[Capacity + 1][LinkTo(c, 1)] = SubSeq(c, 1, n)
  <2>1. n - n + 1 = 1 /\ Capacity + 1 \in n .. Capacity + 1
    BY <1>2, Constants
  <2>2. QED
    BY <1>6, <2>1
<1>8. SubSeq(c, 1, n) = c
  BY <1>2, SubSeqFull
<1>9. QED
  BY <1>1, <1>7, <1>8 DEF IsChain

-----------------------------------------------------------------------------
(* Who is where.                                                           *)

Inserting == {"full", "take", "count", "wr_state", "wr_node", "link"}
Removing == {"first", "before", "unlink", "rm_state", "rm_link", "rm_first", "uncount"}
Iterating == {"it_test", "it_skip", "it_read"}

(* A node is in hand when it is neither on the free list nor in a chain.   *)
InHand(p) == pc[p] \in {"count", "wr_state", "wr_node", "link",
                        "rm_state", "rm_link", "rm_first"}

Idx(p) == local[p].idx
Slot(i) == nodes.slot[i]
OwnChain(p) == Chain(BucketOf(p))

(* The nodes in the chains.                                                *)
Chained == UNION {InChain(b) : b \in Buckets}

(* What some process that lives is about.                                  *)
AnyUnlinked == \E p \in Proc \ dead : Unlinked(p)
AnyAt(here) == \E p \in Proc \ dead : pc[p] = here
InHands(i) == \E p \in Proc \ dead : InHand(p) /\ Idx(p) = i

(* A node was lost before it was counted, or in any other way.             *)
Uncounted == \E q \in dead : pc[q] = "count"
Scarred == \E q \in dead : Changing(q)

-----------------------------------------------------------------------------
(* The inductive invariant.                                                *)

Locals == [at : Offset, from : Node \cup {NoNode}, idx : Indices, after : Offset,
           tmp : Offset, seen : Seq(Key)]

Typing ==
  /\ scenario \in Scenarios
  /\ buckets \in [Buckets -> Offset]
  /\ nodes \in N!SlotsHeader
  /\ owner \in Proc \cup {NoProc}
  /\ dead \subseteq Proc
  /\ pc \in [Proc -> PCs]
  /\ call = [p \in Proc |-> call[p]]
  /\ local \in [Proc -> Locals]
  /\ out = [p \in Proc |-> out[p]]

(* A process stands where its call may take it.                            *)
Stands(p) ==
  \/ pc[p] = "idle" /\ call[p] = Map!NoCall /\ (p \notin dead => local[p] = NoLocals)
  \/ /\ call[p] \in scenario.calls[p]
     /\ \/ pc[p] \in {"lock", "bucket", "walk"} /\ ~IsOp(p, "keys")
        \/ pc[p] \in {"unlock", "wild"}
        \/ pc[p] \in Inserting /\ IsOp(p, "insert")
        \/ pc[p] \in Removing /\ IsOp(p, "remove")
        \/ pc[p] \in Iterating /\ IsOp(p, "keys")

(* Without signals whoever is past its lock step has the semaphore.        *)
Locks ==
  ~scenario.signals =>
    \A p \in Proc \ dead : pc[p] \notin {"idle", "lock"} /\ ~IsOp(p, "keys") => owner = p

Chains == \A b \in Buckets : IsChain(b, Chain(b))

Ticks(Cond) == IF Cond THEN 1 ELSE 0

(* count is the number of nodes in the chains, but for one on its way      *)
(* there or back and for those the dead had in hand.                       *)
Counted ==
  LET k == Cardinality(Chained) + Ticks(AnyUnlinked) IN
  /\ nodes.count >= k
  /\ Scarred \/ nodes.count = k

(* The n nodes on the free list, in order, and then the end mark.          *)
IsList(n, order) ==
  /\ order \in [1 .. n + 1 -> 0 .. Capacity]
  /\ order[1] = nodes.firstFree
  /\ order[n + 1] = Capacity
  /\ \A j \in 1 .. n : /\ order[j] \in Indices
                       /\ Slot(order[j]).state = "Free"
                       /\ Slot(order[j]).size = order[j + 1]
  /\ \A j, k \in 1 .. n : order[j] = order[k] => j = k

OnList(n, order, i) == \E j \in 1 .. n : order[j] = i

(* Where count says that there is room the list is long enough.            *)
Roomy(n) ==
  Uncounted \/ nodes.count + n + Ticks(AnyAt("count")) >= Capacity + Ticks(AnyAt("uncount"))

(* A node is on the list, in a chain or in somebody's hand, unless a       *)
(* process has died.                                                       *)
Whereabouts(n, order) ==
  /\ \A p \in Proc \ dead : InHand(p) => ~OnList(n, order, Idx(p))
  /\ Scarred \/ \A i \in Indices : OnList(n, order, i) \/ i \in Chained \/ InHands(i)

Listed ==
  \E n \in 0 .. Capacity : \E order \in [1 .. n + 1 -> 0 .. Capacity] :
    IsList(n, order) /\ Roomy(n) /\ Whereabouts(n, order)

(* A walk is at a node of its chain.                                       *)
Seeking(p) ==
  pc[p] = "walk" => \E j \in 1 .. Len(OwnChain(p)) : local[p].at = Some(OwnChain(p)[j])

(* What an insertion knows: the end of its chain, and its new node.        *)
AtEnd(p) ==
  IF OwnChain(p) = <<>> THEN local[p].at = None
  ELSE /\ local[p].at = Some(OwnChain(p)[Len(OwnChain(p))])
       /\ local[p].from = Slot(At(local[p].at)).data

Insertion(p) ==
  /\ pc[p] \in Inserting => AtEnd(p)
  /\ pc[p] = "take" => nodes.count < Capacity
  /\ pc[p] \in {"wr_node", "link"} => Slot(Idx(p)).state = "Occupied"
  /\ pc[p] = "link" => Slot(Idx(p)).data = [key |-> call[p].key,
                                            position |-> call[p].position, next |-> None]

(* What a removal knows: where its node is in the chain and what is behind *)
(* it, the node before, and then the head of the free list.                *)
Removal(p) ==
  /\ pc[p] \in {"first", "before", "unlink"} =>
       \E j \in 1 .. Len(OwnChain(p)) :
         /\ Idx(p) = OwnChain(p)[j] /\ local[p].after = LinkTo(OwnChain(p), j + 1)
         /\ pc[p] = "before" => \E k \in 1 .. j - 1 : local[p].at = Some(OwnChain(p)[k])
         /\ pc[p] = "unlink" => /\ j > 1 /\ local[p].at = Some(OwnChain(p)[j - 1])
                                /\ local[p].from = Slot(OwnChain(p)[j - 1]).data
  /\ pc[p] \in {"rm_link", "rm_first"} => Slot(Idx(p)).state = "Free"
  /\ pc[p] = "rm_link" => local[p].tmp = nodes.firstFree
  /\ pc[p] = "rm_first" => Slot(Idx(p)).size = nodes.firstFree

(* The nodes an iteration at slot i has passed.                            *)
Passed(i) == {j \in Indices : j < i /\ Slot(j).state = "Occupied"}

Iteration(p) ==
  /\ pc[p] \in Iterating => Len(local[p].seen) = Cardinality(Passed(local[p].tmp))
  /\ pc[p] = "it_skip" => Len(local[p].seen) < nodes.count
  /\ pc[p] = "it_read" => local[p].tmp \in Indices /\ Slot(local[p].tmp).state = "Occupied"

Knows(p) ==
  /\ Seeking(p) /\ Insertion(p) /\ Removal(p) /\ Iteration(p)
  /\ InHand(p) => Idx(p) \notin Chained

Knowledge == \A p \in Proc \ dead : Knows(p)

(* An insertion that follows the list past its end was sent there.         *)
Wildness == \A p \in Proc : pc[p] = "wild" => Uncounted

IInv == /\ Typing /\ (\A p \in Proc : Stands(p)) /\ Locks
        /\ Chains /\ Counted /\ Listed /\ Knowledge /\ Wildness

-----------------------------------------------------------------------------
(* What each step does, flat: the values of the process that takes it and  *)
(* of the shared memory afterwards.                                        *)

(* Process p moves, the others stay as they are.                           *)
Own(p) ==
  /\ scenario' = scenario /\ dead' = dead
  /\ pc' = [q \in Proc |-> pc'[q]] /\ call' = [q \in Proc |-> call'[q]]
  /\ local' = [q \in Proc |-> local'[q]] /\ out' = [q \in Proc |-> out'[q]]
  /\ \A q \in Proc \ {p} : /\ pc'[q] = pc[q] /\ call'[q] = call[q]
                           /\ local'[q] = local[q] /\ out'[q] = out[q]

From(p, a, b) == pc[p] = a /\ pc'[p] = b
Same(p) == call'[p] = call[p] /\ local'[p] = local[p] /\ out'[p] = out[p]
Looks(p, l) == call'[p] = call[p] /\ local'[p] = l /\ out'[p] = out[p]

(* Neither bucket nor node changes, nor the semaphore.                     *)
Quiet == buckets' = buckets /\ nodes' = nodes
Keeps(p) == Own(p) /\ Quiet /\ owner' = owner

Began(p) ==
  /\ Keeps(p) /\ pc[p] = "idle"
  /\ \E c \in scenario.calls[p] :
       call'[p] = c /\ pc'[p] = IF c.op = "keys" THEN "it_test" ELSE "lock"
  /\ local'[p] = local[p] /\ out'[p] = Map!Pending

Locked(p) ==
  /\ Own(p) /\ Quiet /\ owner = NoProc /\ owner' = p
  /\ From(p, "lock", "bucket") /\ Same(p)

Interrupted(p) == Keeps(p) /\ scenario.signals /\ From(p, "lock", "bucket") /\ Same(p)

Unlocked(p) ==
  /\ Own(p) /\ Quiet /\ owner' = IF owner = p THEN NoProc ELSE owner
  /\ From(p, "unlock", "idle")
  /\ call'[p] = Map!NoCall /\ local'[p] = NoLocals /\ out'[p] = Map!Ok

(* The call is over but for the lock, and changed nothing.                 *)
Answered(p) ==
  /\ Keeps(p) /\ pc[p] \in {"bucket", "walk", "full", "it_test"} /\ pc'[p] = "unlock"
  /\ call'[p] = call[p] /\ local'[p] \in Locals

Entered(p) ==
  LET o == buckets[BucketOf(p)] IN
  /\ Keeps(p) /\ From(p, "bucket", "walk") /\ o # None
  /\ Looks(p, [local[p] EXCEPT !.at = o])

FoundEmpty(p) ==
  /\ Keeps(p) /\ From(p, "bucket", "full") /\ IsOp(p, "insert")
  /\ buckets[BucketOf(p)] = None
  /\ Looks(p, [local[p] EXCEPT !.at = None])

Visited(p) == Slot(At(local[p].at)).data

Hit(p) ==
  /\ Keeps(p) /\ From(p, "walk", "first") /\ IsOp(p, "remove")
  /\ Visited(p).key = call[p].key
  /\ Looks(p, [local[p] EXCEPT !.idx = At(local[p].at), !.after = Visited(p).next])

WentOn(p) ==
  /\ Keeps(p) /\ From(p, "walk", "walk")
  /\ IsOp(p, "insert") \/ Visited(p).key # call[p].key
  /\ Visited(p).next # None
  /\ Looks(p, [local[p] EXCEPT !.at = Visited(p).next])

FoundEnd(p) ==
  /\ Keeps(p) /\ From(p, "walk", "full") /\ IsOp(p, "insert") /\ Visited(p).next = None
  /\ Looks(p, [local[p] EXCEPT !.from = Visited(p)])

FoundRoom(p) ==
  Keeps(p) /\ From(p, "full", "take") /\ nodes.count < Capacity /\ Same(p)

Strayed(p) ==
  Keeps(p) /\ From(p, "take", "wild") /\ nodes.firstFree \notin Indices /\ Same(p)

NotFirst(p) ==
  LET o == buckets[BucketOf(p)] IN
  /\ Keeps(p) /\ From(p, "first", "before") /\ o # Some(Idx(p)) /\ o # None
  /\ Looks(p, [local[p] EXCEPT !.at = o])

NotBefore(p) ==
  /\ Keeps(p) /\ From(p, "before", "before")
  /\ Visited(p).next # Some(Idx(p)) /\ Visited(p).next # None
  /\ Looks(p, [local[p] EXCEPT !.at = Visited(p).next])

FoundBefore(p) ==
  /\ Keeps(p) /\ From(p, "before", "unlink") /\ Visited(p).next = Some(Idx(p))
  /\ Looks(p, [local[p] EXCEPT !.from = Visited(p)])

Tested(p) ==
  /\ Keeps(p) /\ From(p, "it_test", "it_skip")
  /\ Len(local[p].seen) < nodes.count /\ Same(p)

Skipped(p) ==
  LET i == local[p].tmp IN
  /\ Keeps(p) /\ From(p, "it_skip", "it_skip") /\ i \in Indices /\ Slot(i).state = "Free"
  /\ Looks(p, [local[p] EXCEPT !.tmp = i + 1])

Stopped(p) ==
  /\ Keeps(p) /\ From(p, "it_skip", "it_read") /\ Same(p)
  /\ local[p].tmp \in Indices /\ Slot(local[p].tmp).state = "Occupied"

Yielded(p) ==
  LET i == local[p].tmp IN
  /\ Keeps(p) /\ From(p, "it_read", "it_test") /\ Slot(i).data \in Node
  /\ Looks(p, [local[p] EXCEPT !.tmp = i + 1, !.seen = Append(@, Slot(i).data.key)])

(* The steps that change a word of the header.                             *)
Heads(p, count, first) ==
  /\ Own(p) /\ buckets' = buckets /\ owner' = owner
  /\ nodes' = [nodes EXCEPT !.count = count, !.firstFree = first]

TookHead(p) ==
  LET i == nodes.firstFree IN
  /\ Heads(p, nodes.count, Slot(i).size) /\ i \in Indices /\ From(p, "take", "count")
  /\ Looks(p, [local[p] EXCEPT !.idx = i])

CountedUp(p) ==
  /\ Heads(p, nodes.count + 1, nodes.firstFree)
  /\ From(p, "count", "wr_state") /\ Same(p)

Pushed(p) ==
  /\ Heads(p, nodes.count, Idx(p)) /\ From(p, "rm_first", "uncount") /\ Same(p)

CountedDown(p) ==
  /\ Heads(p, nodes.count - 1, nodes.firstFree)
  /\ From(p, "uncount", "unlock") /\ Same(p)

(* The steps that change a slot, or two words of one.                      *)
Stores(p, i, r) ==
  /\ Own(p) /\ buckets' = buckets /\ owner' = owner
  /\ nodes' = [nodes EXCEPT !.slot[i] = r]

WroteState(p) ==
  /\ Stores(p, Idx(p), [Slot(Idx(p)) EXCEPT !.state = "Occupied"])
  /\ From(p, "wr_state", "wr_node") /\ Same(p)

NewNode(p) == [key |-> call[p].key, position |-> call[p].position, next |-> None]

WroteNode(p) ==
  /\ Stores(p, Idx(p), N!Written(NewNode(p)))
  /\ From(p, "wr_node", "link") /\ Same(p)

LinkedLast(p) ==
  /\ local[p].at # None
  /\ Stores(p, At(local[p].at),
            N!Written([local[p].from EXCEPT !.next = Some(Idx(p))]))
  /\ From(p, "link", "unlock") /\ call'[p] = call[p] /\ local'[p] = local[p]
  /\ out'[p] = Map!Ok

UnlinkedInner(p) ==
  /\ Stores(p, At(local[p].at),
            N!Written([local[p].from EXCEPT !.next = local[p].after]))
  /\ From(p, "unlink", "rm_state") /\ call'[p] = call[p] /\ local'[p] = local[p]
  /\ out'[p] = Map!Ok

WroteFree(p) ==
  /\ Stores(p, Idx(p), [Slot(Idx(p)) EXCEPT !.state = "Free", !.data = NoNode])
  /\ From(p, "rm_state", "rm_link")
  /\ Looks(p, [local[p] EXCEPT !.tmp = nodes.firstFree])

WroteLink(p) ==
  /\ Stores(p, Idx(p), [Slot(Idx(p)) EXCEPT !.size = local[p].tmp])
  /\ From(p, "rm_link", "rm_first") /\ Same(p)

(* The steps that change a bucket.                                         *)
Points(p, o) ==
  /\ Own(p) /\ nodes' = nodes /\ owner' = owner
  /\ buckets' = [buckets EXCEPT ![BucketOf(p)] = o]
  /\ call'[p] = call[p] /\ local'[p] = local[p] /\ out'[p] = Map!Ok

LinkedFirst(p) ==
  local[p].at = None /\ Points(p, Some(Idx(p))) /\ From(p, "link", "unlock")

UnlinkedFirst(p) ==
  /\ buckets[BucketOf(p)] = Some(Idx(p))
  /\ Points(p, local[p].after) /\ From(p, "first", "rm_state")

(* The death of a process.                                                 *)
Crashed(p) ==
  /\ Quiet /\ scenario' = scenario /\ dead' = dead \cup {p} /\ pc' = pc /\ call' = call
  /\ owner' = (IF owner = p THEN NoProc ELSE owner)
  /\ local' = [local EXCEPT ![p] = NoLocals] /\ out' = out
  /\ pc[p] \notin {"idle", "wild"}

(* The steps by what they change.                                          *)
Calling(p) == Began(p) \/ Locked(p) \/ Interrupted(p) \/ Unlocked(p) \/ Answered(p)
Walking(p) == Entered(p) \/ FoundEmpty(p) \/ Hit(p) \/ WentOn(p) \/ FoundEnd(p)
              \/ FoundRoom(p) \/ Strayed(p) \/ NotFirst(p) \/ NotBefore(p) \/ FoundBefore(p)
Iterates(p) == Tested(p) \/ Skipped(p) \/ Stopped(p) \/ Yielded(p)
Heading(p) == TookHead(p) \/ CountedUp(p) \/ Pushed(p) \/ CountedDown(p)
Storing(p) == WroteState(p) \/ WroteNode(p) \/ WroteFree(p) \/ WroteLink(p)
Linking(p) == LinkedFirst(p) \/ LinkedLast(p)
UnlinkingStep(p) == UnlinkedFirst(p) \/ UnlinkedInner(p)

Moves(p) == Calling(p) \/ Walking(p) \/ Iterates(p) \/ Heading(p) \/ Storing(p)
            \/ Linking(p) \/ UnlinkingStep(p) \/ Crashed(p)

-----------------------------------------------------------------------------
(* Types of what steps read.                                               *)

(* The words of the slot array.                                            *)
LEMMA SlotTypes ==
  ASSUME Typing
  PROVE  /\ nodes.count \in Nat /\ nodes.firstFree \in Nat
         /\ nodes = [count |-> nodes.count, firstFree |-> nodes.firstFree,
                     slot |-> nodes.slot]
         /\ nodes.slot \in [Indices -> N!SlotMetadata]
         /\ \A i \in Indices : /\ Slot(i) \in N!SlotMetadata
                               /\ Slot(i).state \in {"Free", "Occupied"}
                               /\ Slot(i).size \in Nat
                               /\ Slot(i).data \in Node \cup {NoNode}
                               /\ Slot(i) = [state |-> Slot(i).state, size |-> Slot(i).size,
                                             data |-> Slot(i).data]
<1>1. nodes \in [count : Nat, firstFree : Nat, slot : [Indices -> N!SlotMetadata]]
  BY DEF Typing, N!SlotsHeader, N!Indices, Indices
<1>2. \A i \in Indices : Slot(i) \in N!SlotMetadata
  BY <1>1 DEF Slot
<1>3. QED
  BY <1>1, <1>2 DEF N!SlotMetadata

(* The local variables of a process.                                       *)
LEMMA LocalTypes ==
  ASSUME Typing, NEW p \in Proc
  PROVE  /\ pc[p] \in PCs /\ local[p] \in Locals
         /\ local[p].at \in Offset /\ local[p].from \in Node \cup {NoNode}
         /\ local[p].idx \in Indices /\ local[p].after \in Offset
         /\ local[p].tmp \in Offset /\ local[p].seen \in Seq(Key)
         /\ Idx(p) = local[p].idx /\ Idx(p) \in Indices
<1>1. pc[p] \in PCs /\ local[p] \in Locals
  BY DEF Typing
<1>2. QED
  BY <1>1 DEF Locals, Idx

(* Every key hashes to a bucket.                                           *)
LEMMA HashInBuckets == \A k \in Key : Hash(k) \in Buckets
<1> SUFFICES ASSUME NEW k \in Key PROVE Hash(k) \in Buckets
  OBVIOUS
<1>1. HashOf[k] \in Nat
  BY HashIndexAssumption
<1>2. TotalBuckets \in Nat \ {0}
  BY Constants DEF TotalBuckets
<1>3. QED
  <2> HIDE DEF TotalBuckets
  <2>1. QED
    BY <1>1, <1>2 DEF Hash, Buckets

(* The call of a process that is in one.                                   *)
LEMMA CallTypes ==
  ASSUME IInv, NEW p \in Proc, pc[p] # "idle"
  PROVE  /\ call[p] \in scenario.calls[p] /\ IsRequest(call[p])
         /\ call[p].key \in Key /\ call[p].position \in Position
         /\ call[p].op \in {"insert", "get", "remove", "keys"}
         /\ BucketOf(p) \in Buckets
<1>1. call[p] \in scenario.calls[p]
  BY DEF IInv, Stands
<1>2. scenario \in Scenarios
  BY DEF IInv, Typing
<1>3. IsRequest(call[p])
  BY <1>1, <1>2, HashIndexAssumption
<1>4. call[p].key \in Key /\ call[p].position \in Position
      /\ call[p].op \in {"insert", "get", "remove", "keys"}
  BY <1>3 DEF IsRequest
<1>5. QED
  BY <1>1, <1>3, <1>4, HashInBuckets DEF BucketOf

(* The nodes of a chain.                                                   *)
LEMMA ChainFacts ==
  ASSUME IInv, NEW b \in Buckets
  PROVE  /\ Chain(b) \in Seq(Indices) /\ Len(Chain(b)) \in 0 .. Capacity
         /\ Chain(b) \in [1 .. Len(Chain(b)) -> Indices]
         /\ buckets[b] = LinkTo(Chain(b), 1)
         /\ \A j \in 1 .. Len(Chain(b)) :
              /\ Chain(b)[j] \in Indices
              /\ Complete(b, Chain(b)[j], LinkTo(Chain(b), j + 1))
              /\ Slot(Chain(b)[j]).data.key \in Key
              /\ ReadNode(Chain(b)[j]) = Slot(Chain(b)[j]).data
              /\ Chain(b)[j] \in InChain(b) /\ Chain(b)[j] \in Chained
         /\ \A j, k \in 1 .. Len(Chain(b)) : Chain(b)[j] = Chain(b)[k] => j = k
         /\ InChain(b) = {Chain(b)[j] : j \in 1 .. Len(Chain(b))}
<1>1. IsChain(b, Chain(b))
  BY DEF IInv, Chains
<1> DEFINE c == Chain(b)
<1> HIDE DEF c
<1>2. c \in Seq(Indices) /\ \A j, k \in 1 .. Len(c) : c[j] = c[k] => j = k
  BY <1>1 DEF IsChain, c
<1>3. Len(c) \in 0 .. Capacity
  BY <1>2, ChainLength
<1>4. c \in [1 .. Len(c) -> Indices]
  BY <1>2, LenProperties
<1>5. InChain(b) = {c[j] : j \in 1 .. Len(c)}
  BY <1>4 DEF InChain, Seqs!ToSet, c
<1>6. \A j \in 1 .. Len(c) : Complete(b, c[j], LinkTo(c, j + 1))
  BY <1>1 DEF IsChain, c
<1>7. \A j \in 1 .. Len(c) : /\ Slot(c[j]).data.key \in Key
                             /\ ReadNode(c[j]) = Slot(c[j]).data
  BY <1>6 DEF Complete, Slot, Node, ReadNode, N!DataAt
<1>8. \A j \in 1 .. Len(c) : c[j] \in InChain(b)
  BY <1>5
<1>9. \A i \in InChain(b) : i \in Chained
  BY DEF Chained
<1>10. buckets[b] = LinkTo(c, 1)
  BY <1>1 DEF IsChain, c
<1>11. QED
  BY <1>2, <1>3, <1>4, <1>5, <1>6, <1>7, <1>8, <1>9, <1>10 DEF c

(* A link is none only behind the last node.                               *)
LEMMA LinkFacts ==
  ASSUME IInv, NEW b \in Buckets, NEW j \in 1 .. Len(Chain(b)) + 1
  PROVE  /\ LinkTo(Chain(b), j) \in Offset
         /\ LinkTo(Chain(b), j) = None <=> j = Len(Chain(b)) + 1
         /\ j # Len(Chain(b)) + 1 => /\ j \in 1 .. Len(Chain(b))
                                     /\ LinkTo(Chain(b), j) = Some(Chain(b)[j])
<1>1. Len(Chain(b)) \in Nat
  BY ChainFacts
<1>2. CASE j = Len(Chain(b)) + 1
  BY <1>1, <1>2, Constants DEF LinkTo
<1>3. CASE j # Len(Chain(b)) + 1
  <2>1. j \in 1 .. Len(Chain(b))
    BY <1>1, <1>3
  <2>2. Chain(b)[j] \in Indices
    BY <2>1, ChainFacts
  <2>3. LinkTo(Chain(b), j) = Some(Chain(b)[j])
    BY <1>1, <2>1 DEF LinkTo
  <2>4. QED
    BY <1>3, <2>1, <2>2, <2>3, Constants
<1>4. QED
  BY <1>2, <1>3

(* A node is in the chain of its key.                                      *)
LEMMA ChainedFacts ==
  ASSUME IInv
  PROVE  /\ Chained \subseteq Indices /\ IsFiniteSet(Chained)
         /\ Cardinality(Chained) \in 0 .. Capacity
         /\ \A i \in Chained :
              /\ Slot(i).state = "Occupied" /\ Slot(i).data \in Node
              /\ Hash(Slot(i).data.key) \in Buckets
              /\ i \in InChain(Hash(Slot(i).data.key))
              /\ \A b \in Buckets : i \in InChain(b) => b = Hash(Slot(i).data.key)
<1>1. ASSUME NEW b \in Buckets, NEW i \in InChain(b)
      PROVE  /\ i \in Indices /\ Slot(i).state = "Occupied" /\ Slot(i).data \in Node
             /\ b = Hash(Slot(i).data.key)
  <2>1. PICK j \in 1 .. Len(Chain(b)) : i = Chain(b)[j]
    BY <1>1, ChainFacts
  <2>2. i \in Indices /\ Complete(b, i, LinkTo(Chain(b), j + 1))
    BY <2>1, ChainFacts
  <2>3. QED
    BY <2>2 DEF Complete, Slot
<1>2. Chained \subseteq Indices
  BY <1>1 DEF Chained
<1>3. IsFiniteSet(Indices) /\ Cardinality(Indices) = Capacity
  BY FS_Interval, Constants DEF Indices
<1>4. IsFiniteSet(Chained) /\ Cardinality(Chained) <= Capacity
  BY <1>2, <1>3, FS_Subset
<1>5. Cardinality(Chained) \in 0 .. Capacity
  BY <1>4, FS_CardinalityType, Constants
<1>6. ASSUME NEW i \in Chained
      PROVE  /\ Slot(i).state = "Occupied" /\ Slot(i).data \in Node
             /\ Hash(Slot(i).data.key) \in Buckets
             /\ i \in InChain(Hash(Slot(i).data.key))
             /\ \A b \in Buckets : i \in InChain(b) => b = Hash(Slot(i).data.key)
  <2>1. PICK b \in Buckets : i \in InChain(b)
    BY <1>6 DEF Chained
  <2>2. QED
    BY <1>1, <2>1
<1>7. QED
  BY <1>2, <1>4, <1>5, <1>6

(* Beside a process that changes the index, or iterates, the others wait   *)
(* for it or, while it inserts, look up.                                   *)
LEMMA Alone ==
  ASSUME IInv, Workable(scenario), NEW p \in Proc \ dead, NEW q \in Proc \ dead, p # q,
         pc[p] \in Inserting \cup Removing \cup Iterating
  PROVE  /\ pc[q] \in {"idle", "lock", "bucket", "walk", "unlock", "wild"}
         /\ pc[q] \in {"bucket", "walk"} => pc[p] \in Inserting /\ IsOp(q, "get")
<1>1. pc[p] # "idle" /\ pc[p] # "lock" /\ Stands(p)
  BY DEF IInv, Inserting, Removing, Iterating
<1>2. call[p] \in scenario.calls[p]
  BY <1>1, CallTypes
<1>3. CASE pc[q] = "idle"
  BY <1>3
<1>4. CASE pc[q] # "idle"
  <2>1. call[q] \in scenario.calls[q] /\ Stands(q)
        /\ call[q].op \in {"insert", "get", "remove", "keys"}
    BY <1>4, CallTypes DEF IInv
  <2>2. call[p].op # "keys" /\ call[q].op # "keys"
    BY <1>2, <2>1 DEF Workable
  <2>3. CASE ~scenario.signals
    <3>1. owner = p
      BY <1>1, <2>2, <2>3 DEF IInv, Locks, IsOp
    <3>2. pc[q] = "lock"
      BY <1>4, <2>2, <2>3, <3>1 DEF IInv, Locks, IsOp
    <3>3. QED
      BY <3>2
  <2>4. CASE scenario.signals
    <3>1. call[p].op # "remove" /\ call[q].op # "remove"
          /\ (call[p].op = "get" \/ call[q].op = "get")
      BY <1>2, <2>1, <2>4 DEF Workable
    <3>2. pc[p] \in Inserting /\ call[p].op = "insert"
      BY <1>1, <2>2, <3>1 DEF Stands, IsOp, Inserting, Removing, Iterating
    <3>3. call[q].op = "get"
      BY <3>1, <3>2
    <3>4. pc[q] \in {"lock", "bucket", "walk", "unlock", "wild"}
      BY <1>4, <2>1, <3>3 DEF Stands, IsOp, Inserting, Removing, Iterating
    <3>5. QED
      BY <3>2, <3>3, <3>4 DEF IsOp
  <2>5. scenario.signals \in BOOLEAN
    BY HashIndexAssumption DEF IInv, Typing
  <2>6. QED
    BY <2>3, <2>4, <2>5
<1>5. QED
  BY <1>3, <1>4

(* So nobody else changes the nodes.                                       *)
LEMMA Sole ==
  ASSUME IInv, Workable(scenario), NEW p \in Proc \ dead,
         pc[p] \in Inserting \cup Removing \cup Iterating
  PROVE  \A q \in Proc \ dead : q # p => /\ ~Changing(q) /\ ~Unlinked(q) /\ ~InHand(q)
                                         /\ pc[q] \notin Inserting \cup Removing \cup Iterating
                                         /\ pc[q] # "count" /\ pc[q] # "uncount"
BY Alone DEF Changing, Unlinked, InHand, Inserting, Removing, Iterating

(* While a process iterates the occupied nodes are those in the chains,    *)
(* and count is their number.                                              *)
LEMMA AllChained ==
  ASSUME IInv, Workable(scenario), NEW p \in Proc \ dead, pc[p] \in Iterating
  PROVE  /\ \A i \in Indices : Slot(i).state = "Occupied" => i \in Chained
         /\ nodes.count = Cardinality(Chained)
<1>1. Stands(p) /\ pc[p] # "idle" /\ ~InHand(p) /\ ~Unlinked(p)
  BY DEF IInv, Iterating, InHand, Unlinked
<1>2. call[p] \in scenario.calls[p] /\ call[p].op = "keys"
  BY <1>1, CallTypes DEF Stands, Iterating, Inserting, Removing, IsOp
<1>3. ~Scarred
  <2>1. ASSUME NEW q \in dead, Changing(q) PROVE FALSE
    <3>1. q \in Proc /\ q # p
      BY <2>1 DEF IInv, Typing
    <3>2. pc[q] # "idle"
      BY <2>1 DEF Changing, Unlinked
    <3>3. call[q] \in scenario.calls[q]
      BY <3>1, <3>2, CallTypes
    <3>4. QED
      BY <1>2, <3>1, <3>3 DEF Workable
  <2>2. QED
    BY <2>1 DEF Scarred
<1>4. \A q \in Proc \ dead : ~InHand(q) /\ ~Unlinked(q)
  BY <1>1, Sole
<1>5. nodes.count = Cardinality(Chained) + 0
  BY <1>3, <1>4 DEF IInv, Counted, Ticks, AnyUnlinked
<1>6. nodes.count = Cardinality(Chained)
  BY <1>5, ChainedFacts
<1>7. PICK n \in 0 .. Capacity : \E order \in [1 .. n + 1 -> 0 .. Capacity] :
        IsList(n, order) /\ Whereabouts(n, order)
  BY DEF IInv, Listed
<1>8. PICK order \in [1 .. n + 1 -> 0 .. Capacity] : IsList(n, order) /\ Whereabouts(n, order)
  BY <1>7
<1>9. \A i \in Indices : OnList(n, order, i) => Slot(i).state = "Free"
  BY <1>8 DEF IsList, OnList
<1>10. \A i \in Indices : OnList(n, order, i) \/ i \in Chained
  BY <1>3, <1>4, <1>8 DEF Whereabouts, InHands
<1>11. QED
  BY <1>6, <1>9, <1>10

-----------------------------------------------------------------------------
(* Every step does one of these things; the rest the invariant excludes.   *)

(* Process p moves and p alone.                                            *)
LEMMA OwnStep ==
  ASSUME Typing, NEW p \in Proc, UNCHANGED <<scenario, dead>>,
         NEW a, pc' = [pc EXCEPT ![p] = a],
         NEW c, call' = [call EXCEPT ![p] = c],
         NEW l, local' = [local EXCEPT ![p] = l],
         NEW o, out' = [out EXCEPT ![p] = o]
  PROVE  Own(p) /\ pc'[p] = a /\ call'[p] = c /\ local'[p] = l /\ out'[p] = o
BY DEF Typing, Own

(* What stays is what it was.                                              *)
LEMMA Unmoved ==
  ASSUME Typing, NEW p \in Proc
  PROVE  /\ pc = [pc EXCEPT ![p] = pc[p]] /\ call = [call EXCEPT ![p] = call[p]]
         /\ local = [local EXCEPT ![p] = local[p]] /\ out = [out EXCEPT ![p] = out[p]]
BY DEF Typing

(* The functions that keep a value for each process.                       *)
LEMMA Shapes ==
  ASSUME Typing
  PROVE  /\ pc = [q \in Proc |-> pc[q]] /\ call = [q \in Proc |-> call[q]]
         /\ local = [q \in Proc |-> local[q]] /\ out = [q \in Proc |-> out[q]]
BY DEF Typing

(* The calls and the lock.                                                 *)
LEMMA CallSteps ==
  ASSUME Typing, NEW p \in Proc, UNCHANGED <<scenario, dead>>,
         Begin(p) \/ Lock(p) \/ LockInterrupted(p) \/ Unlock(p)
  PROVE  Calling(p)
<1>1. CASE Begin(p)
  <2>1. PICK c \in scenario.calls[p] :
          /\ Goto(p, "idle", IF c.op = "keys" THEN "it_test" ELSE "lock")
          /\ call' = [call EXCEPT ![p] = c]
          /\ Result(p, Map!Pending)
          /\ UNCHANGED <<Shared, owner, local>>
    BY <1>1 DEF Begin
  <2>2. local' = [local EXCEPT ![p] = local[p]]
    BY <2>1, Unmoved
  <2>3. Own(p) /\ pc'[p] = (IF c.op = "keys" THEN "it_test" ELSE "lock")
        /\ call'[p] = c /\ local'[p] = local[p] /\ out'[p] = Map!Pending
    BY <2>1, <2>2, Shapes DEF Goto, Result, Own
  <2>4. Began(p)
    BY <2>1, <2>3 DEF Began, Keeps, Quiet, Shared, Goto
  <2>5. QED
    BY <2>4 DEF Calling
<1>2. CASE Lock(p)
  <2>1. call' = [call EXCEPT ![p] = call[p]] /\ local' = [local EXCEPT ![p] = local[p]]
        /\ out' = [out EXCEPT ![p] = out[p]]
    BY <1>2, Unmoved DEF Lock
  <2>2. Own(p) /\ pc'[p] = "bucket" /\ Same(p)
    BY <1>2, <2>1, Shapes DEF Lock, Goto, Same, Own
  <2>3. Locked(p)
    BY <1>2, <2>2 DEF Lock, Goto, Locked, From, Quiet, Shared
  <2>4. QED
    BY <2>3 DEF Calling
<1>3. CASE LockInterrupted(p)
  <2>1. call' = [call EXCEPT ![p] = call[p]] /\ local' = [local EXCEPT ![p] = local[p]]
        /\ out' = [out EXCEPT ![p] = out[p]]
    BY <1>3, Unmoved DEF LockInterrupted
  <2>2. Own(p) /\ pc'[p] = "bucket" /\ Same(p)
    BY <1>3, <2>1, Shapes DEF LockInterrupted, Goto, Same, Own
  <2>3. Interrupted(p)
    BY <1>3, <2>2 DEF LockInterrupted, Goto, Interrupted, From, Quiet, Shared, Keeps
  <2>4. QED
    BY <2>3 DEF Calling
<1>4. CASE Unlock(p)
  <2>1. Own(p) /\ pc'[p] = "idle" /\ call'[p] = Map!NoCall /\ local'[p] = NoLocals
        /\ out'[p] = Map!Ok
    BY <1>4, OwnStep DEF Unlock, Goto, Result
  <2>2. Unlocked(p)
    BY <1>4, <2>1 DEF Unlock, Goto, Unlocked, From, Quiet, Shared
  <2>3. QED
    BY <2>2 DEF Calling
<1>5. QED
  BY <1>1, <1>2, <1>3, <1>4

(* The bucket is read.                                                     *)
LEMMA BucketStep ==
  ASSUME IInv, NEW p \in Proc \ dead, UNCHANGED <<scenario, dead>>, Bucket(p)
  PROVE  Calling(p) \/ Walking(p)
<1> DEFINE o == buckets[BucketOf(p)]
           l == [local[p] EXCEPT !.at = o]
<1>1. pc[p] = "bucket" /\ Typing /\ Stands(p)
  BY DEF IInv, Bucket
<1>2. local[p] \in Locals /\ o \in Offset
  BY <1>1, CallTypes, LocalTypes DEF Typing
<1>3. local' = [local EXCEPT ![p] = l] /\ call' = [call EXCEPT ![p] = call[p]]
  BY <1>1, Unmoved DEF Bucket, Set, Typing
<1>4. l \in Locals
  BY <1>2 DEF Locals
<1>5. ASSUME NEW a, pc' = [pc EXCEPT ![p] = a], NEW v, out' = [out EXCEPT ![p] = v]
      PROVE  Keeps(p) /\ pc'[p] = a /\ call'[p] = call[p] /\ local'[p] = l /\ out'[p] = v
  <2> HIDE DEF l
  <2>1. Own(p) /\ pc'[p] = a /\ call'[p] = call[p] /\ local'[p] = l /\ out'[p] = v
    BY <1>1, <1>3, <1>5, OwnStep
  <2>2. QED
    BY <2>1 DEF Keeps, Quiet, Bucket, Shared
<1>6. out = [out EXCEPT ![p] = out[p]]
  BY <1>1, Unmoved
<1> HIDE DEF l
<1>7. CASE o # None
  <2>1. pc' = [pc EXCEPT ![p] = "walk"] /\ out' = out
    BY <1>7 DEF Bucket, Goto
  <2>2. Keeps(p) /\ pc'[p] = "walk" /\ call'[p] = call[p] /\ local'[p] = l /\ out'[p] = out[p]
    BY <1>5, <1>6, <2>1
  <2>3. Entered(p)
    BY <1>1, <1>7, <2>2 DEF Entered, From, Looks, l
  <2>4. QED
    BY <2>3 DEF Walking
<1>8. CASE o = None /\ IsOp(p, "insert")
  <2>1. pc' = [pc EXCEPT ![p] = "full"] /\ out' = out
    BY <1>8 DEF Bucket, Goto
  <2>2. Keeps(p) /\ pc'[p] = "full" /\ call'[p] = call[p] /\ local'[p] = l /\ out'[p] = out[p]
    BY <1>5, <1>6, <2>1
  <2>3. FoundEmpty(p)
    BY <1>1, <1>8, <2>2 DEF FoundEmpty, From, Looks, l
  <2>4. QED
    BY <2>3 DEF Walking
<1>9. CASE o = None /\ ~IsOp(p, "insert")
  <2>1. pc' = [pc EXCEPT ![p] = "unlock"] /\ out' = [out EXCEPT ![p] = Absent(p)]
    BY <1>9 DEF Bucket, Done, Goto, Result
  <2>2. Keeps(p) /\ pc'[p] = "unlock" /\ call'[p] = call[p] /\ local'[p] = l
    BY <1>5, <2>1
  <2>3. Answered(p)
    BY <1>1, <1>4, <2>2 DEF Answered
  <2>4. QED
    BY <2>3 DEF Calling
<1>10. QED
  BY <1>7, <1>8, <1>9

(* A walk stands on a complete node of its bucket.                         *)
LEMMA WalkAt ==
  ASSUME IInv, NEW p \in Proc \ dead, pc[p] = "walk"
  PROVE  /\ BucketOf(p) \in Buckets
         /\ \E j \in 1 .. Len(OwnChain(p)) :
              /\ local[p].at = Some(OwnChain(p)[j]) /\ At(local[p].at) = OwnChain(p)[j]
              /\ Visited(p).next = LinkTo(OwnChain(p), j + 1)
         /\ At(local[p].at) \in Indices
         /\ Visited(p) \in Node /\ Visited(p).next \in Offset
         /\ ReadNode(At(local[p].at)) = Visited(p) /\ Visited(p) # NoNode
<1>1. BucketOf(p) \in Buckets
  BY CallTypes
<1>2. PICK j \in 1 .. Len(OwnChain(p)) : local[p].at = Some(OwnChain(p)[j])
  BY DEF IInv, Knowledge, Knows, Seeking
<1>3. /\ OwnChain(p)[j] \in Indices
      /\ Complete(BucketOf(p), OwnChain(p)[j], LinkTo(OwnChain(p), j + 1))
      /\ ReadNode(OwnChain(p)[j]) = Slot(OwnChain(p)[j]).data
  BY <1>1, ChainFacts DEF OwnChain
<1>4. At(local[p].at) = OwnChain(p)[j]
  BY <1>2, <1>3, Constants
<1>5. Visited(p) \in Node /\ Visited(p).next = LinkTo(OwnChain(p), j + 1)
  BY <1>3, <1>4 DEF Complete, Visited, Slot
<1>6. Visited(p).next \in Offset /\ Visited(p) # NoNode
  BY <1>5, Constants DEF Node
<1>7. QED
  BY <1>1, <1>2, <1>3, <1>4, <1>5, <1>6 DEF Visited

(* A node of a chain is visited.                                           *)
LEMMA WalkStep ==
  ASSUME IInv, NEW p \in Proc \ dead, UNCHANGED <<scenario, dead>>, Walk(p)
  PROVE  Calling(p) \/ Walking(p)
<1> DEFINE node == Visited(p)
<1>1. pc[p] = "walk" /\ Typing /\ Stands(p)
  BY DEF IInv, Walk
<1>2. node \in Node /\ node.next \in Offset /\ ReadNode(At(local[p].at)) = node
      /\ node # NoNode /\ At(local[p].at) \in Indices
  BY <1>1, WalkAt
<1>3. local[p] \in Locals /\ call[p].op \in {"insert", "get", "remove", "keys"}
  BY <1>1, LocalTypes, CallTypes
<1>4. call' = [call EXCEPT ![p] = call[p]]
  BY <1>1, Unmoved DEF Walk
<1>5. /\ local = [local EXCEPT ![p] = local[p]]
      /\ out = [out EXCEPT ![p] = out[p]]
      /\ pc = [pc EXCEPT ![p] = "walk"]
  BY <1>1, Unmoved
<1>6. ASSUME NEW a, pc' = [pc EXCEPT ![p] = a], NEW v, out' = [out EXCEPT ![p] = v],
             NEW l, local' = [local EXCEPT ![p] = l]
      PROVE  Keeps(p) /\ pc'[p] = a /\ call'[p] = call[p] /\ local'[p] = l /\ out'[p] = v
  <2>1. Own(p) /\ pc'[p] = a /\ call'[p] = call[p] /\ local'[p] = l /\ out'[p] = v
    BY <1>1, <1>4, <1>6, OwnStep
  <2>2. QED
    BY <2>1 DEF Keeps, Quiet, Walk, Shared
<1> HIDE DEF node
<1>7. CASE /\ Matches(p, node) /\ IsOp(p, "get")
           /\ Done(p, "walk", Map!Found(node.position)) /\ UNCHANGED local
  <2>1. Keeps(p) /\ pc'[p] = "unlock" /\ call'[p] = call[p] /\ local'[p] = local[p]
    BY <1>5, <1>6, <1>7 DEF Done, Goto, Result
  <2>2. Answered(p)
    BY <1>1, <1>3, <2>1 DEF Answered
  <2>3. QED
    BY <2>2 DEF Calling
<1>8. CASE /\ Matches(p, node) /\ IsOp(p, "remove")
           /\ Goto(p, "walk", "first")
           /\ local' = [local EXCEPT ![p].idx = At(local[p].at), ![p].after = node.next]
           /\ UNCHANGED out
  <2> DEFINE l == [local[p] EXCEPT !.idx = At(local[p].at), !.after = node.next]
  <2>1. local' = [local EXCEPT ![p] = l]
    BY <1>1, <1>8 DEF Typing
  <2>2. Keeps(p) /\ pc'[p] = "first" /\ call'[p] = call[p] /\ local'[p] = l /\ out'[p] = out[p]
    <3> HIDE DEF l
    <3>1. QED
      BY <1>5, <1>6, <1>8, <2>1 DEF Goto
  <2>3. Hit(p)
    BY <1>1, <1>8, <2>2 DEF Hit, From, Looks, Matches, node
  <2>4. QED
    BY <2>3 DEF Walking
<1>9. CASE /\ ~Matches(p, node) /\ node.next # None
           /\ Set(p, "at", Onward(p, node)) /\ UNCHANGED <<pc, out>>
  <2> DEFINE l == [local[p] EXCEPT !.at = node.next]
  <2>1. local' = [local EXCEPT ![p] = l]
    BY <1>1, <1>9 DEF Typing, Set, Onward
  <2>2. Keeps(p) /\ pc'[p] = "walk" /\ call'[p] = call[p] /\ local'[p] = l /\ out'[p] = out[p]
    <3> HIDE DEF l
    <3>1. QED
      BY <1>5, <1>6, <1>9, <2>1
  <2>3. WentOn(p)
    BY <1>1, <1>9, <2>2 DEF WentOn, From, Looks, Matches, node
  <2>4. QED
    BY <2>3 DEF Walking
<1>10. CASE /\ IsOp(p, "insert") /\ node.next = None
            /\ Goto(p, "walk", "full") /\ Set(p, "from", node) /\ UNCHANGED out
  <2> DEFINE l == [local[p] EXCEPT !.from = node]
  <2>1. local' = [local EXCEPT ![p] = l]
    BY <1>1, <1>10 DEF Typing, Set
  <2>2. Keeps(p) /\ pc'[p] = "full" /\ call'[p] = call[p] /\ local'[p] = l /\ out'[p] = out[p]
    <3> HIDE DEF l
    <3>1. QED
      BY <1>5, <1>6, <1>10, <2>1 DEF Goto
  <2>3. FoundEnd(p)
    BY <1>1, <1>10, <2>2 DEF FoundEnd, From, Looks, node
  <2>4. QED
    BY <2>3 DEF Walking
<1>11. CASE /\ ~IsOp(p, "insert") /\ ~Matches(p, node) /\ node.next = None
            /\ Done(p, "walk", Absent(p)) /\ UNCHANGED local
  <2>1. Keeps(p) /\ pc'[p] = "unlock" /\ call'[p] = call[p] /\ local'[p] = local[p]
    BY <1>5, <1>6, <1>11 DEF Done, Goto, Result
  <2>2. Answered(p)
    BY <1>1, <1>3, <2>1 DEF Answered
  <2>3. QED
    BY <2>2 DEF Calling
<1>12. QED
  BY <1>2, <1>7, <1>8, <1>9, <1>10, <1>11 DEF Walk

(* An insertion looks for room, takes a node and counts it.                *)
LEMMA TakeSteps ==
  ASSUME IInv, NEW p \in Proc \ dead, UNCHANGED <<scenario, dead>>,
         Full(p) \/ Take(p) \/ Count(p)
  PROVE  Calling(p) \/ Walking(p) \/ Heading(p)
<1>1. Typing /\ Stands(p) /\ local[p] \in Locals
  BY LocalTypes DEF IInv
<1>2. /\ call = [call EXCEPT ![p] = call[p]] /\ local = [local EXCEPT ![p] = local[p]]
      /\ out = [out EXCEPT ![p] = out[p]]
  BY <1>1, Unmoved
<1>3. nodes.count \in Nat /\ nodes.firstFree \in Nat
      /\ nodes = [count |-> nodes.count, firstFree |-> nodes.firstFree, slot |-> nodes.slot]
  BY <1>1, SlotTypes
<1>4. CASE Full(p) /\ IsFull
  <2>1. Done(p, "full", Map!TableFull) /\ UNCHANGED <<Shared, owner, call, local>>
    BY <1>4 DEF Full
  <2>2. Own(p) /\ pc'[p] = "unlock" /\ call'[p] = call[p] /\ local'[p] = local[p]
    BY <1>1, <1>2, <2>1, Shapes DEF Done, Goto, Result, Own
  <2>3. Answered(p)
    BY <1>1, <2>1, <2>2 DEF Answered, Keeps, Quiet, Shared, Done, Goto
  <2>4. QED
    BY <2>3 DEF Calling
<1>5. CASE Full(p) /\ ~IsFull
  <2>1. Goto(p, "full", "take") /\ UNCHANGED out /\ UNCHANGED <<Shared, owner, call, local>>
    BY <1>5 DEF Full
  <2>2. Own(p) /\ pc'[p] = "take" /\ Same(p)
    BY <1>1, <1>2, <2>1, Shapes DEF Goto, Same, Own
  <2>3. nodes.count < Capacity
    BY <1>3, <1>5, Constants DEF IsFull, N!IsFull
  <2>4. FoundRoom(p)
    BY <2>1, <2>2, <2>3 DEF FoundRoom, Keeps, Quiet, Shared, From, Goto
  <2>5. QED
    BY <2>4 DEF Walking
<1>6. CASE Take(p) /\ nodes.firstFree \in Indices
  <2> DEFINE l == [local[p] EXCEPT !.idx = nodes.firstFree]
  <2>1. /\ Goto(p, "take", "count")
        /\ local' = [local EXCEPT ![p] = l]
        /\ nodes' = [nodes EXCEPT !.firstFree = nodes.slot[nodes.firstFree].size]
        /\ UNCHANGED <<buckets, owner, call, out>>
    BY <1>1, <1>6 DEF Take, Set, Typing
  <2>2. nodes' = [nodes EXCEPT !.count = nodes.count, !.firstFree = Slot(nodes.firstFree).size]
    BY <1>3, <2>1 DEF Slot
  <2>3. Own(p) /\ pc'[p] = "count" /\ call'[p] = call[p] /\ local'[p] = l /\ out'[p] = out[p]
    <3> HIDE DEF l
    <3>1. QED
      BY <1>1, <1>2, <2>1, OwnStep DEF Goto
  <2>4. TookHead(p)
    BY <1>6, <2>1, <2>2, <2>3 DEF TookHead, Heads, From, Looks, Goto
  <2>5. QED
    BY <2>4 DEF Heading
<1>7. CASE Take(p) /\ nodes.firstFree \notin Indices
  <2>1. Goto(p, "take", "wild") /\ UNCHANGED <<local, nodes>>
        /\ UNCHANGED <<buckets, owner, call, out>>
    BY <1>7 DEF Take
  <2>2. Own(p) /\ pc'[p] = "wild" /\ Same(p)
    BY <1>1, <1>2, <2>1, Shapes DEF Goto, Same, Own
  <2>3. Strayed(p)
    BY <1>7, <2>1, <2>2 DEF Strayed, Keeps, Quiet, From, Goto
  <2>4. QED
    BY <2>3 DEF Walking
<1>8. CASE Count(p)
  <2>1. Own(p) /\ pc'[p] = "wr_state" /\ Same(p)
    BY <1>1, <1>2, <1>8, Shapes DEF Count, Goto, Same, Own
  <2>2. nodes' = [nodes EXCEPT !.count = nodes.count + 1, !.firstFree = nodes.firstFree]
    BY <1>3, <1>8 DEF Count
  <2>3. CountedUp(p)
    BY <1>8, <2>1, <2>2 DEF CountedUp, Heads, From, Count, Goto
  <2>4. QED
    BY <2>3 DEF Heading
<1>9. QED
  BY <1>4, <1>5, <1>6, <1>7, <1>8

(* Words of the slot array that are written one at a time.                 *)
LEMMA StoreSteps ==
  ASSUME IInv, NEW p \in Proc \ dead, UNCHANGED <<scenario, dead>>,
         WrState(p) \/ WrNode(p) \/ RmState(p) \/ RmLink(p) \/ RmFirst(p) \/ Uncount(p)
  PROVE  Storing(p) \/ Heading(p)
<1>1. Typing /\ Stands(p) /\ local[p] \in Locals /\ Idx(p) \in Indices /\ Idx(p) = local[p].idx
  BY LocalTypes DEF IInv
<1>2. /\ call = [call EXCEPT ![p] = call[p]] /\ local = [local EXCEPT ![p] = local[p]]
      /\ out = [out EXCEPT ![p] = out[p]]
  BY <1>1, Unmoved
<1>3. nodes.count \in Nat /\ nodes.firstFree \in Nat
      /\ nodes = [count |-> nodes.count, firstFree |-> nodes.firstFree, slot |-> nodes.slot]
      /\ nodes.slot \in [Indices -> N!SlotMetadata]
      /\ Slot(Idx(p)) = [state |-> Slot(Idx(p)).state, size |-> Slot(Idx(p)).size,
                         data |-> Slot(Idx(p)).data]
  BY <1>1, SlotTypes
<1>4. CASE WrState(p)
  <2>1. Own(p) /\ pc'[p] = "wr_node" /\ Same(p)
    BY <1>1, <1>2, <1>4, Shapes DEF WrState, Goto, Same, Own
  <2>2. nodes' = [nodes EXCEPT !.slot[Idx(p)] = [Slot(Idx(p)) EXCEPT !.state = "Occupied"]]
    BY <1>1, <1>3, <1>4 DEF WrState, Slot
  <2>3. WroteState(p)
    BY <1>4, <2>1, <2>2 DEF WroteState, Stores, From, WrState, Goto
  <2>4. QED
    BY <2>3 DEF Storing
<1>5. CASE WrNode(p)
  <2>1. Own(p) /\ pc'[p] = "link" /\ Same(p)
    BY <1>1, <1>2, <1>5, Shapes DEF WrNode, Goto, Same, Own
  <2>2. nodes' = [nodes EXCEPT !.slot[Idx(p)] = N!Written(NewNode(p))]
    BY <1>1, <1>5 DEF WrNode, NewNode
  <2>3. WroteNode(p)
    BY <1>5, <2>1, <2>2 DEF WroteNode, Stores, From, WrNode, Goto
  <2>4. QED
    BY <2>3 DEF Storing
<1>6. CASE RmState(p)
  <2> DEFINE l == [local[p] EXCEPT !.tmp = nodes.firstFree]
  <2>1. local' = [local EXCEPT ![p] = l]
    BY <1>1, <1>6 DEF RmState, Set, Typing
  <2>2. Own(p) /\ pc'[p] = "rm_link" /\ call'[p] = call[p] /\ local'[p] = l /\ out'[p] = out[p]
    <3> HIDE DEF l
    <3>1. QED
      BY <1>1, <1>2, <1>6, <2>1, OwnStep DEF RmState, Goto
  <2>3. nodes' = [nodes EXCEPT !.slot[Idx(p)] =
                    [Slot(Idx(p)) EXCEPT !.state = "Free", !.data = NoNode]]
    BY <1>1, <1>3, <1>6 DEF RmState, Slot
  <2>4. WroteFree(p)
    BY <1>6, <2>2, <2>3 DEF WroteFree, Stores, From, Looks, RmState, Goto
  <2>5. QED
    BY <2>4 DEF Storing
<1>7. CASE RmLink(p)
  <2>1. Own(p) /\ pc'[p] = "rm_first" /\ Same(p)
    BY <1>1, <1>2, <1>7, Shapes DEF RmLink, Goto, Same, Own
  <2>2. nodes' = [nodes EXCEPT !.slot[Idx(p)] = [Slot(Idx(p)) EXCEPT !.size = local[p].tmp]]
    BY <1>1, <1>3, <1>7 DEF RmLink, Slot
  <2>3. WroteLink(p)
    BY <1>7, <2>1, <2>2 DEF WroteLink, Stores, From, RmLink, Goto
  <2>4. QED
    BY <2>3 DEF Storing
<1>8. CASE RmFirst(p)
  <2>1. Own(p) /\ pc'[p] = "uncount" /\ Same(p)
    BY <1>1, <1>2, <1>8, Shapes DEF RmFirst, Goto, Same, Own
  <2>2. nodes' = [nodes EXCEPT !.count = nodes.count, !.firstFree = Idx(p)]
    BY <1>1, <1>3, <1>8 DEF RmFirst
  <2>3. Pushed(p)
    BY <1>8, <2>1, <2>2 DEF Pushed, Heads, From, RmFirst, Goto
  <2>4. QED
    BY <2>3 DEF Heading
<1>9. CASE Uncount(p)
  <2>1. Own(p) /\ pc'[p] = "unlock" /\ Same(p)
    BY <1>1, <1>2, <1>9, Shapes DEF Uncount, Goto, Same, Own
  <2>2. nodes' = [nodes EXCEPT !.count = nodes.count - 1, !.firstFree = nodes.firstFree]
    BY <1>3, <1>9 DEF Uncount
  <2>3. CountedDown(p)
    BY <1>9, <2>1, <2>2 DEF CountedDown, Heads, From, Uncount, Goto
  <2>4. QED
    BY <2>3 DEF Heading
<1>10. QED
  BY <1>4, <1>5, <1>6, <1>7, <1>8, <1>9

(* The new node is linked.                                                 *)
LEMMA LinkStep ==
  ASSUME IInv, NEW p \in Proc \ dead, UNCHANGED <<scenario, dead>>, Link(p)
  PROVE  Linking(p)
<1>1. Typing /\ local[p].idx = Idx(p)
  BY LocalTypes DEF IInv
<1>2. call' = [call EXCEPT ![p] = call[p]] /\ local' = [local EXCEPT ![p] = local[p]]
  BY <1>1, Unmoved DEF Link
<1>3. Own(p) /\ From(p, "link", "unlock") /\ call'[p] = call[p] /\ local'[p] = local[p]
      /\ out'[p] = Map!Ok
  BY <1>1, <1>2, Shapes DEF Link, Done, Goto, Result, From, Own
<1>4. CASE local[p].at = None
  <2>1. buckets' = [buckets EXCEPT ![BucketOf(p)] = Some(Idx(p))] /\ nodes' = nodes
    BY <1>1, <1>4 DEF Link
  <2>2. LinkedFirst(p)
    BY <1>3, <1>4, <2>1 DEF LinkedFirst, Points, Link
  <2>3. QED
    BY <2>2 DEF Linking
<1>5. CASE local[p].at # None
  <2>1. WriteBack(p, Some(Idx(p))) /\ buckets' = buckets
    BY <1>1, <1>5 DEF Link
  <2>2. nodes' = [nodes EXCEPT !.slot[At(local[p].at)] =
                    N!Written([local[p].from EXCEPT !.next = Some(Idx(p))])]
    BY <1>1, <2>1, SlotTypes DEF WriteBack, N!Updated
  <2>3. LinkedLast(p)
    BY <1>3, <1>5, <2>1, <2>2 DEF LinkedLast, Stores, Link
  <2>4. QED
    BY <2>3 DEF Linking
<1>6. QED
  BY <1>4, <1>5

(* Where a removal stands in its chain.                                    *)
LEMMA RemovalAt ==
  ASSUME IInv, NEW p \in Proc \ dead, pc[p] \in {"first", "before", "unlink"}
  PROVE  /\ BucketOf(p) \in Buckets
         /\ \E j \in 1 .. Len(OwnChain(p)) :
              /\ Idx(p) = OwnChain(p)[j] /\ local[p].after = LinkTo(OwnChain(p), j + 1)
              /\ pc[p] = "before" => \E k \in 1 .. j - 1 :
                   /\ local[p].at = Some(OwnChain(p)[k]) /\ At(local[p].at) = OwnChain(p)[k]
                   /\ ReadNode(At(local[p].at)) = Visited(p)
                   /\ Visited(p) \in Node /\ Visited(p) # NoNode
                   /\ Visited(p).next = Some(OwnChain(p)[k + 1])
                   /\ Visited(p).next \in Offset /\ Visited(p).next # None
              /\ pc[p] = "unlink" => /\ j > 1 /\ local[p].at = Some(OwnChain(p)[j - 1])
                                     /\ At(local[p].at) = OwnChain(p)[j - 1]
                                     /\ local[p].from = Slot(OwnChain(p)[j - 1]).data
<1>1. BucketOf(p) \in Buckets
  BY CallTypes
<1> DEFINE c == OwnChain(p)
<1>2. /\ Len(c) \in Nat
      /\ \A j \in 1 .. Len(c) : /\ c[j] \in Indices
                                /\ Complete(BucketOf(p), c[j], LinkTo(c, j + 1))
                                /\ ReadNode(c[j]) = Slot(c[j]).data
  BY <1>1, ChainFacts DEF OwnChain
<1>3. \A j \in 1 .. Len(c) : At(Some(c[j])) = c[j] /\ Some(c[j]) \in Offset /\ Some(c[j]) # None
  BY <1>2, Constants
<1>4. PICK j \in 1 .. Len(c) :
         /\ Idx(p) = c[j] /\ local[p].after = LinkTo(c, j + 1)
         /\ pc[p] = "before" => \E k \in 1 .. j - 1 : local[p].at = Some(c[k])
         /\ pc[p] = "unlink" => /\ j > 1 /\ local[p].at = Some(c[j - 1])
                                /\ local[p].from = Slot(c[j - 1]).data
  BY DEF IInv, Knowledge, Knows, Removal
<1>5. ASSUME pc[p] = "before"
      PROVE  \E k \in 1 .. j - 1 :
               /\ local[p].at = Some(c[k]) /\ At(local[p].at) = c[k]
               /\ ReadNode(At(local[p].at)) = Visited(p)
               /\ Visited(p) \in Node /\ Visited(p) # NoNode
               /\ Visited(p).next = Some(c[k + 1])
               /\ Visited(p).next \in Offset /\ Visited(p).next # None
  <2>1. PICK k \in 1 .. j - 1 : local[p].at = Some(c[k])
    BY <1>4, <1>5
  <2>2. k \in 1 .. Len(c) /\ k + 1 \in 1 .. Len(c)
    BY <1>2
  <2>3. At(local[p].at) = c[k] /\ Complete(BucketOf(p), c[k], LinkTo(c, k + 1))
        /\ ReadNode(c[k]) = Slot(c[k]).data
    BY <1>2, <1>3, <2>1, <2>2
  <2>4. LinkTo(c, k + 1) = Some(c[k + 1])
    BY <1>2, <2>2 DEF LinkTo
  <2>5. Visited(p) = Slot(c[k]).data /\ Visited(p) \in Node /\ Visited(p).next = Some(c[k + 1])
    BY <2>3, <2>4 DEF Complete, Visited, Slot
  <2>6. QED
    BY <1>3, <2>1, <2>2, <2>3, <2>5, Constants
<1>6. ASSUME pc[p] = "unlink" PROVE At(local[p].at) = c[j - 1]
  <2>1. j - 1 \in 1 .. Len(c)
    BY <1>2, <1>4, <1>6
  <2>2. QED
    BY <1>3, <1>4, <1>6, <2>1
<1>7. QED
  BY <1>1, <1>4, <1>5, <1>6

(* The node to be removed is the first of its bucket, or it is not.        *)
LEMMA FirstStep ==
  ASSUME IInv, NEW p \in Proc \ dead, UNCHANGED <<scenario, dead>>, First(p)
  PROVE  Walking(p) \/ UnlinkingStep(p)
<1> DEFINE o == buckets[BucketOf(p)]
<1>1. Typing /\ local[p].idx = Idx(p) /\ pc[p] = "first"
  BY LocalTypes DEF IInv, First, UnlinkFirst, Unlinking, Goto
<1>2. /\ call = [call EXCEPT ![p] = call[p]] /\ local = [local EXCEPT ![p] = local[p]]
      /\ out = [out EXCEPT ![p] = out[p]]
  BY <1>1, Unmoved
<1>3. o # None
  <2>1. BucketOf(p) \in Buckets
    BY <1>1, CallTypes
  <2>2. PICK j \in 1 .. Len(Chain(BucketOf(p))) : TRUE
    BY <1>1, RemovalAt DEF OwnChain
  <2>3. o = LinkTo(Chain(BucketOf(p)), 1) /\ Len(Chain(BucketOf(p))) \in Nat
    BY <2>1, ChainFacts
  <2>4. 1 \in 1 .. Len(Chain(BucketOf(p))) + 1 /\ 1 # Len(Chain(BucketOf(p))) + 1
    BY <2>2, <2>3
  <2>5. QED
    BY <2>1, <2>3, <2>4, LinkFacts
<1>4. CASE UnlinkFirst(p)
  <2>1. Own(p) /\ From(p, "first", "rm_state") /\ call'[p] = call[p] /\ local'[p] = local[p]
        /\ out'[p] = Map!Ok
    BY <1>1, <1>2, <1>4, Shapes DEF First, UnlinkFirst, Unlinking, Goto, Result, From, Own
  <2>2. UnlinkedFirst(p)
    BY <1>1, <1>4, <2>1 DEF UnlinkedFirst, Points, First, UnlinkFirst
  <2>3. QED
    BY <2>2 DEF UnlinkingStep
<1>5. CASE ~UnlinkFirst(p)
  <2> DEFINE l == [local[p] EXCEPT !.at = o]
  <2>1. /\ o # Some(Idx(p)) /\ pc' = [pc EXCEPT ![p] = "before"]
        /\ local' = [local EXCEPT ![p] = l]
        /\ UNCHANGED <<buckets, out>> /\ UNCHANGED <<nodes, owner, call>>
    BY <1>1, <1>3, <1>5 DEF First, Goto, Set, Typing
  <2>2. Own(p) /\ pc'[p] = "before" /\ call'[p] = call[p] /\ local'[p] = l /\ out'[p] = out[p]
    <3> HIDE DEF l
    <3>1. QED
      BY <1>1, <1>2, <2>1, OwnStep
  <2>3. NotFirst(p)
    BY <1>1, <1>3, <2>1, <2>2 DEF NotFirst, Keeps, Quiet, From, Looks
  <2>4. QED
    BY <2>3 DEF Walking
<1>6. QED
  BY <1>4, <1>5

(* The second walk of a removal, and its end.                              *)
LEMMA BeforeSteps ==
  ASSUME IInv, NEW p \in Proc \ dead, UNCHANGED <<scenario, dead>>,
         Before(p) \/ UnlinkInner(p)
  PROVE  Walking(p) \/ UnlinkingStep(p)
<1>1. Typing /\ local[p].idx = Idx(p)
  BY LocalTypes DEF IInv
<1>2. /\ call = [call EXCEPT ![p] = call[p]] /\ local = [local EXCEPT ![p] = local[p]]
      /\ out = [out EXCEPT ![p] = out[p]] /\ pc = [pc EXCEPT ![p] = pc[p]]
  BY <1>1, Unmoved
<1>3. CASE Before(p)
  <2>1. pc[p] = "before"
    BY <1>3 DEF Before
  <2>2. /\ ReadNode(At(local[p].at)) = Visited(p)
        /\ Visited(p) # NoNode /\ Visited(p).next # None
    BY <2>1, RemovalAt
  <2>3. CASE Visited(p).next = Some(Idx(p))
    <3> DEFINE l == [local[p] EXCEPT !.from = Visited(p)]
    <3>1. /\ pc' = [pc EXCEPT ![p] = "unlink"] /\ local' = [local EXCEPT ![p] = l]
          /\ out' = out /\ UNCHANGED <<Shared, owner, call>>
      BY <1>1, <1>3, <2>2, <2>3 DEF Before, Goto, Set, Typing
    <3>2. Own(p) /\ pc'[p] = "unlink" /\ call'[p] = call[p] /\ local'[p] = l
          /\ out'[p] = out[p]
      <4> HIDE DEF l
      <4>1. QED
        BY <1>1, <1>2, <3>1, OwnStep
    <3>3. FoundBefore(p)
      BY <2>1, <2>3, <3>1, <3>2 DEF FoundBefore, Keeps, Quiet, From, Looks, Shared
    <3>4. QED
      BY <3>3 DEF Walking
  <2>4. CASE Visited(p).next # Some(Idx(p))
    <3> DEFINE l == [local[p] EXCEPT !.at = Visited(p).next]
    <3>1. /\ pc' = pc /\ local' = [local EXCEPT ![p] = l]
          /\ out' = out /\ UNCHANGED <<Shared, owner, call>>
      BY <1>1, <1>3, <2>2, <2>4 DEF Before, Set, Typing
    <3>2. Own(p) /\ pc'[p] = "before" /\ call'[p] = call[p] /\ local'[p] = l
          /\ out'[p] = out[p]
      <4> HIDE DEF l
      <4>1. QED
        BY <1>1, <1>2, <2>1, <3>1, Shapes DEF Own
    <3>3. NotBefore(p)
      BY <2>1, <2>2, <2>4, <3>1, <3>2 DEF NotBefore, Keeps, Quiet, From, Looks, Shared
    <3>4. QED
      BY <3>3 DEF Walking
  <2>5. QED
    BY <2>3, <2>4
<1>4. CASE UnlinkInner(p)
  <2>1. Own(p) /\ From(p, "unlink", "rm_state") /\ call'[p] = call[p] /\ local'[p] = local[p]
        /\ out'[p] = Map!Ok
    BY <1>1, <1>2, <1>4, Shapes DEF UnlinkInner, Unlinking, Goto, Result, From, Own
  <2>2. nodes' = [nodes EXCEPT !.slot[At(local[p].at)] =
                    N!Written([local[p].from EXCEPT !.next = local[p].after])]
    BY <1>1, <1>4, SlotTypes DEF UnlinkInner, WriteBack, N!Updated
  <2>3. UnlinkedInner(p)
    BY <1>4, <2>1, <2>2 DEF UnlinkedInner, Stores, UnlinkInner
  <2>4. QED
    BY <2>3 DEF UnlinkingStep
<1>5. QED
  BY <1>3, <1>4

(* The nodes an iteration has passed.                                      *)
LEMMA PassedFacts ==
  ASSUME Typing, NEW i \in Offset
  PROVE  /\ IsFiniteSet(Passed(i)) /\ Cardinality(Passed(i)) \in Nat
         /\ i \in Indices /\ Slot(i).state = "Free" => Passed(i + 1) = Passed(i)
         /\ i \in Indices /\ Slot(i).state = "Occupied" =>
              /\ i + 1 \in Offset
              /\ Cardinality(Passed(i + 1)) = Cardinality(Passed(i)) + 1
         /\ i \notin Indices => Passed(i) = {j \in Indices : Slot(j).state = "Occupied"}
<1>1. Passed(i) \subseteq Indices /\ IsFiniteSet(Indices)
  BY FS_Interval, Constants DEF Indices, Passed
<1>2. IsFiniteSet(Passed(i)) /\ Cardinality(Passed(i)) \in Nat
  BY <1>1, FS_Subset, FS_CardinalityType
<1>3. i \in Nat /\ i <= Capacity /\ \A j \in Indices : j \in Nat /\ j < Capacity
  BY Constants DEF Offset, Indices
<1>4. ASSUME i \in Indices, Slot(i).state = "Free" PROVE Passed(i + 1) = Passed(i)
  <2>1. \A j \in Indices : j < i + 1 <=> j < i \/ j = i
    BY <1>3
  <2>2. QED
    BY <1>4, <2>1 DEF Passed
<1>5. ASSUME i \in Indices, Slot(i).state = "Occupied"
      PROVE  i + 1 \in Offset /\ Cardinality(Passed(i + 1)) = Cardinality(Passed(i)) + 1
  <2>1. \A j \in Indices : j < i + 1 <=> j < i \/ j = i
    BY <1>3
  <2>2. Passed(i + 1) = Passed(i) \cup {i}
    <3>1. \A j : j \in Passed(i + 1) <=> j \in Passed(i) \/ j = i
      BY <1>5, <2>1 DEF Passed
    <3>2. QED
      BY <3>1
  <2>5. i \notin Passed(i)
    BY <1>3 DEF Passed
  <2>3. i + 1 \in Offset
    BY <1>3, <1>5, Constants DEF Offset
  <2>4. QED
    BY <1>2, <2>2, <2>3, <2>5, FS_AddElement
<1>6. ASSUME i \notin Indices
      PROVE  Passed(i) = {j \in Indices : Slot(j).state = "Occupied"}
  <2>1. i = Capacity
    BY <1>3, <1>6, Constants DEF Indices
  <2>2. \A j \in Indices : j < i
    BY <1>3, <2>1
  <2>3. QED
    BY <2>2 DEF Passed
<1>7. QED
  BY <1>2, <1>4, <1>5, <1>6

(* An iteration that has not seen count nodes has another before it.       *)
LEMMA IterSteps ==
  ASSUME IInv, Workable(scenario), NEW p \in Proc \ dead, UNCHANGED <<scenario, dead>>,
         IterTest(p) \/ IterSkip(p) \/ IterRead(p)
  PROVE  Calling(p) \/ Iterates(p)
<1> DEFINE i == local[p].tmp
<1>1. Typing /\ local[p] \in Locals /\ i \in Offset /\ Iteration(p)
  BY LocalTypes DEF IInv, Knowledge, Knows
<1>2. /\ call = [call EXCEPT ![p] = call[p]] /\ local = [local EXCEPT ![p] = local[p]]
      /\ out = [out EXCEPT ![p] = out[p]] /\ pc = [pc EXCEPT ![p] = pc[p]]
  BY <1>1, Unmoved
<1>3. pc[p] \in Iterating
  BY DEF IterTest, IterSkip, IterRead, Iterating
<1>4. Len(local[p].seen) \in Nat /\ nodes.count \in Nat
  BY <1>1, LocalTypes, SlotTypes, LenProperties
<1>5. CASE IterTest(p)
  <2>1. CASE Len(local[p].seen) >= nodes.count
    <3>1. pc[p] = "it_test" /\ UNCHANGED <<Shared, owner, call, local>>
          /\ pc' = [pc EXCEPT ![p] = "unlock"] /\ \E v : out' = [out EXCEPT ![p] = v]
      BY <1>5, <2>1 DEF IterTest, Done, Goto, Result
    <3>2. Own(p) /\ pc'[p] = "unlock" /\ call'[p] = call[p] /\ local'[p] = local[p]
      BY <1>1, <1>2, <3>1, Shapes DEF Own
    <3>3. Answered(p)
      BY <1>1, <3>1, <3>2 DEF Answered, Keeps, Quiet, Shared
    <3>4. QED
      BY <3>3 DEF Calling
  <2>2. CASE ~(Len(local[p].seen) >= nodes.count)
    <3>1. pc[p] = "it_test" /\ UNCHANGED <<Shared, owner, call, local, out>>
          /\ pc' = [pc EXCEPT ![p] = "it_skip"]
      BY <1>5, <2>2 DEF IterTest, Goto
    <3>2. Own(p) /\ pc'[p] = "it_skip" /\ Same(p)
      BY <1>1, <1>2, <3>1, Shapes DEF Same, Own
    <3>3. Len(local[p].seen) < nodes.count
      BY <1>4, <2>2
    <3>4. Tested(p)
      BY <3>1, <3>2, <3>3 DEF Tested, Keeps, Quiet, Shared, From
    <3>5. QED
      BY <3>4 DEF Iterates
  <2>3. QED
    BY <2>1, <2>2
<1>6. CASE IterSkip(p)
  <2>1. pc[p] = "it_skip" /\ UNCHANGED <<Shared, owner, call, out>>
    BY <1>6 DEF IterSkip
  <2>2. i \in Indices
    <3>1. SUFFICES ASSUME i \notin Indices PROVE FALSE
      OBVIOUS
    <3>2. Passed(i) = {j \in Indices : Slot(j).state = "Occupied"}
          /\ IsFiniteSet(Passed(i)) /\ Cardinality(Passed(i)) \in Nat
      BY <1>1, <3>1, PassedFacts
    <3>3. Chained \subseteq Passed(i)
      BY <3>2, ChainedFacts
    <3>4. Cardinality(Chained) <= Cardinality(Passed(i)) /\ Cardinality(Chained) \in Nat
      BY <3>2, <3>3, FS_Subset, ChainedFacts
    <3>5. nodes.count = Cardinality(Chained)
      BY <1>3, AllChained
    <3>6. Len(local[p].seen) = Cardinality(Passed(i)) /\ Len(local[p].seen) < nodes.count
      BY <1>1, <1>3, <2>1 DEF Iteration
    <3>7. QED
      BY <1>4, <3>4, <3>5, <3>6
  <2>3. CASE Slot(i).state = "Free"
    <3> DEFINE l == [local[p] EXCEPT !.tmp = i + 1]
    <3>1. local' = [local EXCEPT ![p] = l] /\ pc' = pc
      BY <1>1, <1>6, <2>2, <2>3 DEF IterSkip, Set, Slot, Typing
    <3>2. Own(p) /\ pc'[p] = "it_skip" /\ call'[p] = call[p] /\ local'[p] = l
          /\ out'[p] = out[p]
      <4> HIDE DEF l
      <4>1. QED
        BY <1>1, <1>2, <2>1, <3>1, Shapes DEF Own
    <3>3. Skipped(p)
      BY <2>1, <2>2, <2>3, <3>2 DEF Skipped, Keeps, Quiet, Shared, From, Looks
    <3>4. QED
      BY <3>3 DEF Iterates
  <2>4. CASE Slot(i).state # "Free"
    <3>1. pc' = [pc EXCEPT ![p] = "it_read"] /\ local' = local
      BY <1>6, <2>2, <2>4 DEF IterSkip, Goto, Slot
    <3>2. Own(p) /\ pc'[p] = "it_read" /\ Same(p)
      BY <1>1, <1>2, <2>1, <3>1, Shapes DEF Same, Own
    <3>3. Slot(i).state = "Occupied"
      BY <1>1, <2>2, <2>4, SlotTypes
    <3>4. Stopped(p)
      BY <2>1, <2>2, <3>2, <3>3 DEF Stopped, Keeps, Quiet, Shared, From
    <3>5. QED
      BY <3>4 DEF Iterates
  <2>5. QED
    BY <2>3, <2>4
<1>7. CASE IterRead(p)
  <2>1. pc[p] = "it_read" /\ UNCHANGED <<Shared, owner, call, out>>
    BY <1>7 DEF IterRead
  <2>2. i \in Indices /\ Slot(i).state = "Occupied"
    BY <1>1, <2>1 DEF Iteration
  <2>3. Slot(i).data \in Node
    BY <1>3, <2>2, AllChained, ChainedFacts
  <2>4. ReadNode(i) = Slot(i).data /\ ReadNode(i) # NoNode
    BY <2>2, <2>3, Constants DEF ReadNode, N!DataAt, Slot
  <2> DEFINE l == [local[p] EXCEPT !.tmp = i + 1, !.seen = Append(@, Slot(i).data.key)]
  <2>5. local' = [local EXCEPT ![p] = l] /\ pc' = [pc EXCEPT ![p] = "it_test"]
    BY <1>1, <1>7, <2>4 DEF IterRead, Goto, Typing
  <2>6. Own(p) /\ pc'[p] = "it_test" /\ call'[p] = call[p] /\ local'[p] = l
        /\ out'[p] = out[p]
    <3> HIDE DEF l
    <3>1. QED
      BY <1>1, <1>2, <2>1, <2>5, OwnStep
  <2>7. Yielded(p)
    BY <2>1, <2>3, <2>6 DEF Yielded, Keeps, Quiet, Shared, From, Looks
  <2>8. QED
    BY <2>7 DEF Iterates
<1>8. QED
  BY <1>5, <1>6, <1>7

(* Every step of a process is one of these.                                *)
LEMMA NextMoves ==
  ASSUME IInv, Workable(scenario), Next
  PROVE  \E p \in Proc \ dead : Moves(p)
<1>1. PICK p \in Proc \ dead :
        \/ (Begin(p) \/ Step(p) \/ LockInterrupted(p)) /\ UNCHANGED <<scenario, dead>>
        \/ Crash(p)
  BY DEF Next
<1>2. Typing
  BY DEF IInv
<1>3. CASE Crash(p)
  <2>1. Crashed(p)
    BY <1>3 DEF Crash, Crashed, Quiet, Shared
  <2>2. QED
    BY <2>1 DEF Moves
<1>4. CASE (Begin(p) \/ Step(p) \/ LockInterrupted(p)) /\ UNCHANGED <<scenario, dead>>
  <2>1. CASE Begin(p) \/ Lock(p) \/ LockInterrupted(p) \/ Unlock(p)
    BY <1>2, <1>4, <2>1, CallSteps DEF Moves
  <2>2. CASE Bucket(p) \/ Walk(p)
    BY <1>4, <2>2, BucketStep, WalkStep DEF Moves
  <2>3. CASE Full(p) \/ Take(p) \/ Count(p)
    BY <1>4, <2>3, TakeSteps DEF Moves
  <2>4. CASE WrState(p) \/ WrNode(p) \/ RmState(p) \/ RmLink(p) \/ RmFirst(p) \/ Uncount(p)
    BY <1>4, <2>4, StoreSteps DEF Moves
  <2>5. CASE Link(p)
    BY <1>4, <2>5, LinkStep DEF Moves
  <2>6. CASE First(p) \/ Before(p) \/ UnlinkInner(p)
    BY <1>4, <2>6, FirstStep, BeforeSteps DEF Moves
  <2>7. CASE IterTest(p) \/ IterSkip(p) \/ IterRead(p)
    BY <1>4, <2>7, IterSteps DEF Moves
  <2>8. QED
    BY <1>4, <2>1, <2>2, <2>3, <2>4, <2>5, <2>6, <2>7 DEF Step
<1>5. QED
  BY <1>1, <1>3, <1>4
=============================================================================
