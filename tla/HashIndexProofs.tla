-------------------------- MODULE HashIndexProofs --------------------------
(***************************************************************************)
(* The invariants of HashIndex, for any number of processes, keys and      *)
(* nodes: each step of HashIndexSteps keeps each part of the inductive     *)
(* invariant.                                                              *)
(***************************************************************************)
EXTENDS HashIndexSteps

-----------------------------------------------------------------------------
(* What a step does to the slots.                                          *)

(* A store changes one slot and no word of the header.                     *)
LEMMA StoresSlots ==
  ASSUME Typing, NEW p, NEW i \in Indices, NEW r, Stores(p, i, r)
  PROVE  /\ nodes'.count = nodes.count /\ nodes'.firstFree = nodes.firstFree
         /\ \A k \in Indices : Slot(k)' = IF k = i THEN r ELSE Slot(k)
BY SlotTypes DEF Stores, Slot

(* A change of the header changes no slot.                                 *)
LEMMA HeadsSlots ==
  ASSUME Typing, NEW p, NEW n, NEW f, Heads(p, n, f)
  PROVE  /\ nodes'.count = n /\ nodes'.firstFree = f
         /\ \A k : Slot(k)' = Slot(k)
<1>1. /\ nodes' = [nodes EXCEPT !.count = n, !.firstFree = f]
      /\ nodes = [count |-> nodes.count, firstFree |-> nodes.firstFree, slot |-> nodes.slot]
  BY SlotTypes DEF Heads
<1>2. nodes'.count = n /\ nodes'.firstFree = f /\ nodes'.slot = nodes.slot
  BY <1>1
<1>3. QED
  BY <1>2 DEF Slot

-----------------------------------------------------------------------------
(* What a step does to the chains.                                         *)

(* A sequence that follows the links after a step is the chain after it.   *)
LEMMA ChainAfter ==
  ASSUME NEW C, \A b \in Buckets : IsChain(b, C[b])'
  PROVE  /\ Chains'
         /\ \A b \in Buckets : /\ Chain(b)' = C[b]
                               /\ InChain(b)' = {C[b][j] : j \in 1 .. Len(C[b])}
         /\ Chained' = UNION {{C[b][j] : j \in 1 .. Len(C[b])} : b \in Buckets}
<1>1. (\A b : \A c : IsChain(b, c) => Chain(b) = c)'
  BY ChainIs, PTL
<1>2. \A b \in Buckets : Chain(b)' = C[b]
  BY <1>1
<1>3. Chains'
  BY <1>2 DEF Chains
<1>4. \A b \in Buckets : InChain(b)' = {C[b][j] : j \in 1 .. Len(C[b])}
  <2>1. ASSUME NEW b \in Buckets PROVE InChain(b)' = {C[b][j] : j \in 1 .. Len(C[b])}
    <3>1. C[b] \in Seq(Indices)
      BY DEF IsChain
    <3>2. InChain(b)' = Seqs!ToSet(C[b])
      BY <1>2 DEF InChain
    <3>3. C[b] \in [1 .. Len(C[b]) -> Indices]
      BY <3>1, LenProperties
    <3>4. QED
      BY <3>2, <3>3 DEF Seqs!ToSet
  <2>2. QED
    BY <2>1
<1>5. Chained' = UNION {InChain(b)' : b \in Buckets}
  BY DEF Chained
<1>6. QED
  BY <1>2, <1>3, <1>4, <1>5

(* As long as no bucket and no chained node changes, no chain does.        *)
LEMMA ChainsStay ==
  ASSUME IInv, buckets' = buckets, \A i \in Chained : Slot(i)' = Slot(i)
  PROVE  /\ Chains' /\ Chained' = Chained
         /\ \A b \in Buckets : Chain(b)' = Chain(b) /\ InChain(b)' = InChain(b)
<1>1. PICK C : C = [b \in Buckets |-> Chain(b)]
  OBVIOUS
<1>2. \A b \in Buckets : IsChain(b, C[b])'
  <2>1. SUFFICES ASSUME NEW b \in Buckets PROVE IsChain(b, C[b])'
    OBVIOUS
  <2>2. C[b] = Chain(b)
    BY <1>1
  <2>3. IsChain(b, C[b])
    BY <2>2 DEF IInv, Chains
  <2>4. \A j \in 1 .. Len(C[b]) : Slot(C[b][j])' = Slot(C[b][j])
    BY <2>2, ChainFacts
  <2>5. \A j \in 1 .. Len(C[b]) : Complete(b, C[b][j], LinkTo(C[b], j + 1))'
    BY <2>3, <2>4 DEF IsChain, Complete, Slot
  <2>6. QED
    BY <2>3, <2>5 DEF IsChain
<1>3. /\ Chains'
      /\ \A b \in Buckets : /\ Chain(b)' = C[b]
                            /\ InChain(b)' = {C[b][j] : j \in 1 .. Len(C[b])}
  BY <1>2, ChainAfter
<1>4. \A b \in Buckets : Chain(b)' = Chain(b)
  BY <1>1, <1>3
<1>5. \A b \in Buckets : InChain(b)' = InChain(b)
  <2>1. SUFFICES ASSUME NEW b \in Buckets PROVE InChain(b)' = InChain(b)
    OBVIOUS
  <2>2. InChain(b) = {Chain(b)[j] : j \in 1 .. Len(Chain(b))}
    BY ChainFacts
  <2>3. C[b] = Chain(b)
    BY <1>1
  <2>4. InChain(b)' = {C[b][j] : j \in 1 .. Len(C[b])}
    BY <1>3
  <2>5. QED
    BY <2>2, <2>3, <2>4
<1>6. Chained' = Chained
  BY <1>5 DEF Chained
<1>7. QED
  BY <1>3, <1>4, <1>5, <1>6

(* The chain of an insertion gets its node at the end, the others stay.    *)
LEMMA LinkedChains ==
  ASSUME IInv, NEW p \in Proc \ dead, Linking(p)
  PROVE  /\ Chains' /\ Chained' = Chained \cup {Idx(p)} /\ Idx(p) \notin Chained
         /\ \A b \in Buckets : Chain(b)' = IF b = BucketOf(p) THEN Append(Chain(b), Idx(p))
                                           ELSE Chain(b)
         /\ nodes'.count = nodes.count /\ nodes'.firstFree = nodes.firstFree
         /\ \A k \in Indices : /\ Slot(k)'.state = Slot(k).state
                               /\ k \notin Chained => Slot(k)' = Slot(k)
<1>0. PICK b, c, i : b = BucketOf(p) /\ c = Chain(b) /\ i = Idx(p)
  OBVIOUS
<1> DEFINE n == Len(c)
<1>1. pc[p] = "link" /\ Typing /\ Insertion(p) /\ i \in Indices
      /\ local[p].from \in Node \cup {NoNode}
  BY <1>0, LocalTypes
     DEF IInv, Knowledge, Knows, Linking, LinkedFirst, LinkedLast, From
<1>2. b \in Buckets /\ call[p].key \in Key /\ call[p].position \in Position
      /\ Hash(call[p].key) = b
  BY <1>0, <1>1, CallTypes DEF BucketOf
<1>3. /\ i \notin Chained /\ Slot(i).state = "Occupied" /\ Slot(i).data = NewNode(p)
      /\ IF c = <<>> THEN local[p].at = None
         ELSE local[p].at = Some(c[n]) /\ local[p].from = Slot(At(local[p].at)).data
  BY <1>0, <1>1
     DEF IInv, Knowledge, Knows, Insertion, InHand, Inserting, NewNode, AtEnd, OwnChain
<1>4. /\ c \in Seq(Indices) /\ n \in Nat /\ buckets[b] = LinkTo(c, 1)
      /\ \A j \in 1 .. n : c[j] \in Indices /\ c[j] \in Chained
                           /\ Complete(b, c[j], LinkTo(c, j + 1))
      /\ \A j, k \in 1 .. n : c[j] = c[k] => j = k
      /\ InChain(b) = {c[j] : j \in 1 .. n}
  BY <1>0, <1>2, ChainFacts
<1>5. c = <<>> <=> n = 0
  BY <1>4, EmptySeq
<1>6. CASE LinkedFirst(p)
  <2>1. n = 0 /\ nodes' = nodes
    <3>1. local[p].at = None /\ nodes' = nodes
      BY <1>6 DEF LinkedFirst, Points
    <3>2. SUFFICES ASSUME n # 0 PROVE FALSE
      BY <3>1
    <3>3. local[p].at = Some(c[n]) /\ c[n] \in Indices
      BY <1>3, <1>4, <1>5, <3>2
    <3>4. QED
      BY <3>1, <3>3, Constants
  <2>2. /\ buckets'[b] = Some(i)
        /\ \A x \in Buckets \ {b} : buckets'[x] = buckets[x]
    BY <1>0, <1>1, <1>2, <1>6 DEF LinkedFirst, Points, Typing
  <2>3. QED
    <3>1. \A k : Slot(k)' = Slot(k)
      BY <2>1 DEF Slot
    <3>2. PICK C : C = [x \in Buckets |-> IF x = b THEN Append(c, i) ELSE Chain(x)]
      OBVIOUS
    <3>3. IsChain(b, C[b])'
      <4>1. C[b] = Append(c, i)
        BY <1>2, <3>2
      <4>2. Len(C[b]) = 1 /\ C[b][1] = i /\ C[b] \in Seq(Indices)
        BY <1>1, <1>4, <2>1, <4>1, AppendProperties
      <4>3. LinkTo(C[b], 1) = Some(i) /\ LinkTo(C[b], 2) = None
        BY <4>2 DEF LinkTo
      <4>4. Complete(b, i, None)'
        <5>1. NewNode(p) \in Node /\ NewNode(p).key = call[p].key /\ NewNode(p).next = None
          BY <1>2, Constants DEF NewNode, Node
        <5>2. Complete(b, i, None)
          BY <1>2, <1>3, <5>1 DEF Complete, Slot
        <5>3. QED
          BY <2>1, <5>2 DEF Complete
      <4>5. \A j \in 1 .. Len(C[b]) : j = 1
        BY <4>2
      <4>6. QED
        BY <2>2, <4>2, <4>3, <4>4, <4>5 DEF IsChain
    <3>4. \A x \in Buckets : IsChain(x, C[x])'
      <4>1. SUFFICES ASSUME NEW x \in Buckets, x # b PROVE IsChain(x, C[x])'
        BY <3>3
      <4>2. C[x] = Chain(x) /\ IsChain(x, C[x])
        BY <1>0, <3>2, <4>1 DEF IInv, Chains
      <4>3. QED
        BY <2>1, <2>2, <4>1, <4>2 DEF IsChain, Complete
    <3>5. Chains' /\ \A x \in Buckets : Chain(x)' = C[x]
                        /\ InChain(x)' = {C[x][j] : j \in 1 .. Len(C[x])}
      BY <3>4, ChainAfter
    <3>6. InChain(b)' = InChain(b) \cup {i}
      <4>1. C[b] = Append(c, i)
        BY <1>2, <3>2
      <4>2. Len(C[b]) = 1 /\ C[b][1] = i
        BY <1>1, <1>4, <2>1, <4>1, AppendProperties
      <4>3. InChain(b) = {}
        BY <1>4, <2>1
      <4>4. QED
        BY <1>2, <3>5, <4>2, <4>3
    <3>7. \A x \in Buckets \ {b} : InChain(x)' = InChain(x)
      <4>1. SUFFICES ASSUME NEW x \in Buckets, x # b PROVE InChain(x)' = InChain(x)
        OBVIOUS
      <4>2. InChain(x) = {Chain(x)[j] : j \in 1 .. Len(Chain(x))} /\ C[x] = Chain(x)
        BY <3>2, <4>1, ChainFacts
      <4>3. InChain(x)' = {C[x][j] : j \in 1 .. Len(C[x])}
        BY <3>5
      <4>4. QED
        BY <4>2, <4>3
    <3>8. Chained' = Chained \cup {i}
      BY <1>2, <3>6, <3>7 DEF Chained
    <3>9. QED
      BY <1>0, <1>3, <2>1, <3>1, <3>2, <3>5, <3>8
<1>7. CASE LinkedLast(p)
  <2>0. PICK last : last = At(local[p].at)
    OBVIOUS
  <2>1. n # 0 /\ last = c[n] /\ local[p].from = Slot(last).data
        /\ last \in Indices /\ last \in Chained
    <3>1. n # 0
      BY <1>3, <1>5, <1>7 DEF LinkedLast
    <3>2. local[p].at = Some(c[n]) /\ n \in 1 .. n
      BY <1>3, <1>4, <1>5, <3>1
    <3>3. last = c[n]
      BY <1>4, <2>0, <3>2, Constants
    <3>4. local[p].from = Slot(last).data
      BY <1>3, <1>5, <2>0, <3>1
    <3>5. QED
      BY <1>4, <3>1, <3>2, <3>3, <3>4
  <2>16. PICK d : d = [Slot(last).data EXCEPT !.next = Some(i)]
    OBVIOUS
  <2>2. Slot(last).data \in Node /\ Hash(Slot(last).data.key) = b
        /\ Slot(last).state = "Occupied"
    BY <1>4, <2>1 DEF Complete, Slot
  <2>3. d \in Node /\ d.key = Slot(last).data.key /\ d.next = Some(i)
    BY <1>1, <2>2, <2>16, Constants DEF Node
  <2>4. /\ buckets' = buckets /\ nodes'.count = nodes.count /\ nodes'.firstFree = nodes.firstFree
        /\ \A k \in Indices : Slot(k)' = IF k = last THEN N!Written(d) ELSE Slot(k)
    <3>1. Stores(p, last, N!Written(d))
      BY <1>0, <1>7, <2>1, <2>0, <2>16 DEF LinkedLast
    <3>2. buckets' = buckets
      BY <3>1 DEF Stores
    <3>3. QED
      <4>1. PICK r : r = N!Written(d)
        OBVIOUS
      <4>2. Stores(p, last, r)
        BY <3>1, <4>1
      <4>3. QED
        BY <1>1, <2>1, <3>2, <4>1, <4>2, StoresSlots
  <2>5. N!Written(d).state = "Occupied" /\ N!Written(d).data = d
    BY DEF N!Written
  <2>6. PICK C : C = [x \in Buckets |-> IF x = b THEN Append(c, i) ELSE Chain(x)]
    OBVIOUS
  <2>7. /\ C[b] = Append(c, i) /\ Len(C[b]) = n + 1 /\ C[b] \in Seq(Indices)
        /\ C[b][n + 1] = i /\ \A j \in 1 .. n : C[b][j] = c[j]
    BY <1>1, <1>2, <1>4, <2>6, AppendProperties
  <2>8. IsChain(b, C[b])'
    <3>1. \A j, k \in 1 .. Len(C[b]) : C[b][j] = C[b][k] => j = k
      <4>1. SUFFICES ASSUME NEW j \in 1 .. n + 1, NEW k \in 1 .. n + 1, C[b][j] = C[b][k]
                     PROVE  j = k
        BY <2>7
      <4>2. j = n + 1 \/ j \in 1 .. n
        BY <1>4
      <4>3. k = n + 1 \/ k \in 1 .. n
        BY <1>4
      <4>4. \A m \in 1 .. n : C[b][m] # i
        BY <1>3, <1>4, <2>7
      <4>5. QED
        BY <1>4, <2>7, <4>1, <4>2, <4>3, <4>4
    <3>2. buckets'[b] = LinkTo(C[b], 1)
      <4>1. LinkTo(C[b], 1) = Some(c[1]) /\ LinkTo(c, 1) = Some(c[1])
        BY <1>4, <2>1, <2>7 DEF LinkTo
      <4>2. QED
        BY <1>4, <2>4, <4>1
    <3>3. \A j \in 1 .. Len(C[b]) : Complete(b, C[b][j], LinkTo(C[b], j + 1))'
      <4>1. SUFFICES ASSUME NEW j \in 1 .. n + 1
                     PROVE  Complete(b, C[b][j], LinkTo(C[b], j + 1))'
        BY <2>7
      <4>2. CASE j = n + 1
        <5>1. C[b][j] = i /\ LinkTo(C[b], j + 1) = None
          BY <1>4, <2>7, <4>2 DEF LinkTo
        <5>2. Slot(i)' = Slot(i)
          BY <1>1, <1>3, <2>1, <2>4
        <5>3. NewNode(p) \in Node /\ NewNode(p).key = call[p].key /\ NewNode(p).next = None
          BY <1>2, Constants DEF NewNode, Node
        <5>4. Complete(b, i, None)'
          BY <1>2, <1>3, <5>2, <5>3 DEF Complete, Slot
        <5>5. QED
          BY <5>1, <5>4
      <4>3. CASE j = n
        <5>1. C[b][j] = last /\ LinkTo(C[b], j + 1) = Some(i) /\ j \in 1 .. n
          BY <1>4, <2>1, <2>7, <4>3 DEF LinkTo
        <5>2. Slot(last)' = N!Written(d)
          BY <2>1, <2>4
        <5>3. Complete(b, last, Some(i))'
          BY <2>2, <2>3, <2>5, <5>2 DEF Complete, Slot
        <5>4. QED
          BY <5>1, <5>3
      <4>4. CASE j \in 1 .. n - 1
        <5>1. j \in 1 .. n /\ j # n /\ j + 1 \in 1 .. n /\ n \in 1 .. n
          BY <1>4, <4>4
        <5>2. C[b][j] = c[j] /\ LinkTo(C[b], j + 1) = LinkTo(c, j + 1)
          BY <1>4, <2>7, <5>1 DEF LinkTo
        <5>3. c[j] # last /\ c[j] \in Indices
          BY <1>4, <2>1, <5>1
        <5>4. Slot(c[j])' = Slot(c[j])
          BY <2>4, <5>3
        <5>5. Complete(b, c[j], LinkTo(c, j + 1))'
          BY <1>4, <5>1, <5>4 DEF Complete, Slot
        <5>6. QED
          BY <5>2, <5>5
      <4>5. QED
        BY <1>4, <4>2, <4>3, <4>4
    <3>4. QED
      BY <2>7, <3>1, <3>2, <3>3 DEF IsChain
  <2>9. \A x \in Buckets : IsChain(x, C[x])'
    <3>1. SUFFICES ASSUME NEW x \in Buckets, x # b PROVE IsChain(x, C[x])'
      BY <2>8
    <3>2. C[x] = Chain(x) /\ IsChain(x, C[x])
      BY <1>0, <2>6, <3>1 DEF IInv, Chains
    <3>3. \A j \in 1 .. Len(C[x]) : Slot(C[x][j])' = Slot(C[x][j])
      <4>1. SUFFICES ASSUME NEW j \in 1 .. Len(C[x]) PROVE Slot(C[x][j])' = Slot(C[x][j])
        OBVIOUS
      <4>2. C[x][j] \in InChain(x) /\ C[x][j] \in Chained /\ C[x][j] \in Indices
        BY <3>2, ChainFacts
      <4>3. last \in InChain(b)
        BY <1>4, <2>1
      <4>4. C[x][j] # last
        BY <1>2, <2>1, <3>1, <4>2, <4>3, ChainedFacts
      <4>5. QED
        BY <2>4, <4>2, <4>4
    <3>4. \A j \in 1 .. Len(C[x]) : Complete(x, C[x][j], LinkTo(C[x], j + 1))'
      BY <3>2, <3>3 DEF IsChain, Complete, Slot
    <3>5. QED
      BY <2>4, <3>2, <3>4 DEF IsChain
  <2>10. Chains' /\ \A x \in Buckets : Chain(x)' = C[x]
                        /\ InChain(x)' = {C[x][j] : j \in 1 .. Len(C[x])}
    BY <2>9, ChainAfter
  <2>11. InChain(b)' = InChain(b) \cup {i}
    <3>1. InChain(b) = {c[j] : j \in 1 .. n}
      BY <1>4
    <3>2. InChain(b)' = {C[b][j] : j \in 1 .. n + 1}
      BY <1>2, <2>7, <2>10
    <3>3. 1 .. n + 1 = (1 .. n) \cup {n + 1}
      BY <1>4
    <3>4. QED
      BY <2>7, <3>1, <3>2, <3>3
  <2>12. \A x \in Buckets \ {b} : InChain(x)' = InChain(x)
    <3>1. SUFFICES ASSUME NEW x \in Buckets, x # b PROVE InChain(x)' = InChain(x)
      OBVIOUS
    <3>2. InChain(x) = {Chain(x)[j] : j \in 1 .. Len(Chain(x))} /\ C[x] = Chain(x)
      BY <2>6, <3>1, ChainFacts
    <3>3. InChain(x)' = {C[x][j] : j \in 1 .. Len(C[x])}
      BY <2>10
    <3>4. QED
      BY <3>2, <3>3
  <2>13. Chained' = Chained \cup {i}
    BY <1>2, <2>11, <2>12 DEF Chained
  <2>14. \A k \in Indices : /\ Slot(k)'.state = Slot(k).state
                            /\ k \notin Chained => Slot(k)' = Slot(k)
    BY <2>1, <2>2, <2>4, <2>5
  <2>15. QED
    BY <1>0, <1>3, <2>4, <2>6, <2>10, <2>13, <2>14
<1>8. QED
  BY <1>6, <1>7 DEF Linking

(* c without its j-th node.                                                *)
Without(c, j) == [k \in 1 .. Len(c) - 1 |-> IF k < j THEN c[k] ELSE c[k + 1]]

(* It is a sequence of the other nodes, in their order.                    *)
LEMMA WithoutFacts ==
  ASSUME NEW c \in Seq(Indices), NEW j \in 1 .. Len(c),
         \A k, m \in 1 .. Len(c) : c[k] = c[m] => k = m
  PROVE  /\ Without(c, j) \in Seq(Indices) /\ Len(Without(c, j)) = Len(c) - 1
         /\ \A k, m \in 1 .. Len(c) - 1 : Without(c, j)[k] = Without(c, j)[m] => k = m
         /\ \A k \in 1 .. Len(c) - 1 :
              /\ k < j => Without(c, j)[k] = c[k]
              /\ k >= j => Without(c, j)[k] = c[k + 1]
         /\ {Without(c, j)[k] : k \in 1 .. Len(c) - 1} = {c[k] : k \in 1 .. Len(c)} \ {c[j]}
<1> DEFINE w == Without(c, j)
           n == Len(c)
<1>1. n \in Nat \ {0} /\ n - 1 \in Nat /\ j \in Nat /\ \A k \in 1 .. n : c[k] \in Indices
  BY LenProperties
<1>2. \A k \in 1 .. n - 1 : w[k] = IF k < j THEN c[k] ELSE c[k + 1]
  BY DEF Without
<1>3. \A k \in 1 .. n - 1 : k \in 1 .. n /\ k + 1 \in 1 .. n
  BY <1>1
<1>4. \A k \in 1 .. n - 1 : w[k] \in Indices
  BY <1>1, <1>2, <1>3
<1>5. w \in [1 .. n - 1 -> Indices]
  BY <1>1, <1>4 DEF Without
<1>6. w \in Seq(Indices) /\ Len(w) = n - 1
  BY <1>1, <1>5, IsASeq, LenProperties
<1>7. \A k \in 1 .. n - 1 : (k < j => w[k] = c[k]) /\ (k >= j => w[k] = c[k + 1])
  BY <1>1, <1>2
<1> HIDE DEF w
<1>8. ASSUME NEW k \in 1 .. n - 1, NEW m \in 1 .. n - 1, w[k] = w[m] PROVE k = m
  <2>1. k \in 1 .. n /\ k + 1 \in 1 .. n /\ m \in 1 .. n /\ m + 1 \in 1 .. n
    BY <1>3
  <2>2. CASE k < j /\ m < j
    BY <1>7, <1>8, <2>1, <2>2
  <2>3. CASE k < j /\ m >= j
    <3>1. c[k] = c[m + 1]
      BY <1>7, <1>8, <2>3
    <3>2. k = m + 1
      BY <2>1, <3>1
    <3>3. QED
      BY <1>1, <2>3, <3>2
  <2>4. CASE k >= j /\ m < j
    <3>1. c[k + 1] = c[m]
      BY <1>7, <1>8, <2>4
    <3>2. k + 1 = m
      BY <2>1, <3>1
    <3>3. QED
      BY <1>1, <2>4, <3>2
  <2>5. CASE k >= j /\ m >= j
    <3>1. c[k + 1] = c[m + 1]
      BY <1>7, <1>8, <2>5
    <3>2. k + 1 = m + 1
      BY <2>1, <3>1
    <3>3. QED
      BY <1>1, <3>2
  <2>6. QED
    BY <1>1, <2>2, <2>3, <2>4, <2>5
<1>9. ASSUME NEW k \in 1 .. n - 1 PROVE \E m \in 1 .. n : m # j /\ w[k] = c[m]
  <2>1. CASE k < j
    BY <1>3, <1>7, <2>1
  <2>2. CASE k >= j
    <3>1. k + 1 \in 1 .. n /\ k + 1 # j /\ w[k] = c[k + 1]
      BY <1>1, <1>3, <1>7, <2>2
    <3>2. QED
      BY <3>1, Zenon
  <2>3. QED
    BY <1>1, <2>1, <2>2
<1>10. ASSUME NEW m \in 1 .. n, m # j PROVE \E k \in 1 .. n - 1 : w[k] = c[m]
  <2>1. CASE m < j
    <3>1. m \in 1 .. n - 1
      BY <1>1, <2>1
    <3>2. QED
      BY <1>7, <2>1, <3>1
  <2>2. CASE m > j
    <3>1. m - 1 \in 1 .. n - 1 /\ m - 1 >= j /\ m - 1 + 1 = m
      BY <1>1, <2>2
    <3>2. w[m - 1] = c[m]
      <4>1. w[m - 1] = c[m - 1 + 1]
        BY <1>7, <3>1
      <4>2. QED
        BY <3>1, <4>1
    <3>3. QED
      BY <3>1, <3>2, Zenon
  <2>3. QED
    BY <1>1, <1>10, <2>1, <2>2
<1>11. {w[k] : k \in 1 .. n - 1} = {c[k] : k \in 1 .. n} \ {c[j]}
  <2>1. \A x : x \in {w[k] : k \in 1 .. n - 1} <=> \E m \in 1 .. n : m # j /\ x = c[m]
    <3>1. ASSUME NEW x, x \in {w[k] : k \in 1 .. n - 1}
          PROVE  \E m \in 1 .. n : m # j /\ x = c[m]
      <4>1. PICK k \in 1 .. n - 1 : x = w[k]
        BY <3>1
      <4>2. PICK m \in 1 .. n : m # j /\ w[k] = c[m]
        BY <1>9, <4>1
      <4>3. QED
        BY <4>1, <4>2
    <3>2. ASSUME NEW m \in 1 .. n, m # j PROVE c[m] \in {w[k] : k \in 1 .. n - 1}
      <4>1. PICK k \in 1 .. n - 1 : w[k] = c[m]
        BY <1>10, <3>2
      <4>2. QED
        BY <4>1
    <3>3. QED
      BY <3>1, <3>2
  <2>2. \A x : x \in {c[k] : k \in 1 .. n} \ {c[j]} <=> \E m \in 1 .. n : m # j /\ x = c[m]
    OBVIOUS
  <2>3. QED
    BY <2>1, <2>2
<1>12. QED
  BY <1>6, <1>7, <1>8, <1>11 DEF w

(* The chain of a removal loses its node, the others stay.                 *)
LEMMA UnlinkedChains ==
  ASSUME IInv, NEW p \in Proc \ dead, UnlinkingStep(p)
  PROVE  /\ Chains' /\ Chained' = Chained \ {Idx(p)} /\ Idx(p) \in Chained
         /\ BucketOf(p) \in Buckets
         /\ \E j \in 1 .. Len(OwnChain(p)) :
              /\ Idx(p) = OwnChain(p)[j]
              /\ \A b \in Buckets : Chain(b)' = IF b = BucketOf(p) THEN Without(Chain(b), j)
                                                ELSE Chain(b)
         /\ nodes'.count = nodes.count /\ nodes'.firstFree = nodes.firstFree
         /\ \A k \in Indices : /\ Slot(k)'.state = Slot(k).state
                               /\ k \notin Chained => Slot(k)' = Slot(k)
<1>0. PICK b, c, i, o : b = BucketOf(p) /\ c = Chain(b) /\ i = Idx(p) /\ o = local[p].after
  OBVIOUS
<1> DEFINE n == Len(c)
<1>1. pc[p] \in {"first", "unlink"} /\ Typing /\ i \in Indices /\ o \in Offset
      /\ local[p].from \in Node \cup {NoNode}
  BY <1>0, LocalTypes DEF IInv, UnlinkingStep, UnlinkedFirst, UnlinkedInner, From
<1>2. b \in Buckets
  BY <1>0, <1>1, CallTypes
<1>3. PICK j \in 1 .. n :
        /\ i = c[j] /\ o = LinkTo(c, j + 1)
        /\ pc[p] = "unlink" => /\ j > 1 /\ local[p].at = Some(c[j - 1])
                               /\ At(local[p].at) = c[j - 1]
                               /\ local[p].from = Slot(c[j - 1]).data
  BY <1>0, <1>1, RemovalAt DEF OwnChain
<1>4. /\ c \in Seq(Indices) /\ n \in Nat /\ buckets[b] = LinkTo(c, 1)
      /\ \A k \in 1 .. n : c[k] \in Indices /\ c[k] \in Chained
                           /\ Complete(b, c[k], LinkTo(c, k + 1))
      /\ \A k, m \in 1 .. n : c[k] = c[m] => k = m
      /\ InChain(b) = {c[k] : k \in 1 .. n}
  BY <1>0, <1>2, ChainFacts
<1> DEFINE w == Without(c, j)
<1>5. w = Without(c, j)
  OBVIOUS
<1>6. /\ w \in Seq(Indices) /\ Len(w) = n - 1
      /\ \A k, m \in 1 .. n - 1 : w[k] = w[m] => k = m
      /\ \A k \in 1 .. n - 1 : (k < j => w[k] = c[k]) /\ (k >= j => w[k] = c[k + 1])
      /\ {w[k] : k \in 1 .. n - 1} = {c[k] : k \in 1 .. n} \ {c[j]}
  <2>1. /\ c \in Seq(Indices) /\ j \in 1 .. Len(c)
        /\ \A k, m \in 1 .. Len(c) : c[k] = c[m] => k = m
    BY <1>3, <1>4
  <2>2. QED
    BY <2>1, WithoutFacts, Zenon
<1> HIDE DEF w
<1>7. /\ \A k \in 1 .. n : k < j => LinkTo(w, k) = LinkTo(c, k)
      /\ \A k \in 1 .. n : k >= j => LinkTo(w, k) = LinkTo(c, k + 1)
  <2>1. SUFFICES ASSUME NEW k \in 1 .. n
                 PROVE  /\ k < j => LinkTo(w, k) = LinkTo(c, k)
                        /\ k >= j => LinkTo(w, k) = LinkTo(c, k + 1)
    OBVIOUS
  <2>2. CASE k < j
    <3>1. k \in 1 .. n - 1 /\ ~(k > n - 1) /\ ~(k > n)
      BY <1>4, <2>2
    <3>2. QED
      BY <1>4, <1>6, <2>2, <3>1 DEF LinkTo
  <2>3. CASE k >= j /\ k = n
    BY <1>4, <1>6, <2>3 DEF LinkTo
  <2>4. CASE k >= j /\ k # n
    <3>1. k \in 1 .. n - 1 /\ ~(k > n - 1) /\ ~(k + 1 > n)
      BY <1>4, <2>4
    <3>2. QED
      BY <1>4, <1>6, <2>4, <3>1 DEF LinkTo
  <2>5. QED
    BY <2>2, <2>3, <2>4
(* What holds of the new links, however the node was unlinked. *)
<1>8. ASSUME buckets'[b] = LinkTo(w, 1),
             \A x \in Buckets \ {b} : buckets'[x] = buckets[x],
             \A k \in Indices : k \notin InChain(b) => Slot(k)' = Slot(k),
             \A k \in 1 .. n : k # j => Complete(b, c[k], IF k = j - 1 THEN LinkTo(w, j)
                                                          ELSE LinkTo(c, k + 1))'
      PROVE  /\ Chains' /\ Chained' = Chained \ {i}
             /\ \A x \in Buckets : Chain(x)' = IF x = b THEN w ELSE Chain(x)
  <2>1. PICK C : C = [x \in Buckets |-> IF x = b THEN w ELSE Chain(x)]
    OBVIOUS
  <2>2. IsChain(b, C[b])'
    <3>1. C[b] = w
      BY <1>2, <2>1
    <3>2. ASSUME NEW k \in 1 .. n - 1 PROVE Complete(b, w[k], LinkTo(w, k + 1))'
      <4>1. CASE k < j - 1
        <5>1. k \in 1 .. n /\ k # j /\ k # j - 1 /\ k < j /\ k + 1 < j /\ k + 1 \in 1 .. n
          BY <1>4, <4>1
        <5>2. w[k] = c[k] /\ LinkTo(w, k + 1) = LinkTo(c, k + 1)
          BY <1>6, <1>7, <5>1
        <5>3. QED
          BY <1>8, <5>1, <5>2
      <4>2. CASE k = j - 1
        <5>1. k \in 1 .. n /\ k # j /\ k < j /\ k + 1 = j
          BY <1>4, <4>2
        <5>2. w[k] = c[k]
          BY <1>6, <5>1
        <5>3. QED
          BY <1>8, <4>2, <5>1, <5>2
      <4>3. CASE k >= j
        <5>1. k + 1 \in 1 .. n /\ k + 1 # j /\ k + 1 # j - 1 /\ k + 1 >= j
          BY <1>4, <4>3
        <5>2. w[k] = c[k + 1] /\ LinkTo(w, k + 1) = LinkTo(c, k + 1 + 1)
          BY <1>6, <1>7, <4>3, <5>1
        <5>3. QED
          BY <1>8, <5>1, <5>2
      <4>4. QED
        BY <4>1, <4>2, <4>3
    <3>3. QED
      BY <1>6, <1>8, <3>1, <3>2 DEF IsChain
  <2>3. \A x \in Buckets : IsChain(x, C[x])'
    <3>1. SUFFICES ASSUME NEW x \in Buckets, x # b PROVE IsChain(x, C[x])'
      BY <2>2
    <3>2. C[x] = Chain(x) /\ IsChain(x, C[x])
      BY <2>1, <3>1 DEF IInv, Chains
    <3>3. \A k \in 1 .. Len(C[x]) : Slot(C[x][k])' = Slot(C[x][k])
      <4>1. SUFFICES ASSUME NEW k \in 1 .. Len(C[x]) PROVE Slot(C[x][k])' = Slot(C[x][k])
        OBVIOUS
      <4>2. C[x][k] \in InChain(x) /\ C[x][k] \in Chained /\ C[x][k] \in Indices
        BY <3>2, ChainFacts
      <4>3. C[x][k] \notin InChain(b)
        BY <1>2, <3>1, <4>2, ChainedFacts
      <4>4. QED
        BY <1>8, <4>2, <4>3
    <3>4. \A k \in 1 .. Len(C[x]) : Complete(x, C[x][k], LinkTo(C[x], k + 1))'
      BY <3>2, <3>3 DEF IsChain, Complete, Slot
    <3>5. QED
      BY <1>8, <3>1, <3>2, <3>4 DEF IsChain
  <2>4. Chains' /\ \A x \in Buckets : Chain(x)' = C[x]
                       /\ InChain(x)' = {C[x][k] : k \in 1 .. Len(C[x])}
    BY <2>3, ChainAfter
  <2>5. InChain(b)' = InChain(b) \ {i}
    <3>1. C[b] = w
      BY <1>2, <2>1
    <3>2. InChain(b)' = {w[k] : k \in 1 .. n - 1}
      BY <1>2, <1>6, <2>4, <3>1
    <3>3. QED
      BY <1>3, <1>4, <1>6, <3>2
  <2>6. \A x \in Buckets \ {b} : InChain(x)' = InChain(x)
    <3>1. SUFFICES ASSUME NEW x \in Buckets, x # b PROVE InChain(x)' = InChain(x)
      OBVIOUS
    <3>2. InChain(x) = {Chain(x)[k] : k \in 1 .. Len(Chain(x))} /\ C[x] = Chain(x)
      BY <2>1, <3>1, ChainFacts
    <3>3. InChain(x)' = {C[x][k] : k \in 1 .. Len(C[x])}
      BY <2>4
    <3>4. QED
      BY <3>2, <3>3
  <2>7. \A x \in Buckets \ {b} : i \notin InChain(x)
    <3>1. i \in InChain(b) /\ i \in Chained
      BY <1>3, <1>4
    <3>2. QED
      BY <1>2, <3>1, ChainedFacts
  <2>8. Chained' = Chained \ {i}
    BY <1>2, <2>5, <2>6, <2>7 DEF Chained
  <2>9. QED
    BY <2>1, <2>4, <2>8
<1>9. CASE UnlinkedFirst(p)
  <2>1. /\ nodes' = nodes /\ \A k : Slot(k)' = Slot(k)
        /\ buckets'[b] = o /\ \A x \in Buckets \ {b} : buckets'[x] = buckets[x]
        /\ buckets[b] = Some(i)
    BY <1>0, <1>1, <1>2, <1>9 DEF UnlinkedFirst, Points, Typing, Slot
  <2>2. j = 1
    <3>1. 1 \in 1 .. n /\ LinkTo(c, 1) = Some(c[1])
      BY <1>3, <1>4 DEF LinkTo
    <3>2. c[1] = i
      <4>1. Some(c[1]) = Some(i) /\ c[1] \in Indices
        BY <1>4, <2>1, <3>1
      <4>2. QED
        BY <1>1, <4>1, Constants
    <3>3. QED
      BY <1>3, <1>4, <3>1, <3>2
  <2>3. LinkTo(w, 1) = o
    BY <1>3, <1>7, <2>2
  <2>4. \A k \in 1 .. n : k # j => Complete(b, c[k], IF k = j - 1 THEN LinkTo(w, j)
                                                    ELSE LinkTo(c, k + 1))'
    <3>1. \A k \in 1 .. n : k # j - 1
      BY <2>2
    <3>2. QED
      BY <1>4, <2>1, <3>1 DEF Complete
  <2>5. /\ Chains' /\ Chained' = Chained \ {i}
        /\ \A x \in Buckets : Chain(x)' = IF x = b THEN w ELSE Chain(x)
    BY <1>8, <2>1, <2>3, <2>4
  <2>6. QED
    BY <1>0, <1>2, <1>3, <1>4, <1>5, <2>1, <2>5 DEF OwnChain
<1>10. CASE UnlinkedInner(p)
  <2>1. PICK last, d : last = At(local[p].at) /\ d = [local[p].from EXCEPT !.next = o]
    OBVIOUS
  <2>2. /\ j > 1 /\ j - 1 \in 1 .. n /\ last = c[j - 1] /\ local[p].from = Slot(last).data
        /\ last \in Indices /\ last \in Chained /\ last \in InChain(b)
        /\ Complete(b, last, LinkTo(c, j))
    <3>1. j > 1 /\ last = c[j - 1] /\ local[p].from = Slot(last).data
      BY <1>3, <1>10, <2>1 DEF UnlinkedInner, From
    <3>2. j - 1 \in 1 .. n /\ j - 1 + 1 = j
      BY <1>4, <3>1
    <3>3. QED
      BY <1>4, <3>1, <3>2
  <2>3. Slot(last).data \in Node /\ Hash(Slot(last).data.key) = b
        /\ Slot(last).state = "Occupied"
    BY <2>2 DEF Complete, Slot
  <2>4. d \in Node /\ d.key = Slot(last).data.key /\ d.next = o
    BY <1>1, <2>1, <2>2, <2>3 DEF Node
  <2>5. /\ buckets' = buckets /\ nodes'.count = nodes.count /\ nodes'.firstFree = nodes.firstFree
        /\ \A k \in Indices : Slot(k)' = IF k = last THEN N!Written(d) ELSE Slot(k)
    <3>1. PICK r : r = N!Written(d)
      OBVIOUS
    <3>2. Stores(p, last, r) /\ buckets' = buckets
      BY <1>0, <1>10, <2>1, <3>1 DEF UnlinkedInner, Stores
    <3>3. Typing /\ last \in Indices
      BY <1>1, <2>2
    <3>4. /\ nodes'.count = nodes.count /\ nodes'.firstFree = nodes.firstFree
          /\ \A k \in Indices : Slot(k)' = IF k = last THEN r ELSE Slot(k)
      BY <3>2, <3>3, StoresSlots
    <3>5. QED
      BY <3>1, <3>2, <3>4
  <2>6. N!Written(d).state = "Occupied" /\ N!Written(d).data = d
    BY DEF N!Written
  <2>7. buckets'[b] = LinkTo(w, 1) /\ \A x \in Buckets \ {b} : buckets'[x] = buckets[x]
    <3>1. 1 \in 1 .. n /\ 1 < j
      BY <1>4, <2>2
    <3>2. QED
      BY <1>4, <1>7, <2>5, <3>1
  <2>8. ASSUME NEW k \in 1 .. n, k # j
        PROVE  Complete(b, c[k], IF k = j - 1 THEN LinkTo(w, j) ELSE LinkTo(c, k + 1))'
    <3>1. CASE k = j - 1
      <4>1. LinkTo(w, j) = o
        BY <1>3, <1>7
      <4>2. Slot(last)' = N!Written(d)
        BY <2>2, <2>5
      <4>3. Complete(b, last, o)'
        BY <2>3, <2>4, <2>6, <4>2 DEF Complete, Slot
      <4>4. QED
        BY <2>2, <3>1, <4>1, <4>3
    <3>2. CASE k # j - 1
      <4>1. c[k] # last /\ c[k] \in Indices
        BY <1>4, <2>2, <3>2
      <4>2. Slot(c[k])' = Slot(c[k])
        BY <2>5, <4>1
      <4>3. Complete(b, c[k], LinkTo(c, k + 1))'
        BY <1>4, <4>2 DEF Complete, Slot
      <4>4. QED
        BY <3>2, <4>3
    <3>3. QED
      BY <3>1, <3>2
  <2>9. \A k \in Indices : k \notin InChain(b) => Slot(k)' = Slot(k)
    BY <2>2, <2>5
  <2>10. /\ Chains' /\ Chained' = Chained \ {i}
         /\ \A x \in Buckets : Chain(x)' = IF x = b THEN w ELSE Chain(x)
    BY <1>8, <2>7, <2>8, <2>9
  <2>11. \A k \in Indices : /\ Slot(k)'.state = Slot(k).state
                            /\ k \notin Chained => Slot(k)' = Slot(k)
    BY <2>2, <2>3, <2>5, <2>6
  <2>12. QED
    BY <1>0, <1>2, <1>3, <1>4, <1>5, <2>5, <2>10, <2>11 DEF OwnChain
<1>11. QED
  BY <1>9, <1>10 DEF UnlinkingStep

-----------------------------------------------------------------------------
(* Types after a step.                                                     *)

(* The last node of an insertion's chain, or a removal's node before, is   *)
(* complete in the copy too.                                               *)
LEMMA CopyTypes ==
  ASSUME IInv, NEW p \in Proc \ dead,
         pc[p] = "unlink" \/ (pc[p] = "link" /\ local[p].at # None)
  PROVE  At(local[p].at) \in Indices /\ At(local[p].at) \in Chained
         /\ local[p].from \in Node /\ local[p].from = Slot(At(local[p].at)).data
<1>1. BucketOf(p) \in Buckets
  BY CallTypes
<1> DEFINE c == OwnChain(p)
           n == Len(c)
<1>2. /\ n \in Nat /\ c \in Seq(Indices)
      /\ \A j \in 1 .. n : c[j] \in Indices /\ c[j] \in Chained /\ Slot(c[j]).data \in Node
  <2>1. \A j \in 1 .. n : c[j] \in Indices /\ c[j] \in Chained
    BY <1>1, ChainFacts DEF OwnChain
  <2>2. QED
    BY <1>1, <2>1, ChainFacts, ChainedFacts DEF OwnChain
<1>3. CASE pc[p] = "unlink"
  <2>1. PICK j \in 1 .. n : /\ j > 1 /\ At(local[p].at) = c[j - 1]
                            /\ local[p].from = Slot(c[j - 1]).data
    BY <1>3, RemovalAt
  <2>2. j - 1 \in 1 .. n
    BY <1>2, <2>1
  <2>3. QED
    BY <1>2, <2>1, <2>2
<1>4. CASE pc[p] = "link" /\ local[p].at # None
  <2>1. AtEnd(p)
    BY <1>4 DEF IInv, Knowledge, Knows, Insertion, Inserting
  <2>2. c # <<>> /\ local[p].at = Some(c[n]) /\ local[p].from = Slot(At(local[p].at)).data
    BY <1>4, <2>1 DEF AtEnd
  <2>3. n \in 1 .. n
    BY <1>2, <2>2, EmptySeq
  <2>4. At(local[p].at) = c[n]
    BY <1>2, <2>2, <2>3, Constants
  <2>5. QED
    BY <1>2, <2>2, <2>3, <2>4
<1>5. QED
  BY <1>3, <1>4

(* Slots of the array hold what slots hold.                                *)
LEMMA WrittenTypes ==
  ASSUME NEW d \in Node
  PROVE  /\ N!Written(d) \in N!SlotMetadata
         /\ N!Written(d).state = "Occupied" /\ N!Written(d).data = d
BY DEF N!Written, N!SlotMetadata

(* One slot is replaced.                                                   *)
LEMMA StoresTypes ==
  ASSUME Typing, NEW p, NEW i \in Indices, NEW r \in N!SlotMetadata, Stores(p, i, r)
  PROVE  nodes' \in N!SlotsHeader
<1>1. nodes \in [count : Nat, firstFree : Nat, slot : [Indices -> N!SlotMetadata]]
  BY DEF Typing, N!SlotsHeader, N!Indices, Indices
<1>2. nodes' = [nodes EXCEPT !.slot[i] = r]
  BY DEF Stores
<1>3. nodes' \in [count : Nat, firstFree : Nat, slot : [Indices -> N!SlotMetadata]]
  BY <1>1, <1>2
<1>4. QED
  BY <1>3 DEF N!SlotsHeader, N!Indices, Indices

(* The head of the list is replaced.                                       *)
LEMMA HeadsTypes ==
  ASSUME Typing, NEW p, NEW n \in Nat, NEW f \in Nat, Heads(p, n, f)
  PROVE  nodes' \in N!SlotsHeader
<1>1. nodes \in [count : Nat, firstFree : Nat, slot : [Indices -> N!SlotMetadata]]
  BY DEF Typing, N!SlotsHeader, N!Indices, Indices
<1>2. nodes' = [nodes EXCEPT !.count = n, !.firstFree = f]
  BY DEF Heads
<1>3. nodes' \in [count : Nat, firstFree : Nat, slot : [Indices -> N!SlotMetadata]]
  BY <1>1, <1>2
<1>4. QED
  BY <1>3 DEF N!SlotsHeader, N!Indices, Indices

(* The nodes remain a slot array.                                          *)
LEMMA NodesTyping ==
  ASSUME IInv, NEW p \in Proc \ dead, Moves(p)
  PROVE  nodes' \in N!SlotsHeader
<1>1. Typing /\ Idx(p) \in Indices /\ Idx(p) \in Nat /\ nodes.count \in Nat
      /\ nodes.firstFree \in Nat /\ local[p].tmp \in Nat
  BY LocalTypes, SlotTypes, Constants DEF IInv, Offset, Indices
<1>2. CASE nodes' = nodes
  BY <1>1, <1>2 DEF Typing
<1>3. CASE Heading(p)
  <2>1. CASE TookHead(p)
    <3>1. Heads(p, nodes.count, Slot(nodes.firstFree).size) /\ nodes.firstFree \in Indices
      BY <2>1 DEF TookHead
    <3>2. Slot(nodes.firstFree).size \in Nat
      BY <1>1, <3>1, SlotTypes
    <3>3. QED
      BY <1>1, <3>1, <3>2, HeadsTypes
  <2>2. CASE CountedUp(p)
    <3>1. Heads(p, nodes.count + 1, nodes.firstFree) /\ nodes.count + 1 \in Nat
      BY <1>1, <2>2 DEF CountedUp
    <3>2. QED
      BY <1>1, <3>1, HeadsTypes
  <2>3. CASE Pushed(p)
    <3>1. Heads(p, nodes.count, Idx(p))
      BY <2>3 DEF Pushed
    <3>2. QED
      BY <1>1, <3>1, HeadsTypes
  <2>4. CASE CountedDown(p)
    <3>1. Heads(p, nodes.count - 1, nodes.firstFree) /\ Unlinked(p)
      BY <2>4 DEF CountedDown, From, Unlinked
    <3>2. nodes.count >= Cardinality(Chained) + 1
      BY <3>1 DEF IInv, Counted, Ticks, AnyUnlinked
    <3>3. nodes.count - 1 \in Nat
      BY <1>1, <3>2, ChainedFacts
    <3>4. QED
      BY <1>1, <3>1, <3>3, HeadsTypes
  <2>5. QED
    BY <1>3, <2>1, <2>2, <2>3, <2>4 DEF Heading
<1>4. CASE Storing(p)
  <2>1. Slot(Idx(p)) \in [state : {"Free", "Occupied"}, size : Nat, data : Node \cup {NoNode}]
    BY <1>1, SlotTypes DEF N!SlotMetadata
  <2>2. CASE WroteState(p)
    <3>1. [Slot(Idx(p)) EXCEPT !.state = "Occupied"] \in N!SlotMetadata
      BY <2>1 DEF N!SlotMetadata
    <3>2. QED
      BY <1>1, <2>2, <3>1, StoresTypes DEF WroteState
  <2>3. CASE WroteNode(p)
    <3>1. pc[p] # "idle"
      BY <2>3 DEF WroteNode, From
    <3>2. NewNode(p) \in Node
      BY <3>1, CallTypes, Constants DEF NewNode, Node
    <3>3. QED
      BY <1>1, <2>3, <3>2, WrittenTypes, StoresTypes DEF WroteNode
  <2>4. CASE WroteFree(p)
    <3>1. [Slot(Idx(p)) EXCEPT !.state = "Free", !.data = NoNode] \in N!SlotMetadata
      BY <2>1 DEF N!SlotMetadata
    <3>2. QED
      BY <1>1, <2>4, <3>1, StoresTypes DEF WroteFree
  <2>5. CASE WroteLink(p)
    <3>1. [Slot(Idx(p)) EXCEPT !.size = local[p].tmp] \in N!SlotMetadata
      BY <1>1, <2>1 DEF N!SlotMetadata
    <3>2. QED
      BY <1>1, <2>5, <3>1, StoresTypes DEF WroteLink
  <2>6. QED
    BY <1>4, <2>2, <2>3, <2>4, <2>5 DEF Storing
<1>5. CASE LinkedLast(p)
  <2>1. PICK d : d = [local[p].from EXCEPT !.next = Some(Idx(p))]
    OBVIOUS
  <2>2. At(local[p].at) \in Indices /\ local[p].from \in Node
    BY <1>5, CopyTypes DEF LinkedLast, From
  <2>3. d \in Node
    BY <1>1, <2>1, <2>2, Constants DEF Node
  <2>4. Stores(p, At(local[p].at), N!Written(d))
    BY <1>5, <2>1 DEF LinkedLast
  <2>5. QED
    BY <1>1, <2>2, <2>3, <2>4, WrittenTypes, StoresTypes
<1>6. CASE UnlinkedInner(p)
  <2>1. PICK d : d = [local[p].from EXCEPT !.next = local[p].after]
    OBVIOUS
  <2>2. At(local[p].at) \in Indices /\ local[p].from \in Node
    BY <1>6, CopyTypes DEF UnlinkedInner, From
  <2>3. d \in Node
    BY <1>1, <2>1, <2>2, LocalTypes DEF Node
  <2>4. Stores(p, At(local[p].at), N!Written(d))
    BY <1>6, <2>1 DEF UnlinkedInner
  <2>5. QED
    BY <1>1, <2>2, <2>3, <2>4, WrittenTypes, StoresTypes
<1>7. CASE Calling(p) \/ Walking(p) \/ Iterates(p) \/ Crashed(p)
  BY <1>2, <1>7
     DEF Calling, Walking, Iterates, Crashed, Keeps, Quiet, Began, Locked, Interrupted,
         Unlocked, Answered, Entered, FoundEmpty, Hit, WentOn, FoundEnd, FoundRoom, Strayed,
         NotFirst, NotBefore, FoundBefore, Tested, Skipped, Stopped, Yielded
<1>8. CASE LinkedFirst(p) \/ UnlinkedFirst(p)
  BY <1>2, <1>8 DEF LinkedFirst, UnlinkedFirst, Points
<1>9. QED
  BY <1>3, <1>4, <1>5, <1>6, <1>7, <1>8 DEF Moves, Linking, UnlinkingStep

(* The local variables remain what they are.                               *)
LEMMA LocalTyping ==
  ASSUME IInv, NEW p \in Proc \ dead, Moves(p)
  PROVE  local' \in [Proc -> Locals]
<1> DEFINE l == local[p]
<1>1. /\ Typing /\ l \in Locals /\ l.at \in Offset /\ l.from \in Node \cup {NoNode}
      /\ l.idx \in Indices /\ l.after \in Offset /\ l.tmp \in Offset /\ l.seen \in Seq(Key)
      /\ local \in [Proc -> Locals]
  BY LocalTypes DEF IInv, Typing
<1>2. ASSUME Own(p), local'[p] \in Locals PROVE local' \in [Proc -> Locals]
  BY <1>1, <1>2 DEF Own
<1>3. NoLocals \in Locals
  <2>1. 0 \in Indices /\ <<>> \in Seq(Key)
    BY Constants, EmptySeq DEF Indices
  <2>2. QED
    BY <2>1, Constants DEF NoLocals, Locals
<1>4. CASE Calling(p)
  BY <1>1, <1>2, <1>3, <1>4
     DEF Calling, Began, Locked, Interrupted, Unlocked, Answered, Keeps, Same
<1>5. CASE Heading(p) \/ Linking(p) \/ UnlinkingStep(p) \/ Storing(p)
  <2>1. CASE TookHead(p)
    <3>1. Own(p) /\ local'[p] = [l EXCEPT !.idx = nodes.firstFree] /\ nodes.firstFree \in Indices
      BY <2>1 DEF TookHead, Heads, Looks
    <3>2. QED
      BY <1>1, <1>2, <3>1 DEF Locals
  <2>2. CASE WroteFree(p)
    <3>1. Own(p) /\ local'[p] = [l EXCEPT !.tmp = nodes.firstFree] /\ pc[p] = "rm_state"
      BY <2>2 DEF WroteFree, Stores, Looks, From
    <3>2. nodes.firstFree \in Offset
      <4>1. PICK n \in 0 .. Capacity : \E order \in [1 .. n + 1 -> 0 .. Capacity] :
              IsList(n, order)
        BY DEF IInv, Listed
      <4>2. PICK order \in [1 .. n + 1 -> 0 .. Capacity] : IsList(n, order)
        BY <4>1
      <4>3. order[1] = nodes.firstFree /\ 1 \in 1 .. n + 1
        BY <4>2, Constants DEF IsList
      <4>4. QED
        BY <4>2, <4>3 DEF Offset
    <3>3. QED
      BY <1>1, <1>2, <3>1, <3>2 DEF Locals
  <2>3. CASE CountedUp(p) \/ Pushed(p) \/ CountedDown(p) \/ Linking(p) \/ UnlinkingStep(p)
             \/ WroteState(p) \/ WroteNode(p) \/ WroteLink(p)
    <3>1. Own(p) /\ local'[p] = l
      BY <2>3 DEF CountedUp, Pushed, CountedDown, Heads, Same, Linking, LinkedFirst, LinkedLast,
                  UnlinkingStep, UnlinkedFirst, UnlinkedInner, Points, Stores, WroteState,
                  WroteNode, WroteLink
    <3>2. QED
      BY <1>1, <1>2, <3>1
  <2>4. QED
    BY <1>5, <2>1, <2>2, <2>3 DEF Heading, Storing
<1>6. CASE Walking(p)
  <2>1. Own(p)
    BY <1>6 DEF Walking, Entered, FoundEmpty, Hit, WentOn, FoundEnd, FoundRoom, Strayed,
                NotFirst, NotBefore, FoundBefore, Keeps
  <2>2. CASE FoundRoom(p) \/ Strayed(p)
    BY <1>1, <1>2, <2>1, <2>2 DEF FoundRoom, Strayed, Same
  <2>3. CASE Entered(p) \/ FoundEmpty(p) \/ NotFirst(p)
    <3>1. pc[p] # "idle"
      BY <2>3 DEF Entered, FoundEmpty, NotFirst, From
    <3>2. buckets[BucketOf(p)] \in Offset
      BY <1>1, <3>1, CallTypes DEF Typing
    <3>3. \E o \in Offset : local'[p] = [l EXCEPT !.at = o]
      BY <2>3, <3>2, Constants DEF Entered, FoundEmpty, NotFirst, Looks
    <3>4. QED
      BY <1>1, <1>2, <2>1, <3>3 DEF Locals
  <2>4. CASE Hit(p) \/ WentOn(p) \/ FoundEnd(p)
    <3>1. pc[p] = "walk"
      BY <2>4 DEF Hit, WentOn, FoundEnd, From
    <3>2. At(l.at) \in Indices /\ Visited(p) \in Node /\ Visited(p).next \in Offset
      BY <3>1, WalkAt
    <3>3. CASE Hit(p)
      <4>1. local'[p] = [l EXCEPT !.idx = At(l.at), !.after = Visited(p).next]
        BY <3>3 DEF Hit, Looks
      <4>2. QED
        BY <1>1, <1>2, <2>1, <3>2, <4>1 DEF Locals
    <3>4. CASE WentOn(p)
      <4>1. local'[p] = [l EXCEPT !.at = Visited(p).next]
        BY <3>4 DEF WentOn, Looks
      <4>2. QED
        BY <1>1, <1>2, <2>1, <3>2, <4>1 DEF Locals
    <3>5. CASE FoundEnd(p)
      <4>1. local'[p] = [l EXCEPT !.from = Visited(p)]
        BY <3>5 DEF FoundEnd, Looks
      <4>2. QED
        BY <1>1, <1>2, <2>1, <3>2, <4>1 DEF Locals
    <3>6. QED
      BY <2>4, <3>3, <3>4, <3>5
  <2>5. CASE NotBefore(p) \/ FoundBefore(p)
    <3>1. pc[p] = "before"
      BY <2>5 DEF NotBefore, FoundBefore, From
    <3>2. Visited(p) \in Node /\ Visited(p).next \in Offset
      BY <3>1, RemovalAt
    <3>3. CASE NotBefore(p)
      <4>1. local'[p] = [l EXCEPT !.at = Visited(p).next]
        BY <3>3 DEF NotBefore, Looks
      <4>2. QED
        BY <1>1, <1>2, <2>1, <3>2, <4>1 DEF Locals
    <3>4. CASE FoundBefore(p)
      <4>1. local'[p] = [l EXCEPT !.from = Visited(p)]
        BY <3>4 DEF FoundBefore, Looks
      <4>2. QED
        BY <1>1, <1>2, <2>1, <3>2, <4>1 DEF Locals
    <3>5. QED
      BY <2>5, <3>3, <3>4
  <2>6. QED
    BY <1>6, <2>2, <2>3, <2>4, <2>5 DEF Walking
<1>7. CASE Iterates(p)
  <2>1. Own(p)
    BY <1>7 DEF Iterates, Tested, Skipped, Stopped, Yielded, Keeps
  <2>2. CASE Tested(p) \/ Stopped(p)
    BY <1>1, <1>2, <2>1, <2>2 DEF Tested, Stopped, Same
  <2>3. l.tmp \in Indices => l.tmp + 1 \in Offset
    BY Constants DEF Indices, Offset
  <2>4. CASE Skipped(p)
    <3>1. local'[p] = [l EXCEPT !.tmp = l.tmp + 1] /\ l.tmp \in Indices
      BY <2>4 DEF Skipped, Looks
    <3>2. QED
      BY <1>1, <1>2, <2>1, <2>3, <3>1 DEF Locals
  <2>5. CASE Yielded(p)
    <3>1. local'[p] = [l EXCEPT !.tmp = l.tmp + 1,
                                !.seen = Append(l.seen, Slot(l.tmp).data.key)]
          /\ Slot(l.tmp).data \in Node /\ pc[p] = "it_read"
      BY <1>1, <2>5 DEF Yielded, Looks, From, Locals
    <3>2. l.tmp \in Indices
      BY <3>1 DEF IInv, Knowledge, Knows, Iteration
    <3>3. Append(l.seen, Slot(l.tmp).data.key) \in Seq(Key)
      BY <1>1, <3>1, AppendProperties DEF Node
    <3>4. QED
      BY <1>1, <1>2, <2>1, <2>3, <3>1, <3>2, <3>3 DEF Locals
  <2>6. QED
    BY <1>7, <2>2, <2>4, <2>5 DEF Iterates
<1>8. CASE Crashed(p)
  BY <1>1, <1>3, <1>8 DEF Crashed
<1>9. QED
  BY <1>4, <1>5, <1>6, <1>7, <1>8 DEF Moves

-----------------------------------------------------------------------------
(* Who stands where after a step.                                          *)

(* The ways a process takes within its call.                               *)
OnItsWay(p) ==
  /\ Own(p) /\ call'[p] = call[p]
  /\ \/ pc[p] = "lock" /\ pc'[p] = "bucket" /\ (owner' = p \/ scenario.signals)
     \/ pc[p] \in {"bucket", "walk"} /\ pc'[p] \in {"walk", "unlock"} /\ owner' = owner
     \/ pc[p] \in {"bucket", "walk"} /\ pc'[p] = "full" /\ IsOp(p, "insert") /\ owner' = owner
     \/ pc[p] = "walk" /\ pc'[p] = "first" /\ IsOp(p, "remove") /\ owner' = owner
     \/ pc[p] \in Inserting /\ pc'[p] \in Inserting \cup {"unlock", "wild"} /\ owner' = owner
     \/ pc[p] \in Removing /\ pc'[p] \in Removing \cup {"unlock"} /\ owner' = owner
     \/ pc[p] \in Iterating /\ pc'[p] \in Iterating \cup {"unlock"} /\ owner' = owner

(* A step begins a call, ends it, goes on in it or cuts it short.          *)
LEMMA Ways ==
  ASSUME NEW p, Moves(p)
  PROVE  /\ Began(p) \/ Unlocked(p) \/ Crashed(p) \/ OnItsWay(p)
         /\ Own(p) \/ Crashed(p)
<1>1. CASE Calling(p)
  BY <1>1 DEF Calling, OnItsWay, Began, Locked, Interrupted, Unlocked, Answered, Keeps, From,
              Same, Inserting, Iterating
<1>2. CASE Walking(p)
  BY <1>2 DEF Walking, OnItsWay, Entered, FoundEmpty, Hit, WentOn, FoundEnd, FoundRoom,
              Strayed, NotFirst, NotBefore, FoundBefore, Keeps, From, Same, Looks,
              Inserting, Removing
<1>3. CASE Iterates(p)
  BY <1>3 DEF Iterates, OnItsWay, Tested, Skipped, Stopped, Yielded, Keeps, From, Same, Looks,
              Iterating
<1>4. CASE Heading(p)
  BY <1>4 DEF Heading, OnItsWay, TookHead, CountedUp, Pushed, CountedDown, Heads, From, Same,
              Looks, Inserting, Removing
<1>5. CASE Storing(p)
  BY <1>5 DEF Storing, OnItsWay, WroteState, WroteNode, WroteFree, WroteLink, Stores, From,
              Same, Looks, Inserting, Removing
<1>6. CASE Linking(p) \/ UnlinkingStep(p)
  BY <1>6 DEF Linking, UnlinkingStep, OnItsWay, LinkedFirst, LinkedLast, UnlinkedFirst,
              UnlinkedInner, Stores, Points, From, Inserting, Removing
<1>7. QED
  BY <1>1, <1>2, <1>3, <1>4, <1>5, <1>6 DEF Moves

(* The others stay where they are.                                         *)
LEMMA OthersStay ==
  ASSUME IInv, NEW p \in Proc \ dead, Moves(p)
  PROVE  /\ scenario' = scenario
         /\ \A q \in Proc \ {p} : /\ pc'[q] = pc[q] /\ call'[q] = call[q]
                                  /\ local'[q] = local[q] /\ (q \in dead' <=> q \in dead)
         /\ \A q \in dead : q \in Proc /\ q # p /\ q \in dead' /\ pc'[q] = pc[q]
         /\ Own(p) => dead' = dead
         /\ Crashed(p) => dead' = dead \cup {p}
<1>1. dead \subseteq Proc /\ local \in [Proc -> Locals]
  BY DEF IInv, Typing
<1>2. CASE Own(p)
  BY <1>1, <1>2 DEF Own, Crashed
<1>3. CASE Crashed(p)
  BY <1>1, <1>3 DEF Crashed, Own
<1>4. QED
  BY <1>2, <1>3, Ways

(* Types.                                                                  *)
LEMMA TypingStep ==
  ASSUME IInv, NEW p \in Proc \ dead, Moves(p)
  PROVE  Typing'
<1>1. Typing
  BY DEF IInv
<1>2. local' \in [Proc -> Locals] /\ nodes' \in N!SlotsHeader
  BY LocalTyping, NodesTyping
<1>3. scenario' \in Scenarios /\ dead' \subseteq Proc
  <2>1. scenario \in Scenarios /\ dead \subseteq Proc
    BY <1>1 DEF Typing
  <2>2. scenario' = scenario /\ (dead' = dead \/ dead' = dead \cup {p})
    BY OthersStay, Ways
  <2>3. QED
    BY <2>1, <2>2
<1>4. pc' \in [Proc -> PCs]
  <2>1. pc'[p] \in PCs
    BY <1>1, Ways, LocalTypes
       DEF Began, Unlocked, Crashed, OnItsWay, From, Inserting, Removing, Iterating, PCs
  <2>2. pc' = [q \in Proc |-> pc'[q]]
    <3>1. pc = [q \in Proc |-> pc[q]]
      BY <1>1, Shapes
    <3>2. QED
      BY <3>1, Ways DEF Own, Crashed
  <2>3. \A q \in Proc : pc'[q] \in PCs
    BY <1>1, <2>1, OthersStay, LocalTypes
  <2>4. QED
    BY <2>2, <2>3
<1>5. call' = [q \in Proc |-> call'[q]] /\ out' = [q \in Proc |-> out'[q]]
  <2>1. CASE Own(p)
    BY <2>1 DEF Own
  <2>2. CASE Crashed(p)
    <3>1. call' = call /\ out' = out
      BY <2>2 DEF Crashed
    <3>2. QED
      BY <1>1, <3>1, Shapes
  <2>3. QED
    BY <2>1, <2>2, Ways
<1>6. owner' \in Proc \cup {NoProc}
  <2>1. owner \in Proc \cup {NoProc}
    BY <1>1 DEF Typing
  <2>2. owner' \in {owner, p, NoProc} \/ owner' = owner
    <3>1. CASE Calling(p)
      BY <3>1 DEF Calling, Began, Locked, Interrupted, Unlocked, Answered, Keeps
    <3>2. CASE Crashed(p)
      BY <3>2 DEF Crashed
    <3>3. CASE Walking(p) \/ Iterates(p)
      BY <3>3 DEF Walking, Iterates, Entered, FoundEmpty, Hit, WentOn, FoundEnd, FoundRoom,
                  Strayed, NotFirst, NotBefore, FoundBefore, Tested, Skipped, Stopped,
                  Yielded, Keeps
    <3>4. CASE Heading(p) \/ Storing(p) \/ Linking(p) \/ UnlinkingStep(p)
      BY <3>4 DEF Heading, TookHead, CountedUp, Pushed, CountedDown, Heads, Storing,
                  WroteState, WroteNode, WroteFree, WroteLink, Stores, Linking, UnlinkingStep,
                  LinkedFirst, LinkedLast, UnlinkedFirst, UnlinkedInner, Points
    <3>5. QED
      BY <3>1, <3>2, <3>3, <3>4 DEF Moves
  <2>3. QED
    BY <2>1, <2>2
<1>7. buckets' \in [Buckets -> Offset]
  <2>1. buckets \in [Buckets -> Offset]
    BY <1>1 DEF Typing
  <2>2. ASSUME NEW o \in Offset, Points(p, o) PROVE buckets' \in [Buckets -> Offset]
    BY <2>1, <2>2 DEF Points
  <2>3. CASE LinkedFirst(p)
    <3>1. Some(Idx(p)) \in Offset
      BY <1>1, LocalTypes, Constants
    <3>2. QED
      BY <2>2, <2>3, <3>1 DEF LinkedFirst
  <2>4. CASE UnlinkedFirst(p)
    BY <1>1, <2>2, <2>4, LocalTypes DEF UnlinkedFirst
  <2>5. CASE buckets' = buckets
    BY <2>1, <2>5
  <2>6. CASE Calling(p) \/ Walking(p) \/ Iterates(p) \/ Crashed(p)
    BY <2>5, <2>6
       DEF Calling, Walking, Iterates, Crashed, Keeps, Quiet, Began, Locked, Interrupted,
           Unlocked, Answered, Entered, FoundEmpty, Hit, WentOn, FoundEnd, FoundRoom, Strayed,
           NotFirst, NotBefore, FoundBefore, Tested, Skipped, Stopped, Yielded
  <2>7. CASE Heading(p) \/ Storing(p) \/ LinkedLast(p) \/ UnlinkedInner(p)
    BY <2>5, <2>7 DEF Heading, TookHead, CountedUp, Pushed, CountedDown, Heads, Storing,
                      WroteState, WroteNode, WroteFree, WroteLink, Stores, LinkedLast,
                      UnlinkedInner
  <2>8. QED
    BY <2>3, <2>4, <2>6, <2>7 DEF Moves, Linking, UnlinkingStep
<1>8. QED
  BY <1>2, <1>3, <1>4, <1>5, <1>6, <1>7 DEF Typing

(* Everybody stands where its call may take it.                            *)
LEMMA StandsStep ==
  ASSUME IInv, NEW p \in Proc \ dead, Moves(p)
  PROVE  \A q \in Proc : Stands(q)'
<1>1. \A q \in Proc : Stands(q)
  BY DEF IInv
<1>2. ASSUME NEW q \in Proc, q # p PROVE Stands(q)'
  <2>1. /\ scenario' = scenario /\ pc'[q] = pc[q] /\ call'[q] = call[q]
        /\ local'[q] = local[q] /\ (q \in dead' <=> q \in dead)
    BY <1>2, OthersStay
  <2>2. QED
    BY <1>1, <2>1 DEF Stands, IsOp
<1>3. Stands(p)'
  <2>1. Stands(p) /\ scenario' = scenario
    BY <1>1, OthersStay
  <2>2. CASE Began(p)
    <3>1. PICK c \in scenario.calls[p] :
            call'[p] = c /\ pc'[p] = IF c.op = "keys" THEN "it_test" ELSE "lock"
      BY <2>2 DEF Began
    <3>2. QED
      BY <2>1, <3>1 DEF Stands, IsOp, Iterating
  <2>3. CASE Unlocked(p)
    BY <2>3 DEF Unlocked, From, Stands
  <2>4. CASE Crashed(p)
    BY <2>1, <2>4 DEF Crashed, Stands, IsOp
  <2>5. CASE OnItsWay(p)
    <3>1. call'[p] = call[p] /\ pc[p] # "idle"
      BY <2>5 DEF OnItsWay, Inserting, Removing, Iterating
    <3>2. call[p] \in scenario.calls[p]
      BY <2>1, <3>1 DEF Stands
    <3>3. \/ pc[p] \in {"lock", "bucket", "walk"} /\ ~IsOp(p, "keys")
          \/ pc[p] \in {"unlock", "wild"}
          \/ pc[p] \in Inserting /\ IsOp(p, "insert")
          \/ pc[p] \in Removing /\ IsOp(p, "remove")
          \/ pc[p] \in Iterating /\ IsOp(p, "keys")
      BY <2>1, <3>1 DEF Stands
    <3>4. \/ pc'[p] \in {"lock", "bucket", "walk"} /\ ~IsOp(p, "keys")
          \/ pc'[p] \in {"unlock", "wild"}
          \/ pc'[p] \in Inserting /\ IsOp(p, "insert")
          \/ pc'[p] \in Removing /\ IsOp(p, "remove")
          \/ pc'[p] \in Iterating /\ IsOp(p, "keys")
      BY <2>5, <3>3 DEF OnItsWay, Inserting, Removing, Iterating
    <3>5. QED
      BY <2>1, <3>1, <3>2, <3>4 DEF Stands, IsOp
  <2>6. QED
    BY <2>2, <2>3, <2>4, <2>5, Ways
<1>4. QED
  BY <1>2, <1>3

(* Without signals the semaphore is held by whoever is behind its lock.    *)
LEMMA LocksStep ==
  ASSUME IInv, NEW p \in Proc \ dead, Moves(p)
  PROVE  Locks'
<1>1. SUFFICES ASSUME ~scenario.signals, NEW q \in Proc \ dead',
                      pc'[q] \notin {"idle", "lock"}, call'[q].op # "keys"
               PROVE  owner' = q
  BY OthersStay DEF Locks, IsOp
<1>2. \A x \in Proc \ dead : pc[x] \notin {"idle", "lock"} /\ call[x].op # "keys" => owner = x
  BY <1>1 DEF IInv, Locks, IsOp
<1>3. p # NoProc /\ p \in Proc /\ NoProc \notin Proc
  BY HashIndexAssumption
<1>4. CASE q # p
  <2>1. owner = q /\ q # NoProc
    BY <1>1, <1>2, <1>3, <1>4, OthersStay
  <2>2. ~Locked(p)
    BY <2>1 DEF Locked
  <2>3. owner' = owner \/ (owner' = IF owner = p THEN NoProc ELSE owner)
    <3>1. CASE Calling(p)
      BY <2>2, <3>1 DEF Calling, Began, Interrupted, Unlocked, Answered, Keeps
    <3>2. CASE ~Calling(p)
      <4>1. ~Began(p) /\ ~Unlocked(p) /\ ~(pc[p] = "lock" /\ pc'[p] = "bucket" /\ Own(p))
        BY <3>2 DEF Calling, Moves, Walking, Iterates, Heading, Storing, Linking, UnlinkingStep,
             Entered, FoundEmpty, Hit, WentOn, FoundEnd, FoundRoom, Strayed, NotFirst,
             NotBefore, FoundBefore, Tested, Skipped, Stopped, Yielded, TookHead, CountedUp,
             Pushed, CountedDown, WroteState, WroteNode, WroteFree, WroteLink, LinkedFirst,
             LinkedLast, UnlinkedFirst, UnlinkedInner, From, Crashed
      <4>2. CASE Crashed(p)
        BY <4>2 DEF Crashed
      <4>3. CASE OnItsWay(p)
        BY <4>1, <4>3 DEF OnItsWay
      <4>4. QED
        BY <4>1, <4>2, <4>3, Ways
    <3>3. QED
      BY <3>1, <3>2
  <2>4. QED
    BY <1>4, <2>1, <2>3
<1>5. CASE q = p
  <2>1. ~Crashed(p)
    BY <1>1, <1>5 DEF Crashed
  <2>2. ~Unlocked(p)
    BY <1>1, <1>5 DEF Unlocked, From
  <2>3. ~Began(p)
    BY <1>1, <1>5 DEF Began
  <2>4. OnItsWay(p)
    BY <2>1, <2>2, <2>3, Ways
  <2>5. CASE pc[p] = "lock"
    BY <1>1, <1>5, <2>4, <2>5 DEF OnItsWay, Inserting, Removing, Iterating
  <2>6. CASE pc[p] # "lock"
    <3>1. call[p].op # "keys" /\ pc[p] # "idle" /\ owner' = owner
      BY <1>1, <1>5, <2>4, <2>6 DEF OnItsWay, Inserting, Removing, Iterating
    <3>2. QED
      BY <1>2, <1>5, <2>6, <3>1
  <2>7. QED
    BY <2>5, <2>6
<1>6. QED
  BY <1>4, <1>5

-----------------------------------------------------------------------------
(* Counting after a step.                                                  *)

Changers == {"count", "wr_state", "wr_node", "link",
             "rm_state", "rm_link", "rm_first", "uncount"}

(* A step that leaves the memory alone neither begins nor ends a change.   *)
LEMMA QuietSteps ==
  ASSUME NEW p, Calling(p) \/ Walking(p) \/ Iterates(p)
  PROVE  /\ Own(p) /\ Quiet /\ pc[p] \notin Changers /\ pc'[p] \notin Changers
         /\ ~InHand(p) /\ ~InHand(p)' /\ ~Changing(p) /\ ~Changing(p)'
         /\ ~Unlinked(p) /\ ~Unlinked(p)'
<1>1. Own(p) /\ Quiet
  BY DEF Calling, Walking, Iterates, Keeps, Began, Locked, Interrupted,
         Unlocked, Answered, Entered, FoundEmpty, Hit, WentOn, FoundEnd, FoundRoom, Strayed,
         NotFirst, NotBefore, FoundBefore, Tested, Skipped, Stopped, Yielded
<1>2. pc[p] \notin Changers /\ pc'[p] \notin Changers
  BY DEF Calling, Walking, Iterates, From, Began, Locked, Interrupted, Changers,
         Unlocked, Answered, Entered, FoundEmpty, Hit, WentOn, FoundEnd, FoundRoom, Strayed,
         NotFirst, NotBefore, FoundBefore, Tested, Skipped, Stopped, Yielded
<1>3. QED
  BY <1>1, <1>2 DEF Changers, InHand, Changing, Unlinked

(* A step that changes the memory is the step of a process that is alone   *)
(* in changing it.                                                         *)
LEMMA LoudSteps ==
  ASSUME NEW p, Heading(p) \/ Storing(p) \/ Linking(p) \/ UnlinkingStep(p)
  PROVE  /\ Own(p) /\ pc[p] \in Inserting \cup Removing
         /\ call'[p] = call[p]
<1>1. CASE Heading(p)
  BY <1>1 DEF Heading, TookHead, CountedUp, Pushed, CountedDown, Heads, From, Inserting,
              Removing, Same, Looks
<1>2. CASE Storing(p)
  BY <1>2 DEF Storing, WroteState, WroteNode, WroteFree, WroteLink, Stores, From, Inserting,
              Removing, Same, Looks
<1>3. CASE Linking(p) \/ UnlinkingStep(p)
  BY <1>3 DEF Linking, UnlinkingStep, LinkedFirst, LinkedLast, UnlinkedFirst, UnlinkedInner,
              Points, Stores, From, Inserting, Removing
<1>4. QED
  BY <1>1, <1>2, <1>3

(* Who does what after a quiet step.                                       *)
LEMMA QuietAny ==
  ASSUME IInv, NEW p \in Proc \ dead, Calling(p) \/ Walking(p) \/ Iterates(p)
  PROVE  /\ AnyUnlinked' <=> AnyUnlinked
         /\ AnyAt("count")' <=> AnyAt("count")
         /\ AnyAt("uncount")' <=> AnyAt("uncount")
         /\ \A i : InHands(i)' <=> InHands(i)
<1>1. /\ Own(p) /\ pc[p] \notin Changers /\ pc'[p] \notin Changers
      /\ ~InHand(p) /\ ~InHand(p)' /\ ~Unlinked(p) /\ ~Unlinked(p)'
  BY QuietSteps
<1>2. dead' = dead /\ \A q \in Proc \ dead : q # p => pc'[q] = pc[q] /\ local'[q] = local[q]
  BY <1>1, OthersStay DEF Moves
<1>3. pc[p] # "count" /\ pc'[p] # "count" /\ pc[p] # "uncount" /\ pc'[p] # "uncount"
  BY <1>1 DEF Changers
<1>4. AnyUnlinked' <=> AnyUnlinked
  BY <1>1, <1>2 DEF AnyUnlinked, Unlinked
<1>5. AnyAt("count")' <=> AnyAt("count")
  BY <1>2, <1>3 DEF AnyAt
<1>6. AnyAt("uncount")' <=> AnyAt("uncount")
  BY <1>2, <1>3 DEF AnyAt
<1>7. \A i : InHands(i)' <=> InHands(i)
  BY <1>1, <1>2 DEF InHands, InHand, Idx
<1>8. QED
  BY <1>4, <1>5, <1>6, <1>7

(* Before and after a loud one it is its process or nobody.                *)
LEMMA LoudAny ==
  ASSUME IInv, Workable(scenario), NEW p \in Proc \ dead, Moves(p), Own(p),
         pc[p] \in Inserting \cup Removing
  PROVE  /\ AnyUnlinked <=> Unlinked(p)
         /\ AnyUnlinked' <=> Unlinked(p)'
         /\ AnyAt("count") <=> pc[p] = "count"
         /\ AnyAt("count")' <=> pc'[p] = "count"
         /\ AnyAt("uncount") <=> pc[p] = "uncount"
         /\ AnyAt("uncount")' <=> pc'[p] = "uncount"
         /\ \A i : InHands(i) <=> InHand(p) /\ Idx(p) = i
         /\ \A i : InHands(i)' <=> InHand(p)' /\ Idx(p)' = i
         /\ \A q \in Proc \ dead : q # p => ~InHand(q)'
<1>1. \A q \in Proc \ dead : q # p => /\ ~Unlinked(q) /\ ~InHand(q)
                                      /\ pc[q] # "count" /\ pc[q] # "uncount"
  BY Sole
<1>2. dead' = dead /\ \A q \in Proc \ dead : q # p => pc'[q] = pc[q]
  BY OthersStay
<1>3. \A q \in Proc \ dead : q # p => /\ ~Unlinked(q)' /\ ~InHand(q)'
                                      /\ pc'[q] # "count" /\ pc'[q] # "uncount"
  BY <1>1, <1>2 DEF Unlinked, InHand
<1>4. (AnyUnlinked <=> Unlinked(p)) /\ (AnyUnlinked' <=> Unlinked(p)')
  BY <1>1, <1>2, <1>3 DEF AnyUnlinked
<1>5. (AnyAt("count") <=> pc[p] = "count") /\ (AnyAt("count")' <=> pc'[p] = "count")
  BY <1>1, <1>2, <1>3 DEF AnyAt
<1>6. (AnyAt("uncount") <=> pc[p] = "uncount") /\ (AnyAt("uncount")' <=> pc'[p] = "uncount")
  BY <1>1, <1>2, <1>3 DEF AnyAt
<1>7. \A i : InHands(i) <=> InHand(p) /\ Idx(p) = i
  BY <1>1 DEF InHands
<1>8. \A i : InHands(i)' <=> InHand(p)' /\ Idx(p)' = i
  BY <1>2, <1>3 DEF InHands
<1>9. QED
  BY <1>3, <1>4, <1>5, <1>6, <1>7, <1>8

(* The dead change nothing.                                                *)
LEMMA DeadAfter ==
  ASSUME IInv, NEW p \in Proc \ dead, Moves(p)
  PROVE  /\ Uncounted => Uncounted'
         /\ Scarred => Scarred'
         /\ Crashed(p) /\ pc[p] = "count" => Uncounted'
         /\ Crashed(p) /\ Changing(p) => Scarred'
<1>1. \A q \in dead : q \in dead' /\ pc'[q] = pc[q]
  BY OthersStay
<1>2. Uncounted => Uncounted'
  BY <1>1 DEF Uncounted
<1>3. Scarred => Scarred'
  BY <1>1 DEF Scarred, Changing, Unlinked
<1>4. ASSUME Crashed(p) PROVE p \in dead' /\ pc'[p] = pc[p]
  BY <1>4 DEF Crashed
<1>5. Crashed(p) /\ pc[p] = "count" => Uncounted'
  BY <1>4 DEF Uncounted
<1>6. Crashed(p) /\ Changing(p) => Scarred'
  BY <1>4 DEF Scarred, Changing, Unlinked
<1>7. QED
  BY <1>2, <1>3, <1>5, <1>6

(* What a death leaves to the others.                                      *)
LEMMA CrashAny ==
  ASSUME IInv, NEW p \in Proc \ dead, Crashed(p)
  PROVE  /\ AnyUnlinked' => AnyUnlinked
         /\ ~Changing(p) => (AnyUnlinked => AnyUnlinked') /\ \A i : InHands(i) => InHands(i)'
         /\ AnyAt("uncount")' => AnyAt("uncount")
         /\ pc[p] # "count" => (AnyAt("count") => AnyAt("count")')
         /\ \A q \in Proc \ dead' : q # p /\ q \notin dead /\ InHand(q)' = InHand(q)
                                    /\ Idx(q)' = Idx(q)
<1>1. /\ dead' = dead \cup {p} /\ pc' = pc
      /\ \A q \in Proc \ dead' : q # p /\ q \notin dead /\ local'[q] = local[q]
  BY OthersStay DEF Moves, Crashed
<1>2. \A q \in Proc \ dead : q # p => q \notin dead'
  BY <1>1
<1>3. AnyUnlinked' => AnyUnlinked
  BY <1>1 DEF AnyUnlinked, Unlinked
<1>4. ~Changing(p) => (AnyUnlinked => AnyUnlinked')
  BY <1>1, <1>2 DEF AnyUnlinked, Unlinked, Changing
<1>5. \A q \in Proc \ dead' : q # p /\ q \notin dead /\ InHand(q)' = InHand(q)
                              /\ Idx(q)' = Idx(q)
  BY <1>1 DEF InHand, Idx
<1>6. ~Changing(p) => ~InHand(p)
  BY DEF Changing, InHand, Unlinked
<1>7. ~Changing(p) => \A i : InHands(i) => InHands(i)'
  BY <1>2, <1>5, <1>6 DEF InHands
<1>8. AnyAt("uncount")' => AnyAt("uncount")
  BY <1>1 DEF AnyAt
<1>9. pc[p] # "count" => (AnyAt("count") => AnyAt("count")')
  BY <1>1, <1>2 DEF AnyAt
<1>10. QED
  BY <1>3, <1>4, <1>5, <1>7, <1>8, <1>9

(* Except where a node is linked or unlinked the chains stay.              *)
LEMMA Still ==
  ASSUME IInv, NEW p \in Proc \ dead,
         Calling(p) \/ Walking(p) \/ Iterates(p) \/ Heading(p) \/ Storing(p) \/ Crashed(p)
  PROVE  /\ Chains' /\ Chained' = Chained
         /\ \A b \in Buckets : Chain(b)' = Chain(b) /\ InChain(b)' = InChain(b)
<1>1. buckets' = buckets
  BY DEF Calling, Walking, Iterates, Crashed, Keeps, Quiet, Began, Locked, Interrupted,
         Unlocked, Answered, Entered, FoundEmpty, Hit, WentOn, FoundEnd, FoundRoom, Strayed,
         NotFirst, NotBefore, FoundBefore, Tested, Skipped, Stopped, Yielded,
         Heading, TookHead, CountedUp, Pushed, CountedDown, Heads, Storing,
         WroteState, WroteNode, WroteFree, WroteLink, Stores
<1>2. Typing /\ Chained \subseteq Indices
  BY ChainedFacts DEF IInv
<1>3. CASE Calling(p) \/ Walking(p) \/ Iterates(p) \/ Crashed(p)
  <2>1. nodes' = nodes
    BY <1>3, QuietSteps DEF Quiet, Crashed
  <2>2. \A i \in Chained : Slot(i)' = Slot(i)
    BY <2>1 DEF Slot
  <2>3. QED
    BY <1>1, <2>2, ChainsStay
<1>4. CASE Heading(p)
  <2>1. \E n, f : Heads(p, n, f)
    BY <1>4 DEF Heading, TookHead, CountedUp, Pushed, CountedDown
  <2>2. \A i : Slot(i)' = Slot(i)
    BY <1>2, <2>1, HeadsSlots
  <2>3. QED
    BY <1>1, <2>2, ChainsStay
<1>5. CASE Storing(p)
  <2>1. \E r : Stores(p, Idx(p), r)
    BY <1>5 DEF Storing, WroteState, WroteNode, WroteFree, WroteLink
  <2>2. Idx(p) \in Indices /\ Idx(p) \notin Chained
    <3>1. InHand(p)
      BY <1>5 DEF Storing, WroteState, WroteNode, WroteFree, WroteLink, From, InHand
    <3>2. QED
      BY <1>2, <3>1, LocalTypes DEF IInv, Knowledge, Knows
  <2>3. \A i \in Chained : Slot(i)' = Slot(i)
    BY <1>2, <2>1, <2>2, StoresSlots
  <2>4. QED
    BY <1>1, <2>3, ChainsStay
<1>6. QED
  BY <1>3, <1>4, <1>5

(* count, the chains and who is about to change either.                    *)
LEMMA CountedStep ==
  ASSUME IInv, Workable(scenario), NEW p \in Proc \ dead, Moves(p)
  PROVE  Counted'
<1> DEFINE k == Cardinality(Chained)
<1>1. /\ k \in Nat /\ nodes.count \in Nat /\ IsFiniteSet(Chained) /\ Typing
      /\ nodes.count >= k + Ticks(AnyUnlinked)
      /\ Scarred \/ nodes.count = k + Ticks(AnyUnlinked)
  BY ChainedFacts, SlotTypes DEF IInv, Counted
<1>2. Scarred => Scarred'
  BY DeadAfter
<1> HIDE DEF k
<1>3. CASE Calling(p) \/ Walking(p) \/ Iterates(p)
  <2>1. nodes' = nodes /\ Chained' = Chained /\ (AnyUnlinked' <=> AnyUnlinked)
    BY <1>3, QuietSteps, QuietAny, Still DEF Quiet
  <2>2. QED
    BY <1>1, <1>2, <2>1 DEF Counted, Ticks, k
<1>4. CASE Crashed(p)
  <2>1. nodes' = nodes /\ Chained' = Chained /\ (AnyUnlinked' => AnyUnlinked)
        /\ (~Changing(p) => (AnyUnlinked => AnyUnlinked')) /\ (Changing(p) => Scarred')
    BY <1>4, CrashAny, Still, DeadAfter DEF Crashed, Quiet, Moves
  <2>2. QED
    BY <1>1, <1>2, <2>1 DEF Counted, Ticks, k
<1>5. CASE Heading(p) \/ Storing(p)
  <2>1. Chained' = Chained /\ (AnyUnlinked <=> Unlinked(p)) /\ (AnyUnlinked' <=> Unlinked(p)')
    BY <1>5, Still, LoudSteps, LoudAny DEF Moves
  <2>2. CASE TookHead(p) \/ Pushed(p)
    <3>1. nodes'.count = nodes.count
      BY <1>1, <2>2, HeadsSlots DEF TookHead, Pushed
    <3>2. Unlinked(p) <=> Unlinked(p)'
      BY <2>2 DEF TookHead, Pushed, From, Unlinked
    <3>3. QED
      BY <1>1, <1>2, <2>1, <3>1, <3>2 DEF Counted, Ticks, k
  <2>3. CASE CountedUp(p)
    <3>1. nodes'.count = nodes.count + 1
      BY <1>1, <2>3, HeadsSlots DEF CountedUp
    <3>2. ~Unlinked(p) /\ Unlinked(p)'
      BY <2>3 DEF CountedUp, From, Unlinked
    <3>3. QED
      BY <1>1, <1>2, <2>1, <3>1, <3>2 DEF Counted, Ticks, k
  <2>4. CASE CountedDown(p)
    <3>1. nodes'.count = nodes.count - 1
      BY <1>1, <2>4, HeadsSlots DEF CountedDown
    <3>2. Unlinked(p) /\ ~Unlinked(p)'
      BY <2>4 DEF CountedDown, From, Unlinked
    <3>3. QED
      BY <1>1, <1>2, <2>1, <3>1, <3>2 DEF Counted, Ticks, k
  <2>5. CASE Storing(p)
    <3>1. nodes'.count = nodes.count
      <4>1. \E r : Stores(p, Idx(p), r)
        BY <2>5 DEF Storing, WroteState, WroteNode, WroteFree, WroteLink
      <4>2. QED
        BY <1>1, <4>1, LocalTypes, StoresSlots
    <3>2. Unlinked(p) /\ Unlinked(p)'
      BY <2>5 DEF Storing, WroteState, WroteNode, WroteFree, WroteLink, From, Unlinked
    <3>3. QED
      BY <1>1, <1>2, <2>1, <3>1, <3>2 DEF Counted, Ticks, k
  <2>6. QED
    BY <1>5, <2>2, <2>3, <2>4, <2>5 DEF Heading
<1>6. CASE Linking(p)
  <2>1. Chained' = Chained \cup {Idx(p)} /\ Idx(p) \notin Chained /\ nodes'.count = nodes.count
    BY <1>6, LinkedChains
  <2>2. Cardinality(Chained') = k + 1
    BY <1>1, <2>1, FS_AddElement DEF k
  <2>3. (AnyUnlinked <=> Unlinked(p)) /\ (AnyUnlinked' <=> Unlinked(p)')
    BY <1>6, LoudSteps, LoudAny DEF Moves
  <2>4. Unlinked(p) /\ ~Unlinked(p)'
    BY <1>6 DEF Linking, LinkedFirst, LinkedLast, From, Unlinked
  <2>5. QED
    BY <1>1, <1>2, <2>1, <2>2, <2>3, <2>4 DEF Counted, Ticks
<1>7. CASE UnlinkingStep(p)
  <2>1. Chained' = Chained \ {Idx(p)} /\ Idx(p) \in Chained /\ nodes'.count = nodes.count
    BY <1>7, UnlinkedChains
  <2>2. Cardinality(Chained') = k - 1
    BY <1>1, <2>1, FS_RemoveElement DEF k
  <2>3. (AnyUnlinked <=> Unlinked(p)) /\ (AnyUnlinked' <=> Unlinked(p)')
    BY <1>7, LoudSteps, LoudAny DEF Moves
  <2>4. ~Unlinked(p) /\ Unlinked(p)'
    BY <1>7 DEF UnlinkingStep, UnlinkedFirst, UnlinkedInner, From, Unlinked
  <2>5. QED
    BY <1>1, <1>2, <2>1, <2>2, <2>3, <2>4 DEF Counted, Ticks
<1>8. QED
  BY <1>3, <1>4, <1>5, <1>6, <1>7 DEF Moves

-----------------------------------------------------------------------------
(* The free list after a step.                                             *)

(* A list and its length.                                                  *)
IsWitness(n, order) == IsList(n, order) /\ Roomy(n) /\ Whereabouts(n, order)

(* The invariant provides a list,                                          *)
LEMMA PickList ==
  ASSUME IInv
  PROVE  \E n \in 0 .. Capacity : \E order \in [1 .. n + 1 -> 0 .. Capacity] :
           IsWitness(n, order)
BY DEF IInv, Listed, IsWitness

(* and a list after a step provides the invariant.                         *)
LEMMA GiveList ==
  ASSUME NEW n \in 0 .. Capacity, NEW order \in [1 .. n + 1 -> 0 .. Capacity],
         IsWitness(n, order)'
  PROVE  Listed'
BY DEF Listed, IsWitness

(* A node on the list is free.                                             *)
LEMMA ListedFree ==
  ASSUME IInv, NEW n \in 0 .. Capacity, NEW order, IsList(n, order), NEW i, OnList(n, order, i)
  PROVE  i \in Indices /\ Slot(i).state = "Free" /\ i \notin Chained
<1>1. i \in Indices /\ Slot(i).state = "Free"
  BY DEF IsList, OnList
<1>2. QED
  BY <1>1, ChainedFacts

(* A step that changes neither the head nor a slot on the list keeps it.   *)
LEMMA ListKept ==
  ASSUME NEW n \in 0 .. Capacity, NEW order, IsList(n, order),
         nodes'.firstFree = nodes.firstFree,
         \A i \in Indices : OnList(n, order, i) =>
           Slot(i)'.state = Slot(i).state /\ Slot(i)'.size = Slot(i).size
  PROVE  IsList(n, order)'
<1>1. \A j \in 1 .. n : order[j] \in Indices /\ OnList(n, order, order[j])
  BY DEF IsList, OnList
<1>2. QED
  BY <1>1 DEF IsList

(* Steps that leave the list as it is.                                     *)
LEMMA ListedStill ==
  ASSUME IInv, Workable(scenario), NEW p \in Proc \ dead,
         Calling(p) \/ Walking(p) \/ Iterates(p) \/ Crashed(p)
  PROVE  Listed'
<1>1. PICK n, order : /\ n \in 0 .. Capacity
                     /\ order \in [1 .. n + 1 -> 0 .. Capacity]
                     /\ IsWitness(n, order)
  BY PickList
<1>2. nodes' = nodes /\ Chained' = Chained
  BY QuietSteps, Still DEF Crashed, Quiet
<1>3. IsList(n, order)'
  BY <1>1, <1>2, ListKept DEF IsWitness, Slot
<1>4. Moves(p)
  BY DEF Moves
<1>5. CASE Calling(p) \/ Walking(p) \/ Iterates(p)
  <2>1. /\ dead' = dead
        /\ \A q \in Proc \ dead : (InHand(q)' <=> InHand(q)) /\ (InHand(q)' => Idx(q)' = Idx(q))
    <3>1. Own(p) /\ ~InHand(p) /\ ~InHand(p)'
      BY <1>5, QuietSteps
    <3>2. dead' = dead /\ \A q \in Proc \ {p} : pc'[q] = pc[q] /\ local'[q] = local[q]
      BY <1>4, <3>1, OthersStay
    <3>3. QED
      BY <3>1, <3>2 DEF InHand, Idx
  <2>2. Roomy(n)'
    BY <1>1, <1>2, <1>4, <1>5, QuietAny, DeadAfter DEF IsWitness, Roomy, Ticks
  <2>3. Whereabouts(n, order)'
    BY <1>1, <1>2, <1>4, <1>5, <2>1, QuietAny, DeadAfter DEF IsWitness, Whereabouts, OnList
  <2>4. QED
    BY <1>1, <1>3, <2>2, <2>3, GiveList DEF IsWitness
<1>6. CASE Crashed(p)
  <2>1. Roomy(n)'
    <3>1. nodes.count \in Nat /\ Capacity \in Nat /\ n \in Nat
      BY <1>1, Constants, SlotTypes DEF IInv
    <3>2. Uncounted => Uncounted'
      BY <1>4, DeadAfter
    <3>3. AnyAt("uncount")' => AnyAt("uncount")
      BY <1>6, CrashAny
    <3>4. CASE pc[p] = "count"
      BY <1>4, <1>6, <3>4, DeadAfter DEF Roomy
    <3>5. CASE pc[p] # "count"
      <4>1. AnyAt("count") => AnyAt("count")'
        BY <1>6, <3>5, CrashAny
      <4>2. QED
        BY <1>1, <1>2, <3>1, <3>2, <3>3, <4>1 DEF IsWitness, Roomy, Ticks
    <3>6. QED
      BY <3>4, <3>5
  <2>2. Whereabouts(n, order)'
    <3>1. \A q \in Proc \ dead' : InHand(q)' => ~OnList(n, order, Idx(q)')
      BY <1>1, <1>6, CrashAny DEF IsWitness, Whereabouts
    <3>2. Scarred' \/ \A i \in Indices : OnList(n, order, i) \/ i \in Chained \/ InHands(i)'
      BY <1>1, <1>4, <1>6, CrashAny, DeadAfter DEF IsWitness, Whereabouts
    <3>3. QED
      BY <1>2, <3>1, <3>2 DEF Whereabouts, OnList
  <2>3. QED
    BY <1>1, <1>3, <2>1, <2>2, GiveList DEF IsWitness
<1>7. QED
  BY <1>5, <1>6

(* Steps that change no slot of the list, nor its head.                    *)
LEMMA ListedBeside ==
  ASSUME IInv, Workable(scenario), NEW p \in Proc \ dead,
         CountedUp(p) \/ CountedDown(p) \/ Storing(p) \/ Linking(p) \/ UnlinkingStep(p)
  PROVE  Listed'
<1>1. PICK n, order : /\ n \in 0 .. Capacity
                     /\ order \in [1 .. n + 1 -> 0 .. Capacity]
                     /\ IsWitness(n, order)
  BY PickList
<1>2. Moves(p) /\ Own(p) /\ pc[p] \in Inserting \cup Removing /\ Typing /\ Idx(p) \in Indices
  BY LoudSteps, LocalTypes DEF Moves, Heading, IInv
<1>3. /\ AnyAt("count") <=> pc[p] = "count"
      /\ AnyAt("count")' <=> pc'[p] = "count"
      /\ AnyAt("uncount") <=> pc[p] = "uncount"
      /\ AnyAt("uncount")' <=> pc'[p] = "uncount"
      /\ \A i : InHands(i) <=> InHand(p) /\ Idx(p) = i
      /\ \A i : InHands(i)' <=> InHand(p)' /\ Idx(p)' = i
      /\ \A q \in Proc \ dead : q # p => ~InHand(q)'
      /\ dead' = dead /\ (Scarred => Scarred') /\ (Uncounted => Uncounted')
  BY <1>2, LoudAny, DeadAfter, OthersStay
<1>4. nodes.count \in Nat /\ Capacity \in Nat /\ n \in Nat
  BY <1>1, <1>2, Constants, SlotTypes
<1>5. Idx(p)' = Idx(p)
  <2>1. CASE WroteFree(p)
    BY <1>2, <2>1, LocalTypes DEF WroteFree, Looks, Locals, Idx
  <2>2. CASE ~WroteFree(p)
    BY <2>2
       DEF CountedUp, CountedDown, Storing, WroteState, WroteNode, WroteLink,
           Linking, LinkedFirst, LinkedLast, UnlinkingStep, UnlinkedFirst, UnlinkedInner,
           Points, Same, Idx
  <2>3. QED
    BY <2>1, <2>2
<1>6. \A i \in Indices : OnList(n, order, i) => i \notin Chained /\ (InHand(p) => i # Idx(p))
  BY <1>1, <1>2, ListedFree DEF IsWitness, Whereabouts
(* What is left of each case. *)
<1>7. ASSUME nodes'.firstFree = nodes.firstFree,
             \A i \in Indices : OnList(n, order, i) => Slot(i)' = Slot(i),
             nodes'.count + Ticks(pc'[p] = "count") + Ticks(pc[p] = "uncount")
               = nodes.count + Ticks(pc[p] = "count") + Ticks(pc'[p] = "uncount"),
             InHand(p)' => ~OnList(n, order, Idx(p)),
             \A i : i \in Chained \/ (InHand(p) /\ Idx(p) = i)
                    => i \in Chained' \/ (InHand(p)' /\ Idx(p) = i)
      PROVE  Listed'
  <2>1. IsList(n, order)'
    BY <1>1, <1>7, ListKept DEF IsWitness
  <2>2. Roomy(n)'
    <3>1. nodes'.count \in Nat
      BY <1>2, NodesTyping DEF N!SlotsHeader
    <3>2. /\ Ticks(AnyAt("count")) = Ticks(pc[p] = "count")
          /\ Ticks(AnyAt("count"))' = Ticks(pc'[p] = "count")
          /\ Ticks(AnyAt("uncount")) = Ticks(pc[p] = "uncount")
          /\ Ticks(AnyAt("uncount"))' = Ticks(pc'[p] = "uncount")
      BY <1>3 DEF Ticks
    <3>3. /\ Ticks(pc[p] = "count") \in Nat /\ Ticks(pc'[p] = "count") \in Nat
          /\ Ticks(pc[p] = "uncount") \in Nat /\ Ticks(pc'[p] = "uncount") \in Nat
      BY DEF Ticks
    <3>4. Uncounted' \/ nodes.count + n + Ticks(pc[p] = "count")
                         >= Capacity + Ticks(pc[p] = "uncount")
      BY <1>1, <1>3, <3>2 DEF IsWitness, Roomy
    <3>5. Uncounted' \/ nodes'.count + n + Ticks(pc'[p] = "count")
                         >= Capacity + Ticks(pc'[p] = "uncount")
      BY <1>4, <1>7, <3>1, <3>3, <3>4
    <3>6. QED
      BY <3>2, <3>5 DEF Roomy
  <2>3. Whereabouts(n, order)'
    <3>1. \A q \in Proc \ dead : InHand(q)' => ~OnList(n, order, Idx(q)')
      BY <1>3, <1>5, <1>7
    <3>2. Scarred' \/ \A i \in Indices : OnList(n, order, i) \/ i \in Chained' \/ InHands(i)'
      BY <1>1, <1>3, <1>5, <1>7 DEF IsWitness, Whereabouts
    <3>3. QED
      BY <1>3, <3>1, <3>2 DEF Whereabouts, OnList
  <2>4. QED
    BY <1>1, <2>1, <2>2, <2>3, GiveList DEF IsWitness
<1>8. CASE CountedUp(p) \/ CountedDown(p)
  <2>1. nodes'.firstFree = nodes.firstFree /\ \A i : Slot(i)' = Slot(i)
        /\ nodes'.count = nodes.count + (IF CountedUp(p) THEN 1 ELSE -1)
    BY <1>2, <1>8, HeadsSlots, <1>4 DEF CountedUp, CountedDown, From
  <2>2. Chained' = Chained
    BY <1>8, Still DEF Heading
  <2>3. CASE CountedUp(p)
    <3>1. pc[p] = "count" /\ pc'[p] = "wr_state" /\ InHand(p) /\ InHand(p)'
      BY <2>3 DEF CountedUp, From, InHand
    <3>2. QED
      BY <1>4, <1>6, <1>7, <2>1, <2>2, <2>3, <3>1, <1>1 DEF Ticks, IsWitness, Whereabouts
  <2>4. CASE CountedDown(p)
    <3>1. pc[p] = "uncount" /\ pc'[p] = "unlock" /\ ~InHand(p) /\ ~InHand(p)' /\ ~CountedUp(p)
      BY <2>4 DEF CountedUp, CountedDown, From, InHand
    <3>2. QED
      BY <1>4, <1>6, <1>7, <2>1, <2>2, <3>1 DEF Ticks
  <2>5. QED
    BY <1>8, <2>3, <2>4
<1>9. CASE Storing(p)
  <2>1. InHand(p) /\ InHand(p)' /\ pc[p] # "count" /\ pc'[p] # "count"
        /\ pc[p] # "uncount" /\ pc'[p] # "uncount"
    BY <1>9 DEF Storing, WroteState, WroteNode, WroteFree, WroteLink, From, InHand
  <2>2. \E r : Stores(p, Idx(p), r)
    BY <1>9 DEF Storing, WroteState, WroteNode, WroteFree, WroteLink
  <2>3. nodes'.count = nodes.count /\ nodes'.firstFree = nodes.firstFree
        /\ \A i \in Indices : i # Idx(p) => Slot(i)' = Slot(i)
    BY <1>2, <2>2, StoresSlots
  <2>4. Chained' = Chained
    BY <1>9, Still
  <2>5. ~OnList(n, order, Idx(p))
    BY <1>2, <1>6, <2>1
  <2>6. QED
    BY <1>4, <1>6, <1>7, <2>1, <2>3, <2>4, <2>5 DEF Ticks
<1>10. CASE Linking(p)
  <2>1. pc[p] = "link" /\ pc'[p] = "unlock" /\ ~InHand(p)'
    BY <1>10 DEF Linking, LinkedFirst, LinkedLast, From, InHand
  <2>2. /\ Chained' = Chained \cup {Idx(p)}
        /\ nodes'.count = nodes.count /\ nodes'.firstFree = nodes.firstFree
        /\ \A i \in Indices : i \notin Chained => Slot(i)' = Slot(i)
    BY <1>10, LinkedChains
  <2>3. QED
    BY <1>4, <1>6, <1>7, <2>1, <2>2 DEF Ticks
<1>11. CASE UnlinkingStep(p)
  <2>1. pc[p] \in {"first", "unlink"} /\ pc'[p] = "rm_state" /\ ~InHand(p) /\ InHand(p)'
    BY <1>11 DEF UnlinkingStep, UnlinkedFirst, UnlinkedInner, From, InHand
  <2>2. /\ Chained' = Chained \ {Idx(p)} /\ Idx(p) \in Chained
        /\ nodes'.count = nodes.count /\ nodes'.firstFree = nodes.firstFree
        /\ \A i \in Indices : i \notin Chained => Slot(i)' = Slot(i)
    BY <1>11, UnlinkedChains
  <2>3. ~OnList(n, order, Idx(p))
    BY <1>2, <1>6, <2>2
  <2>4. QED
    BY <1>4, <1>6, <1>7, <2>1, <2>2, <2>3 DEF Ticks
<1>12. QED
  BY <1>8, <1>9, <1>10, <1>11

(* The list loses its first node.                                          *)
LEMMA ListedTook ==
  ASSUME IInv, Workable(scenario), NEW p \in Proc \ dead, TookHead(p)
  PROVE  Listed'
<1>1. PICK n, order : /\ n \in 0 .. Capacity
                     /\ order \in [1 .. n + 1 -> 0 .. Capacity]
                     /\ IsWitness(n, order)
  BY PickList
<1>2. Moves(p) /\ Own(p) /\ pc[p] \in Inserting \cup Removing /\ Typing
      /\ pc[p] = "take" /\ pc'[p] = "count" /\ Heading(p)
  BY LoudSteps DEF Moves, Heading, IInv, TookHead, From
<1>3. /\ ~AnyAt("count") /\ AnyAt("count")' /\ ~AnyAt("uncount") /\ ~AnyAt("uncount")'
      /\ \A i : ~InHands(i)
      /\ \A i : InHands(i)' <=> Idx(p)' = i
      /\ \A q \in Proc \ dead : q # p => ~InHand(q)'
      /\ dead' = dead /\ (Scarred => Scarred') /\ (Uncounted => Uncounted')
  <2>1. ~InHand(p) /\ InHand(p)'
    BY <1>2 DEF InHand
  <2>2. QED
    BY <1>2, <2>1, LoudAny, DeadAfter, OthersStay
<1>4. nodes.count \in Nat /\ Capacity \in Nat /\ n \in Nat
  BY <1>1, <1>2, Constants, SlotTypes
<1>5. PICK f : f = nodes.firstFree
  OBVIOUS
<1>6. /\ f \in Indices /\ Idx(p)' = f /\ nodes'.firstFree = Slot(f).size
      /\ nodes'.count = nodes.count /\ \A i : Slot(i)' = Slot(i)
  <2>1. Heads(p, nodes.count, Slot(f).size)
    BY <1>5 DEF TookHead
  <2>2. f \in Indices /\ local'[p] = [local[p] EXCEPT !.idx = f]
    BY <1>5 DEF TookHead, Looks
  <2>3. Idx(p)' = f
    BY <1>2, <2>2, LocalTypes DEF Locals, Idx
  <2>4. QED
    BY <1>2, <2>1, <2>2, <2>3, HeadsSlots
<1>7. /\ order \in [1 .. n + 1 -> 0 .. Capacity] /\ order[1] = f /\ order[n + 1] = Capacity
      /\ \A j \in 1 .. n : /\ order[j] \in Indices /\ Slot(order[j]).state = "Free"
                           /\ Slot(order[j]).size = order[j + 1]
      /\ \A j, k \in 1 .. n : order[j] = order[k] => j = k
  BY <1>1, <1>5 DEF IsWitness, IsList
<1>8. n >= 1
  <2>1. SUFFICES ASSUME n = 0 PROVE FALSE
    BY <1>4
  <2>2. f = Capacity
    BY <1>7, <2>1
  <2>3. QED
    BY <1>4, <1>6, <2>2, Constants
<1> DEFINE rest == [j \in 1 .. n |-> order[j + 1]]
<1>9. /\ n - 1 \in 0 .. Capacity /\ n - 1 + 1 = n
      /\ rest \in [1 .. n - 1 + 1 -> 0 .. Capacity]
  <2>1. \A j \in 1 .. n : j + 1 \in 1 .. n + 1
    BY <1>4
  <2>2. QED
    BY <1>1, <1>4, <1>7, <1>8, <2>1
<1>10. \A i : OnList(n, order, i) <=> i = f \/ OnList(n - 1, rest, i)
  <2>1. ASSUME NEW i, OnList(n, order, i) PROVE i = f \/ OnList(n - 1, rest, i)
    <3>1. PICK j \in 1 .. n : order[j] = i
      BY <2>1 DEF OnList
    <3>2. CASE j = 1
      BY <1>7, <3>1, <3>2
    <3>3. CASE j # 1
      <4>1. j - 1 \in 1 .. n - 1 /\ j - 1 \in 1 .. n /\ j - 1 + 1 = j
        BY <1>4, <3>3
      <4>2. rest[j - 1] = i
        BY <3>1, <4>1
      <4>3. QED
        BY <4>1, <4>2 DEF OnList
    <3>4. QED
      BY <3>2, <3>3
  <2>2. ASSUME NEW i, OnList(n - 1, rest, i) PROVE OnList(n, order, i)
    <3>1. PICK j \in 1 .. n - 1 : rest[j] = i
      BY <2>2 DEF OnList
    <3>2. j \in 1 .. n /\ j + 1 \in 1 .. n
      BY <1>4
    <3>3. QED
      BY <3>1, <3>2 DEF OnList
  <2>3. OnList(n, order, f)
    <3>1. 1 \in 1 .. n
      BY <1>4, <1>8
    <3>2. QED
      BY <1>7, <3>1 DEF OnList
  <2>4. QED
    BY <2>1, <2>2, <2>3
<1>11. ~OnList(n - 1, rest, f)
  <2>1. SUFFICES ASSUME NEW j \in 1 .. n - 1, rest[j] = f PROVE FALSE
    BY DEF OnList
  <2>2. j \in 1 .. n /\ j + 1 \in 1 .. n /\ 1 \in 1 .. n /\ j + 1 # 1
    BY <1>4
  <2>3. order[j + 1] = order[1]
    BY <1>7, <2>1, <2>2
  <2>4. QED
    BY <1>7, <2>2, <2>3
<1>12. IsList(n - 1, rest)'
  <2>1. \A j \in 1 .. n - 1 : j \in 1 .. n /\ j + 1 \in 1 .. n /\ rest[j] = order[j + 1]
                             /\ rest[j + 1] = order[j + 1 + 1]
    BY <1>4
  <2>2. rest[1] = nodes'.firstFree
    <3>1. 1 \in 1 .. n /\ rest[1] = order[1 + 1]
      BY <1>4, <1>8
    <3>2. Slot(order[1]).size = order[1 + 1]
      BY <1>7, <3>1
    <3>3. QED
      BY <1>6, <1>7, <3>1, <3>2
  <2>3. rest[n - 1 + 1] = Capacity
    <3>1. n \in 1 .. n /\ rest[n] = order[n + 1]
      BY <1>4, <1>8
    <3>2. QED
      BY <1>7, <1>9, <3>1
  <2>4. \A j, k \in 1 .. n - 1 : rest[j] = rest[k] => j = k
    <3>1. SUFFICES ASSUME NEW j \in 1 .. n - 1, NEW k \in 1 .. n - 1, rest[j] = rest[k]
                   PROVE  j = k
      OBVIOUS
    <3>2. j + 1 \in 1 .. n /\ k + 1 \in 1 .. n /\ order[j + 1] = order[k + 1]
      BY <2>1, <3>1
    <3>3. j + 1 = k + 1
      BY <1>7, <3>2
    <3>4. QED
      BY <1>4, <3>3
  <2>5. \A j \in 1 .. n - 1 : /\ rest[j] \in Indices /\ Slot(rest[j])'.state = "Free"
                              /\ Slot(rest[j])'.size = rest[j + 1]
    <3>1. SUFFICES ASSUME NEW j \in 1 .. n - 1
                   PROVE  /\ rest[j] \in Indices /\ Slot(rest[j])'.state = "Free"
                          /\ Slot(rest[j])'.size = rest[j + 1]
      OBVIOUS
    <3>2. Slot(order[j + 1])' = Slot(order[j + 1])
      BY <1>6
    <3>3. QED
      BY <1>7, <2>1, <3>2
  <2>6. QED
    <3> HIDE DEF rest
    <3>1. QED
      BY <1>9, <2>2, <2>3, <2>4, <2>5 DEF IsList
<1>13. Roomy(n - 1)'
  BY <1>1, <1>3, <1>4, <1>6 DEF IsWitness, Roomy, Ticks
<1>14. Whereabouts(n - 1, rest)'
  <2> HIDE DEF rest
  <2>1. \A q \in Proc \ dead : InHand(q)' => ~OnList(n - 1, rest, Idx(q)')
    BY <1>3, <1>6, <1>11
  <2>2. Scarred' \/ \A i \in Indices : OnList(n - 1, rest, i) \/ i \in Chained' \/ InHands(i)'
    <3>1. Chained' = Chained
      BY <1>2, Still
    <3>2. QED
      BY <1>1, <1>3, <1>6, <1>10, <3>1 DEF IsWitness, Whereabouts
  <2>3. QED
    BY <1>3, <2>1, <2>2 DEF Whereabouts, OnList
<1>15. QED
  <2> HIDE DEF rest
  <2>1. QED
    BY <1>9, <1>12, <1>13, <1>14, GiveList DEF IsWitness

(* The list gets a new first node.                                         *)
LEMMA ListedPushed ==
  ASSUME IInv, Workable(scenario), NEW p \in Proc \ dead, Pushed(p)
  PROVE  Listed'
<1>1. PICK n, order : /\ n \in 0 .. Capacity
                     /\ order \in [1 .. n + 1 -> 0 .. Capacity]
                     /\ IsWitness(n, order)
  BY PickList
<1>2. Moves(p) /\ Own(p) /\ pc[p] \in Inserting \cup Removing /\ Typing
      /\ pc[p] = "rm_first" /\ pc'[p] = "uncount" /\ Heading(p)
  BY LoudSteps DEF Moves, Heading, IInv, Pushed, From
<1>3. /\ ~AnyAt("count") /\ ~AnyAt("count")' /\ ~AnyAt("uncount") /\ AnyAt("uncount")'
      /\ \A i : InHands(i) <=> Idx(p) = i
      /\ \A q \in Proc \ dead : ~InHand(q)'
      /\ dead' = dead /\ (Scarred => Scarred') /\ (Uncounted => Uncounted')
  <2>1. InHand(p) /\ ~InHand(p)'
    BY <1>2 DEF InHand
  <2>2. QED
    BY <1>2, <2>1, LoudAny, DeadAfter, OthersStay
<1>4. nodes.count \in Nat /\ Capacity \in Nat /\ n \in Nat
  BY <1>1, <1>2, Constants, SlotTypes
<1>5. PICK f : f = Idx(p)
  OBVIOUS
<1>6. /\ f \in Indices /\ f \in 0 .. Capacity /\ nodes'.firstFree = f
      /\ nodes'.count = nodes.count /\ \A i : Slot(i)' = Slot(i)
  BY <1>2, <1>4, <1>5, LocalTypes, HeadsSlots, Constants DEF Pushed, Indices
<1>7. Slot(f).state = "Free" /\ Slot(f).size = nodes.firstFree
  BY <1>2, <1>5 DEF IInv, Knowledge, Knows, Removal
<1>8. ~OnList(n, order, f)
  BY <1>1, <1>2, <1>5 DEF IsWitness, Whereabouts, InHand
<1>9. /\ order \in [1 .. n + 1 -> 0 .. Capacity] /\ order[1] = nodes.firstFree
      /\ order[n + 1] = Capacity
      /\ \A j \in 1 .. n : /\ order[j] \in Indices /\ Slot(order[j]).state = "Free"
                           /\ Slot(order[j]).size = order[j + 1]
                           /\ order[j] # f
      /\ \A j, k \in 1 .. n : order[j] = order[k] => j = k
  BY <1>1, <1>8 DEF IsWitness, IsList, OnList
<1> DEFINE long == [j \in 1 .. n + 2 |-> IF j = 1 THEN f ELSE order[j - 1]]
<1>10. /\ long[1] = f
       /\ \A j \in 1 .. n + 1 : j + 1 \in 1 .. n + 2 /\ long[j + 1] = order[j]
       /\ \A j \in 1 .. n + 2 : j = 1 \/ (j - 1 \in 1 .. n + 1 /\ long[j] = order[j - 1])
       /\ long \in [1 .. n + 1 + 1 -> 0 .. Capacity]
  <2>1. 1 \in 1 .. n + 2 /\ n + 1 + 1 = n + 2
    BY <1>4
  <2>2. \A j \in 1 .. n + 1 : j + 1 \in 1 .. n + 2 /\ j + 1 # 1 /\ j + 1 - 1 = j
    BY <1>4
  <2>3. \A j \in 1 .. n + 2 : j = 1 \/ j - 1 \in 1 .. n + 1
    BY <1>4
  <2>4. \A j \in 1 .. n + 2 : long[j] \in 0 .. Capacity
    BY <1>6, <1>9, <2>3
  <2>5. QED
    BY <2>1, <2>2, <2>3, <2>4
<1>11. \A j, k \in 1 .. n + 1 : long[j] = long[k] => j = k
  <2> HIDE DEF long
  <2>1. SUFFICES ASSUME NEW j \in 1 .. n + 1, NEW k \in 1 .. n + 1, long[j] = long[k]
                 PROVE  j = k
    OBVIOUS
  <2>2. /\ j = 1 \/ (j - 1 \in 1 .. n /\ long[j] = order[j - 1])
        /\ k = 1 \/ (k - 1 \in 1 .. n /\ long[k] = order[k - 1])
    BY <1>4, <1>10
  <2>3. CASE j = 1 \/ k = 1
    BY <1>9, <1>10, <2>1, <2>2, <2>3
  <2>4. CASE j # 1 /\ k # 1
    <3>1. j - 1 = k - 1
      BY <1>9, <2>1, <2>2, <2>4
    <3>2. QED
      BY <1>4, <3>1
  <2>5. QED
    BY <2>3, <2>4
<1>12. \A j \in 1 .. n + 1 : long[j] \in Indices
  <2> HIDE DEF long
  <2>1. SUFFICES ASSUME NEW j \in 1 .. n + 1 PROVE long[j] \in Indices
    OBVIOUS
  <2>2. j = 1 \/ (j - 1 \in 1 .. n /\ long[j] = order[j - 1])
    BY <1>4, <1>10
  <2>3. QED
    BY <1>6, <1>9, <1>10, <2>2
<1>13. n + 1 \in 0 .. Capacity
  <2> HIDE DEF long
  <2>1. PICK s : s = [j \in 1 .. n + 1 |-> long[j]]
    OBVIOUS
  <2>2. s \in Seq(Indices) /\ Len(s) = n + 1
    BY <1>4, <1>12, <2>1, IsASeq, LenProperties
  <2>3. \A j, k \in 1 .. Len(s) : s[j] = s[k] => j = k
    BY <1>11, <2>1, <2>2
  <2>4. QED
    BY <2>2, <2>3, ChainLength
<1>14. \A i : OnList(n + 1, long, i) <=> i = f \/ OnList(n, order, i)
  <2> HIDE DEF long
  <2>1. ASSUME NEW i, OnList(n + 1, long, i) PROVE i = f \/ OnList(n, order, i)
    <3>1. PICK j \in 1 .. n + 1 : long[j] = i
      BY <2>1 DEF OnList
    <3>2. j = 1 \/ (j - 1 \in 1 .. n /\ long[j] = order[j - 1])
      BY <1>4, <1>10
    <3>3. QED
      BY <1>10, <3>1, <3>2 DEF OnList
  <2>2. ASSUME NEW i, OnList(n, order, i) PROVE OnList(n + 1, long, i)
    <3>1. PICK j \in 1 .. n : order[j] = i
      BY <2>2 DEF OnList
    <3>2. j + 1 \in 1 .. n + 1 /\ long[j + 1] = order[j]
      BY <1>4, <1>10
    <3>3. QED
      BY <3>1, <3>2 DEF OnList
  <2>3. OnList(n + 1, long, f)
    <3>1. 1 \in 1 .. n + 1
      BY <1>4
    <3>2. QED
      BY <1>10, <3>1 DEF OnList
  <2>4. QED
    BY <2>1, <2>2, <2>3
<1>15. IsList(n + 1, long)'
  <2> HIDE DEF long
  <2>1. long[n + 1 + 1] = Capacity
    <3>1. n + 1 \in 1 .. n + 1
      BY <1>4
    <3>2. QED
      BY <1>9, <1>10, <3>1
  <2>2. \A j \in 1 .. n + 1 : /\ long[j] \in Indices /\ Slot(long[j])'.state = "Free"
                              /\ Slot(long[j])'.size = long[j + 1]
    <3>1. SUFFICES ASSUME NEW j \in 1 .. n + 1
                   PROVE  /\ Slot(long[j])'.state = "Free"
                          /\ Slot(long[j])'.size = long[j + 1]
      BY <1>12
    <3>2. long[j + 1] = order[j]
      BY <1>10
    <3>3. Slot(long[j])' = Slot(long[j])
      BY <1>6
    <3>4. CASE j = 1
      BY <1>7, <1>9, <1>10, <3>2, <3>3, <3>4
    <3>5. CASE j # 1
      <4>1. j - 1 \in 1 .. n /\ long[j] = order[j - 1] /\ j - 1 + 1 = j
        BY <1>4, <1>10, <3>5
      <4>2. QED
        BY <1>9, <3>2, <3>3, <4>1
    <3>6. QED
      BY <3>4, <3>5
  <2>3. QED
    BY <1>6, <1>10, <1>11, <2>1, <2>2 DEF IsList
<1>16. Roomy(n + 1)'
  BY <1>1, <1>3, <1>4, <1>6 DEF IsWitness, Roomy, Ticks
<1>17. Whereabouts(n + 1, long)'
  <2> HIDE DEF long
  <2>1. \A q \in Proc \ dead : InHand(q)' => ~OnList(n + 1, long, Idx(q)')
    BY <1>3
  <2>2. Scarred' \/ \A i \in Indices : OnList(n + 1, long, i) \/ i \in Chained' \/ InHands(i)'
    <3>1. Chained' = Chained
      BY <1>2, Still
    <3>2. QED
      BY <1>1, <1>3, <1>5, <1>14, <3>1 DEF IsWitness, Whereabouts
  <2>3. QED
    BY <1>3, <2>1, <2>2 DEF Whereabouts, OnList
<1>18. QED
  <2> HIDE DEF long
  <2>1. QED
    BY <1>10, <1>13, <1>15, <1>16, <1>17, GiveList DEF IsWitness

(* There is always a free list.                                            *)
LEMMA ListedStep ==
  ASSUME IInv, Workable(scenario), NEW p \in Proc \ dead, Moves(p)
  PROVE  Listed'
BY ListedStill, ListedBeside, ListedTook, ListedPushed DEF Moves, Heading

-----------------------------------------------------------------------------
(* What a process knows after a step.                                      *)

(* Only an insertion whose room was lost takes a node that is not there.   *)
LEMMA WildnessStep ==
  ASSUME IInv, Workable(scenario), NEW p \in Proc \ dead, Moves(p)
  PROVE  Wildness'
<1>1. Uncounted => Uncounted'
  BY DeadAfter
<1>2. \A q \in Proc : pc[q] = "wild" => Uncounted
  BY DEF IInv, Wildness
<1>3. pc'[p] = "wild" => pc[p] = "wild" \/ Strayed(p)
  BY DEF Moves, Calling, Walking, Iterates, Heading, Storing, Linking, UnlinkingStep, Began,
         Locked, Interrupted, Unlocked, Answered, Entered, FoundEmpty, Hit, WentOn, FoundEnd,
         FoundRoom, NotFirst, NotBefore, FoundBefore, Tested, Skipped, Stopped, Yielded,
         TookHead, CountedUp, Pushed, CountedDown, WroteState, WroteNode, WroteFree, WroteLink,
         LinkedFirst, LinkedLast, UnlinkedFirst, UnlinkedInner, Crashed, From
<1>4. ASSUME Strayed(p) PROVE Uncounted
  <2>1. PICK n, order : /\ n \in 0 .. Capacity
                       /\ order \in [1 .. n + 1 -> 0 .. Capacity]
                       /\ IsWitness(n, order)
    BY PickList
  <2>2. pc[p] = "take" /\ nodes.firstFree \notin Indices
    BY <1>4 DEF Strayed, From
  <2>3. nodes.count \in Nat /\ Capacity \in Nat /\ n \in Nat
    BY <2>1, Constants, SlotTypes DEF IInv
  <2>4. n = 0
    <3>1. SUFFICES ASSUME n # 0 PROVE FALSE
      OBVIOUS
    <3>2. 1 \in 1 .. n
      BY <2>3, <3>1
    <3>3. QED
      BY <2>1, <2>2, <3>2 DEF IsWitness, IsList
  <2>5. nodes.count < Capacity
    BY <2>2 DEF IInv, Knowledge, Knows, Insertion
  <2>6. ~AnyAt("count")
    BY <2>2, Sole DEF AnyAt, Inserting
  <2>7. QED
    BY <2>1, <2>3, <2>4, <2>5, <2>6 DEF IsWitness, Roomy, Ticks
<1>5. QED
  BY <1>1, <1>2, <1>3, <1>4, OthersStay DEF Wildness

(* What a process knows it still knows after a step that changes neither   *)
(* it nor the memory.                                                      *)
LEMMA KnowsStill ==
  ASSUME IInv, NEW q \in Proc, Knows(q), nodes' = nodes, Chained' = Chained,
         \A b \in Buckets : Chain(b)' = Chain(b),
         pc'[q] = pc[q], call'[q] = call[q], local'[q] = local[q]
  PROVE  Knows(q)'
<1>1. CASE pc[q] = "idle"
  BY <1>1 DEF Knows, Seeking, Insertion, Removal, Iteration, InHand, Inserting, Iterating
<1>2. CASE pc[q] # "idle"
  <2>1. BucketOf(q) \in Buckets
    BY <1>2, CallTypes
  <2>2. PICK b : b = BucketOf(q) /\ b \in Buckets
    BY <2>1
  <2>3. BucketOf(q)' = b
    BY <2>2 DEF BucketOf, Hash
  <2>4. OwnChain(q)' = OwnChain(q)
    BY <2>2, <2>3 DEF OwnChain
  <2>5. \A i : Slot(i)' = Slot(i)
    BY DEF Slot
  <2>6. Idx(q)' = Idx(q) /\ (InHand(q)' <=> InHand(q))
    BY DEF Idx, InHand
  <2>7. Seeking(q)'
    BY <2>4 DEF Knows, Seeking
  <2>8. Insertion(q)'
    BY <2>4, <2>5, <2>6 DEF Knows, Insertion, AtEnd
  <2>9. Removal(q)'
    BY <2>4, <2>5, <2>6 DEF Knows, Removal
  <2>10. Iteration(q)'
    <3>1. Passed(local[q].tmp)' = Passed(local[q].tmp)
      BY <2>5 DEF Passed
    <3>2. QED
      BY <2>5, <3>1 DEF Knows, Iteration
  <2>11. QED
    BY <2>6, <2>7, <2>8, <2>9, <2>10 DEF Knows
<1>3. QED
  BY <1>1, <1>2

(* The others know no less after a step.                                   *)
LEMMA OthersKnow ==
  ASSUME IInv, Workable(scenario), NEW p \in Proc \ dead, Moves(p),
         NEW q \in Proc \ dead, q # p
  PROVE  Knows(q)'
<1>1. Knows(q) /\ pc'[q] = pc[q] /\ call'[q] = call[q] /\ local'[q] = local[q]
  BY OthersStay DEF IInv, Knowledge
<1>2. CASE Calling(p) \/ Walking(p) \/ Iterates(p) \/ Crashed(p)
  <2>1. nodes' = nodes
    BY <1>2, QuietSteps DEF Quiet, Crashed
  <2>2. Chained' = Chained /\ \A b \in Buckets : Chain(b)' = Chain(b)
    BY <1>2, Still
  <2>3. QED
    BY <1>1, <2>1, <2>2, KnowsStill
<1>3. CASE Heading(p) \/ Storing(p) \/ Linking(p) \/ UnlinkingStep(p)
  <2>1. pc[p] \in Inserting \cup Removing
    BY <1>3, LoudSteps
  <2>2. /\ pc[q] \in {"idle", "lock", "bucket", "walk", "unlock", "wild"}
        /\ pc[q] = "walk" => pc[p] \in Inserting
    BY <2>1, Alone
  <2>3. /\ Insertion(q)' /\ Removal(q)' /\ Iteration(q)' /\ ~InHand(q)'
    BY <1>1, <2>2 DEF Insertion, Removal, Iteration, InHand, Inserting, Iterating
  <2>4. Seeking(q)'
    <3>1. SUFFICES ASSUME pc[q] = "walk" PROVE Seeking(q)'
      BY <1>1 DEF Seeking
    <3>2. PICK b, c : b = BucketOf(q) /\ b \in Buckets /\ c = Chain(b)
      BY <3>1, CallTypes
    <3>3. BucketOf(q)' = b /\ OwnChain(q) = c
      BY <1>1, <3>2 DEF BucketOf, Hash, OwnChain
    <3>4. PICK j \in 1 .. Len(c) : local[q].at = Some(c[j])
      BY <1>1, <3>1, <3>3 DEF Knows, Seeking
    <3>5. c \in Seq(Indices)
      BY <3>2, ChainFacts
    <3>6. ~UnlinkingStep(p)
      BY <2>2, <3>1 DEF UnlinkingStep, UnlinkedFirst, UnlinkedInner, From, Inserting
    <3>7. Chain(b)' = c \/ \E i \in Indices : Chain(b)' = Append(c, i)
      <4>1. CASE Heading(p) \/ Storing(p)
        BY <3>2, <4>1, Still
      <4>2. CASE Linking(p)
        BY <3>2, <4>2, LinkedChains, LocalTypes DEF IInv
      <4>3. QED
        BY <1>3, <3>6, <4>1, <4>2
    <3>8. PICK d : d = Chain(b)'
      OBVIOUS
    <3>9. j \in 1 .. Len(d) /\ d[j] = c[j]
      <4>1. CASE d = c
        BY <4>1
      <4>2. CASE d # c
        <5>1. PICK i \in Indices : d = Append(c, i)
          BY <3>7, <3>8, <4>2
        <5>2. Len(d) = Len(c) + 1 /\ Len(c) \in Nat /\ d[j] = c[j]
          BY <3>5, <5>1, AppendProperties, LenProperties
        <5>3. QED
          BY <5>2
      <4>3. QED
        BY <4>1, <4>2
    <3>10. OwnChain(q)' = d
      BY <3>3, <3>8 DEF OwnChain
    <3>11. QED
      BY <1>1, <3>4, <3>9, <3>10 DEF Seeking
  <2>5. QED
    BY <2>3, <2>4 DEF Knows
<1>4. QED
  BY <1>2, <1>3 DEF Moves

(* The bucket of a call stays the one it works on.                         *)
LEMMA OwnBucket ==
  ASSUME IInv, NEW p \in Proc \ dead, pc[p] # "idle", call'[p] = call[p]
  PROVE  \E b \in Buckets : /\ BucketOf(p) = b /\ BucketOf(p)' = b
                            /\ OwnChain(p) = Chain(b) /\ OwnChain(p)' = Chain(b)'
<1>1. PICK b \in Buckets : BucketOf(p) = b
  BY CallTypes
<1>2. BucketOf(p)' = b
  BY <1>1 DEF BucketOf, Hash
<1>3. OwnChain(p) = Chain(b) /\ OwnChain(p)' = Chain(b)'
  BY <1>1, <1>2 DEF OwnChain
<1>4. QED
  BY <1>1, <1>2, <1>3

(* What a call knows when it has begun or is over.                         *)
LEMMA CallingKnows ==
  ASSUME IInv, NEW p \in Proc \ dead, Calling(p)
  PROVE  Knows(p)'
<1>1. CASE Began(p) /\ pc'[p] = "it_test"
  <2>1. local'[p] = NoLocals /\ pc[p] = "idle"
    <3>1. pc[p] = "idle" /\ local'[p] = local[p]
      BY <1>1 DEF Began
    <3>2. Stands(p)
      BY DEF IInv
    <3>3. local[p] = NoLocals
      BY <3>1, <3>2 DEF Stands, Inserting, Removing, Iterating
    <3>4. QED
      BY <3>1, <3>3
  <2>2. Passed(local[p].tmp)' = {}
    BY <2>1, Constants DEF Passed, NoLocals, Indices
  <2>3. Len(local'[p].seen) = Cardinality(Passed(local[p].tmp)')
    <3>1. Cardinality({}) = 0
      BY FS_EmptySet
    <3>2. NoLocals.seen = <<>> /\ Len(<<>>) = 0
      BY DEF NoLocals
    <3>3. Len(local'[p].seen) = 0
      BY <2>1, <3>2
    <3>4. QED
      BY <2>2, <3>1, <3>3
  <2>4. QED
    BY <1>1, <2>3 DEF Knows, Seeking, Insertion, Removal, Iteration, InHand, Inserting, Iterating
<1>2. CASE ~(Began(p) /\ pc'[p] = "it_test")
  <2>1. pc'[p] \in {"lock", "bucket", "unlock", "idle"}
    BY <1>2 DEF Calling, Began, Locked, Interrupted, Unlocked, Answered, From
  <2>2. QED
    BY <2>1 DEF Knows, Seeking, Insertion, Removal, Iteration, InHand, Inserting, Iterating
<1>3. QED
  BY <1>1, <1>2

(* What a call knows as it walks.                                          *)
LEMMA WalkingKnows ==
  ASSUME IInv, NEW p \in Proc \ dead, Walking(p)
  PROVE  Knows(p)'
<1>1. /\ pc[p] # "idle" /\ call'[p] = call[p] /\ Typing /\ Quiet
      /\ p \in Proc /\ Knows(p) /\ local[p] \in Locals
      /\ local[p].at \in Offset
  BY LocalTypes DEF Walking, Entered, FoundEmpty, Hit, WentOn, FoundEnd, FoundRoom, Strayed,
     NotFirst, NotBefore, FoundBefore, Keeps, From, Looks, Same, IInv, Knowledge
<1>2. PICK b \in Buckets : /\ BucketOf(p) = b /\ BucketOf(p)' = b
                           /\ OwnChain(p) = Chain(b) /\ OwnChain(p)' = Chain(b)'
  BY <1>1, OwnBucket
<1>3. PICK c : c = Chain(b)
  OBVIOUS
<1>4. /\ OwnChain(p) = c /\ OwnChain(p)' = c
      /\ \A i : Slot(i)' = Slot(i)
  <2>1. Chain(b)' = c
    BY <1>3, Still
  <2>2. QED
    BY <1>1, <1>2, <1>3, <2>1 DEF Quiet, Slot
<1>5. /\ Len(c) \in Nat /\ buckets[b] = LinkTo(c, 1)
      /\ \A j \in 1 .. Len(c) : c[j] \in Indices
      /\ \A j, k \in 1 .. Len(c) : c[j] = c[k] => j = k
  BY <1>3, ChainFacts
<1>6. \A j \in 1 .. Len(c) + 1 :
        /\ LinkTo(c, j) = None <=> j = Len(c) + 1
        /\ j # Len(c) + 1 => j \in 1 .. Len(c) /\ LinkTo(c, j) = Some(c[j])
  BY <1>3, LinkFacts
<1>7. CASE Entered(p) \/ WentOn(p)
  <2>1. \E j \in 1 .. Len(c) + 1 : local'[p].at = LinkTo(c, j) /\ local'[p].at # None
    <3>1. CASE Entered(p)
      <4>1. local'[p].at = buckets[b] /\ local'[p].at # None
        BY <1>1, <1>2, <3>1 DEF Entered, Looks, Locals
      <4>2. 1 \in 1 .. Len(c) + 1
        BY <1>5
      <4>3. QED
        BY <1>5, <4>1, <4>2
    <3>2. CASE WentOn(p)
      <4>1. pc[p] = "walk" /\ local'[p].at = Visited(p).next /\ local'[p].at # None
        BY <1>1, <3>2 DEF WentOn, From, Looks, Locals
      <4>2. PICK j \in 1 .. Len(c) : Visited(p).next = LinkTo(c, j + 1)
        BY <1>4, <4>1, WalkAt
      <4>3. j + 1 \in 1 .. Len(c) + 1
        BY <1>5
      <4>4. QED
        BY <4>1, <4>2, <4>3
    <3>3. QED
      BY <1>7, <3>1, <3>2
  <2>2. \E j \in 1 .. Len(c) : local'[p].at = Some(c[j])
    BY <1>6, <2>1
  <2>3. pc'[p] = "walk"
    BY <1>7 DEF Entered, WentOn, From
  <2>4. QED
    BY <1>4, <2>2, <2>3 DEF Knows, Seeking, Insertion, Removal, Iteration, InHand,
                            Inserting, Iterating
<1>8. CASE FoundEmpty(p) \/ FoundEnd(p) \/ FoundRoom(p)
  <2>1. pc'[p] \in {"full", "take"} /\ (pc'[p] = "take" => nodes'.count < Capacity)
    BY <1>1, <1>8 DEF FoundEmpty, FoundEnd, FoundRoom, From, Quiet
  <2>2. AtEnd(p)'
    <3>1. CASE FoundEmpty(p)
      <4>1. local'[p].at = None /\ buckets[b] = None
        BY <1>1, <1>2, <3>1 DEF FoundEmpty, Looks, Locals
      <4>2. Len(c) = 0
        <5>1. 1 \in 1 .. Len(c) + 1
          BY <1>5
        <5>2. 1 = Len(c) + 1
          BY <1>5, <1>6, <4>1, <5>1
        <5>3. QED
          BY <1>5, <5>2
      <4>3. c = <<>>
        BY <1>3, <4>2, ChainFacts, EmptySeq
      <4>4. QED
        BY <1>4, <4>1, <4>3 DEF AtEnd
    <3>2. CASE FoundEnd(p)
      <4>1. pc[p] = "walk" /\ Visited(p).next = None /\ local'[p].at = local[p].at
            /\ local'[p].from = Visited(p)
        BY <1>1, <3>2 DEF FoundEnd, From, Looks, Locals
      <4>2. PICK j \in 1 .. Len(c) : /\ Visited(p).next = LinkTo(c, j + 1)
                                     /\ local[p].at = Some(c[j])
        BY <1>4, <4>1, WalkAt
      <4>3. j + 1 \in 1 .. Len(c) + 1
        BY <1>5
      <4>4. j = Len(c) /\ c # <<>>
        <5>1. j + 1 = Len(c) + 1
          BY <1>6, <4>1, <4>2, <4>3
        <5>2. Len(<<>>) = 0
          OBVIOUS
        <5>3. QED
          BY <1>5, <5>1, <5>2
      <4>5. QED
        BY <1>4, <4>1, <4>2, <4>4 DEF AtEnd, Visited
    <3>3. CASE FoundRoom(p)
      <4>1. pc[p] \in Inserting /\ local'[p] = local[p]
        BY <3>3 DEF FoundRoom, From, Same, Inserting
      <4>2. AtEnd(p)
        BY <1>1, <4>1 DEF Knows, Insertion
      <4>3. QED
        BY <1>4, <4>1, <4>2 DEF AtEnd
    <3>4. QED
      BY <1>8, <3>1, <3>2, <3>3
  <2>3. QED
    BY <2>1, <2>2 DEF Knows, Seeking, Insertion, Removal, Iteration, InHand,
                      Inserting, Iterating
<1>9. CASE Hit(p)
  <2>1. /\ pc[p] = "walk" /\ pc'[p] = "first"
        /\ local'[p].idx = At(local[p].at) /\ local'[p].after = Visited(p).next
    BY <1>1, <1>9 DEF Hit, From, Looks, Locals
  <2>2. PICK j \in 1 .. Len(c) : /\ At(local[p].at) = c[j]
                                 /\ Visited(p).next = LinkTo(c, j + 1)
    BY <1>4, <2>1, WalkAt
  <2>3. Idx(p)' = c[j] /\ local'[p].after = LinkTo(c, j + 1)
    BY <2>1, <2>2 DEF Idx
  <2>4. QED
    BY <1>4, <2>1, <2>3 DEF Knows, Seeking, Insertion, Removal, Iteration, InHand,
                            Inserting, Iterating
<1>10. CASE Strayed(p)
  <2>1. pc'[p] = "wild"
    BY <1>10 DEF Strayed, From
  <2>2. QED
    BY <2>1 DEF Knows, Seeking, Insertion, Removal, Iteration, InHand, Inserting, Iterating
<1>11. CASE NotFirst(p) \/ NotBefore(p) \/ FoundBefore(p)
  <2>1. pc[p] \in {"first", "before", "unlink"}
    BY <1>11 DEF NotFirst, NotBefore, FoundBefore, From
  <2>2. PICK j \in 1 .. Len(c) :
          /\ Idx(p) = c[j] /\ local[p].after = LinkTo(c, j + 1)
          /\ pc[p] = "before" => \E k \in 1 .. j - 1 :
                                   /\ local[p].at = Some(c[k])
                                   /\ Visited(p).next = Some(c[k + 1])
    BY <1>4, <2>1, RemovalAt
  <2>3. Idx(p)' = c[j] /\ local'[p].after = LinkTo(c, j + 1)
    BY <1>1, <1>11, <2>2 DEF NotFirst, NotBefore, FoundBefore, Looks, Locals, Idx
  <2>4. \A i, k \in Indices : Some(i) = Some(k) => i = k
    BY Constants
  <2>5. CASE NotFirst(p)
    <3>1. pc'[p] = "before" /\ local'[p].at = LinkTo(c, 1) /\ LinkTo(c, 1) # Some(c[j])
      BY <1>1, <1>2, <1>5, <2>2, <2>5 DEF NotFirst, From, Looks, Locals
    <3>2. 1 \in 1 .. Len(c) /\ LinkTo(c, 1) = Some(c[1])
      BY <1>5 DEF LinkTo
    <3>3. 1 \in 1 .. j - 1
      BY <1>5, <3>1, <3>2
    <3>4. QED
      BY <1>4, <2>3, <3>1, <3>2, <3>3 DEF Knows, Seeking, Insertion, Removal, Iteration,
                                          InHand, Inserting, Iterating
  <2>6. CASE NotBefore(p) \/ FoundBefore(p)
    <3>1. pc[p] = "before"
      BY <2>6 DEF NotBefore, FoundBefore, From
    <3>2. PICK k \in 1 .. j - 1 : /\ local[p].at = Some(c[k])
                                  /\ Visited(p).next = Some(c[k + 1])
      BY <2>2, <3>1
    <3>3. k + 1 \in 1 .. j /\ k + 1 \in 1 .. Len(c) /\ k \in 1 .. Len(c)
      BY <1>5
    <3>4. CASE NotBefore(p)
      <4>1. pc'[p] = "before" /\ local'[p].at = Some(c[k + 1]) /\ Some(c[k + 1]) # Some(c[j])
        BY <1>1, <2>2, <3>2, <3>4 DEF NotBefore, From, Looks, Locals
      <4>2. k + 1 \in 1 .. j - 1
        <5>1. k + 1 # j
          BY <4>1
        <5>2. QED
          BY <1>5, <3>3, <5>1
      <4>3. QED
        BY <1>4, <2>3, <4>1, <4>2 DEF Knows, Seeking, Insertion, Removal, Iteration,
                                      InHand, Inserting, Iterating
    <3>5. CASE FoundBefore(p)
      <4>1. /\ pc'[p] = "unlink" /\ Some(c[k + 1]) = Some(c[j])
            /\ local'[p].at = local[p].at /\ local'[p].from = Visited(p)
        BY <1>1, <2>2, <3>2, <3>5 DEF FoundBefore, From, Looks, Locals
      <4>2. k = j - 1 /\ j > 1
        <5>1. k + 1 = j
          BY <1>5, <2>4, <3>3, <4>1
        <5>2. QED
          BY <1>5, <5>1
      <4>3. local'[p].at = Some(c[j - 1])
        BY <3>2, <4>1, <4>2
      <4>4. local'[p].from = Slot(c[j - 1]).data'
        <5>1. At(Some(c[k])) = c[k]
          BY <1>5, <3>3, Constants
        <5>2. QED
          BY <1>4, <3>2, <4>1, <4>2, <5>1 DEF Visited
      <4>5. QED
        BY <1>4, <2>3, <4>1, <4>2, <4>3, <4>4 DEF Knows, Seeking, Insertion, Removal,
                                  Iteration, InHand, Inserting, Iterating
    <3>6. QED
      BY <2>6, <3>4, <3>5
  <2>7. QED
    BY <1>11, <2>5, <2>6
<1>12. QED
  BY <1>7, <1>8, <1>9, <1>10, <1>11 DEF Walking

(* What a call knows as it iterates.                                       *)
LEMMA IteratingKnows ==
  ASSUME IInv, NEW p \in Proc \ dead, Iterates(p)
  PROVE  Knows(p)'
<1>1. /\ Typing /\ Quiet /\ p \in Proc /\ Knows(p) /\ local[p] \in Locals
      /\ local[p].tmp \in Offset /\ local[p].seen \in Seq(Key)
      /\ pc[p] \in Iterating
  BY LocalTypes DEF Iterates, Tested, Skipped, Stopped, Yielded, Keeps, From, IInv, Knowledge,
     Iterating
<1>2. \A i : Slot(i)' = Slot(i)
  BY <1>1 DEF Quiet, Slot
<1>3. PICK t : t = local[p].tmp /\ t \in Offset
  BY <1>1
<1>4. PICK u : u = local'[p].tmp
  OBVIOUS
<1>5. Passed(local[p].tmp)' = Passed(u)
  BY <1>2, <1>4 DEF Passed
<1>6. Len(local[p].seen) = Cardinality(Passed(t))
  BY <1>1, <1>3 DEF Knows, Iteration
<1>7. Len(local'[p].seen) = Cardinality(Passed(u))
  <2>1. CASE Tested(p) \/ Stopped(p)
    BY <1>3, <1>4, <1>6, <2>1 DEF Tested, Stopped, Same
  <2>2. CASE Skipped(p)
    <3>1. u = t + 1 /\ local'[p].seen = local[p].seen /\ t \in Indices /\ Slot(t).state = "Free"
      BY <1>1, <1>3, <1>4, <2>2 DEF Skipped, Looks, Locals
    <3>2. Passed(t + 1) = Passed(t)
      BY <1>1, <1>3, <3>1, PassedFacts
    <3>3. QED
      BY <1>6, <3>1, <3>2
  <2>3. CASE Yielded(p)
    <3>1. u = t + 1 /\ local'[p].seen = Append(local[p].seen, Slot(t).data.key)
      BY <1>1, <1>3, <1>4, <2>3 DEF Yielded, Looks, Locals
    <3>2. t \in Indices /\ Slot(t).state = "Occupied"
      BY <1>1, <1>3, <2>3 DEF Knows, Iteration, Yielded, From
    <3>3. Cardinality(Passed(t + 1)) = Cardinality(Passed(t)) + 1
      BY <1>1, <1>3, <3>2, PassedFacts
    <3>4. Slot(t).data.key \in Key
      BY <1>3, <2>3 DEF Yielded, Node
    <3>5. Len(local'[p].seen) = Len(local[p].seen) + 1
      BY <1>1, <3>1, <3>4, AppendProperties
    <3>6. QED
      BY <1>6, <3>1, <3>3, <3>5
  <2>4. QED
    BY <2>1, <2>2, <2>3 DEF Iterates
<1>8. pc'[p] \in Iterating
  BY DEF Iterates, Tested, Skipped, Stopped, Yielded, From, Iterating
<1>9. pc'[p] = "it_skip" => Len(local'[p].seen) < nodes'.count
  <2>1. CASE Tested(p)
    BY <1>1, <2>1 DEF Tested, Same, Quiet
  <2>2. CASE Skipped(p)
    <3>1. local'[p].seen = local[p].seen /\ nodes' = nodes /\ pc[p] = "it_skip"
      BY <1>1, <2>2 DEF Skipped, Looks, Locals, Quiet, From
    <3>2. QED
      BY <1>1, <3>1 DEF Knows, Iteration
  <2>3. CASE Stopped(p) \/ Yielded(p)
    BY <2>3 DEF Stopped, Yielded, From
  <2>4. QED
    BY <2>1, <2>2, <2>3 DEF Iterates
<1>10. pc'[p] = "it_read" => u \in Indices /\ Slot(u)'.state = "Occupied"
  <2>1. CASE Stopped(p)
    BY <1>2, <1>4, <2>1 DEF Stopped, Same
  <2>2. CASE ~Stopped(p)
    BY <2>2 DEF Iterates, Tested, Skipped, Yielded, From
  <2>3. QED
    BY <2>1, <2>2
<1>11. Iteration(p)'
  BY <1>4, <1>5, <1>7, <1>9, <1>10 DEF Iteration
<1>12. QED
  BY <1>8, <1>11 DEF Knows, Seeking, Insertion, Removal, InHand, Inserting, Iterating

(* The end of a chain stays the end while nobody links or unlinks.         *)
LEMMA AtEndStays ==
  ASSUME IInv, NEW p \in Proc \ dead, AtEnd(p), pc[p] # "idle", call'[p] = call[p],
         Heading(p) \/ Storing(p), \A i \in Chained : Slot(i)' = Slot(i),
         local'[p].at = local[p].at, local'[p].from = local[p].from
  PROVE  AtEnd(p)'
<1>1. PICK b \in Buckets : /\ BucketOf(p) = b /\ BucketOf(p)' = b
                           /\ OwnChain(p) = Chain(b) /\ OwnChain(p)' = Chain(b)'
  BY OwnBucket
<1>2. PICK c : c = Chain(b)
  OBVIOUS
<1>3. OwnChain(p) = c /\ OwnChain(p)' = c
  <2>1. Chain(b)' = c
    BY <1>2, Still
  <2>2. QED
    BY <1>1, <1>2, <2>1
<1>4. CASE c = <<>>
  BY <1>3, <1>4 DEF AtEnd
<1>5. CASE c # <<>>
  <2>1. local[p].at = Some(c[Len(c)]) /\ local[p].from = Slot(At(local[p].at)).data
    BY <1>3, <1>5 DEF AtEnd
  <2>2. Len(c) \in 1 .. Len(c) /\ c \in Seq(Indices)
    <3>1. c \in Seq(Indices)
      BY <1>2, ChainFacts
    <3>2. Len(c) \in Nat /\ Len(c) # 0
      BY <1>5, <3>1, EmptySeq, LenProperties
    <3>3. QED
      BY <3>1, <3>2
  <2>3. c[Len(c)] \in Indices /\ c[Len(c)] \in Chained
    BY <1>2, <2>2, ChainFacts
  <2>4. PICK l : l = c[Len(c)] /\ l \in Indices /\ l \in Chained
    BY <2>3
  <2>5. At(local[p].at) = l
    BY <2>1, <2>4, Constants
  <2>6. Slot(l)' = Slot(l)
    BY <2>4
  <2>7. At(local'[p].at) = l /\ local'[p].from = Slot(l).data
    BY <2>1, <2>5
  <2>8. Slot(At(local[p].at))'.data = Slot(l).data
    BY <2>6, <2>7 DEF Slot
  <2>9. QED
    BY <1>3, <1>5, <2>1, <2>7, <2>8 DEF AtEnd
<1>6. QED
  BY <1>4, <1>5

(* What a call knows as it writes to a node or to the header.              *)
LEMMA WritingKnows ==
  ASSUME IInv, NEW p \in Proc \ dead, Heading(p) \/ Storing(p)
  PROVE  Knows(p)'
<1>1. /\ pc[p] # "idle" /\ call'[p] = call[p] /\ Typing
      /\ p \in Proc /\ Knows(p) /\ local[p] \in Locals /\ Idx(p) \in Indices
  BY LocalTypes DEF Heading, Storing, TookHead, CountedUp, Pushed, CountedDown, WroteState,
     WroteNode, WroteFree, WroteLink, Looks, Same, From, IInv, Knowledge
<1>2. Chained' = Chained
  BY Still
<1>3. CASE Pushed(p) \/ CountedDown(p)
  <2>1. pc'[p] \in {"uncount", "unlock"}
    BY <1>3 DEF Pushed, CountedDown, From
  <2>2. QED
    BY <2>1 DEF Knows, Seeking, Insertion, Removal, Iteration, InHand, Inserting, Iterating
<1>4. CASE TookHead(p)
  <2>1. /\ pc[p] = "take" /\ pc'[p] = "count" /\ nodes.firstFree \in Indices
        /\ Idx(p)' = nodes.firstFree
        /\ local'[p].at = local[p].at /\ local'[p].from = local[p].from
    BY <1>1, <1>4 DEF TookHead, From, Looks, Locals, Idx
  <2>2. \A i : Slot(i)' = Slot(i)
    BY <1>1, <1>4, HeadsSlots DEF TookHead
  <2>3. AtEnd(p)
    BY <1>1, <2>1 DEF Knows, Insertion, Inserting
  <2>4. AtEnd(p)'
    BY <1>1, <1>4, <2>1, <2>2, <2>3, AtEndStays DEF Heading
  <2>5. nodes.firstFree \notin Chained
    <3>1. PICK n, order : /\ n \in 0 .. Capacity
                         /\ order \in [1 .. n + 1 -> 0 .. Capacity]
                         /\ IsWitness(n, order)
      BY PickList
    <3>2. IsList(n, order) /\ order[1] = nodes.firstFree
      BY <3>1 DEF IsWitness, IsList
    <3>3. n \in Nat /\ n # 0
      BY <2>1, <3>1, <3>2, Constants DEF IsList, Indices
    <3>4. OnList(n, order, nodes.firstFree)
      BY <3>2, <3>3 DEF OnList
    <3>5. QED
      BY <3>1, <3>2, <3>4, ListedFree
  <2>6. Idx(p)' \notin Chained'
    BY <1>2, <2>1, <2>5
  <2>7. QED
    BY <2>1, <2>4, <2>6 DEF Knows, Seeking, Insertion, Removal, Iteration, InHand,
                            Inserting, Iterating
<1>5. CASE CountedUp(p)
  <2>1. pc[p] = "count" /\ pc'[p] = "wr_state" /\ local'[p] = local[p]
    BY <1>5 DEF CountedUp, From, Same
  <2>2. \A i : Slot(i)' = Slot(i)
    BY <1>1, <1>5, HeadsSlots, SlotTypes DEF CountedUp
  <2>3. AtEnd(p) /\ Idx(p) \notin Chained
    BY <1>1, <2>1 DEF Knows, Insertion, Inserting, InHand
  <2>4. AtEnd(p)'
    BY <1>1, <1>5, <2>1, <2>2, <2>3, AtEndStays DEF Heading
  <2>5. Idx(p)' \notin Chained'
    BY <1>2, <2>1, <2>3 DEF Idx
  <2>6. QED
    BY <2>1, <2>4, <2>5 DEF Knows, Seeking, Insertion, Removal, Iteration, InHand,
                            Inserting, Iterating
<1>6. CASE Storing(p)
  <2> PICK i : i = Idx(p) /\ i \in Indices
    BY <1>1
  <2>1. PICK r : i = Idx(p) /\ i \in Indices /\ Stores(p, i, r)
                    /\ (WroteState(p) => r = [Slot(i) EXCEPT !.state = "Occupied"])
                    /\ (WroteNode(p) => r = N!Written(NewNode(p)))
                    /\ (WroteFree(p) => r = [Slot(i) EXCEPT !.state = "Free", !.data = NoNode])
                    /\ (WroteLink(p) => r = [Slot(i) EXCEPT !.size = local[p].tmp])
    <3>1. CASE WroteState(p)
      <4>1. Stores(p, i, [Slot(i) EXCEPT !.state = "Occupied"])
        BY <3>1 DEF WroteState
      <4>2. ~WroteNode(p) /\ ~WroteFree(p) /\ ~WroteLink(p)
        BY <3>1 DEF WroteState, WroteNode, WroteFree, WroteLink, From
      <4>3. QED
        BY <1>1, <4>1, <4>2
    <3>2. CASE WroteNode(p)
      <4>1. Stores(p, i, N!Written(NewNode(p)))
        BY <3>2 DEF WroteNode
      <4>2. ~WroteState(p) /\ ~WroteFree(p) /\ ~WroteLink(p)
        BY <3>2 DEF WroteState, WroteNode, WroteFree, WroteLink, From
      <4>3. QED
        BY <1>1, <4>1, <4>2
    <3>3. CASE WroteFree(p)
      <4>1. Stores(p, i, [Slot(i) EXCEPT !.state = "Free", !.data = NoNode])
        BY <3>3 DEF WroteFree
      <4>2. ~WroteState(p) /\ ~WroteNode(p) /\ ~WroteLink(p)
        BY <3>3 DEF WroteState, WroteNode, WroteFree, WroteLink, From
      <4>3. QED
        BY <1>1, <4>1, <4>2
    <3>4. CASE WroteLink(p)
      <4>1. Stores(p, i, [Slot(i) EXCEPT !.size = local[p].tmp])
        BY <3>4 DEF WroteLink
      <4>2. ~WroteState(p) /\ ~WroteNode(p) /\ ~WroteFree(p)
        BY <3>4 DEF WroteState, WroteNode, WroteFree, WroteLink, From
      <4>3. QED
        BY <1>1, <4>1, <4>2
    <3>5. QED
      BY <1>6, <3>1, <3>2, <3>3, <3>4 DEF Storing
  <2>2. /\ nodes'.firstFree = nodes.firstFree
        /\ \A k \in Indices : Slot(k)' = IF k = i THEN r ELSE Slot(k)
    BY <1>1, <2>1, StoresSlots
  <2>3. pc[p] \in {"wr_state", "wr_node", "rm_state", "rm_link"}
    BY <1>6 DEF Storing, WroteState, WroteNode, WroteFree, WroteLink, From
  <2>4. i \notin Chained
    BY <1>1, <2>1, <2>3 DEF Knows, InHand
  <2>5. \A k \in Chained : Slot(k)' = Slot(k)
    BY <2>2, <2>4, ChainedFacts
  <2>6. Idx(p)' = i
    BY <1>1, <1>6, <2>1 DEF Storing, WroteState, WroteNode, WroteFree, WroteLink, Same, Looks,
                            Locals, Idx
  <2>7. Idx(p)' \notin Chained' /\ Slot(Idx(p))' = r
    <3>1. Slot(i)' = r
      BY <2>1, <2>2
    <3>2. QED
      BY <1>2, <2>4, <2>6, <3>1 DEF Slot
  <2>8. Slot(i) \in N!SlotMetadata
    BY <1>1, <2>1, SlotTypes
  <2>9. CASE WroteState(p) \/ WroteNode(p)
    <3>1. pc[p] \in Inserting /\ pc'[p] \in {"wr_node", "link"} /\ local'[p] = local[p]
          /\ (pc'[p] = "link" <=> WroteNode(p))
      BY <2>9 DEF WroteState, WroteNode, From, Same, Inserting
    <3>2. AtEnd(p)'
      <4>1. AtEnd(p)
        BY <1>1, <3>1 DEF Knows, Insertion
      <4>2. QED
        BY <1>1, <1>6, <2>5, <3>1, <4>1, AtEndStays
    <3>3. Slot(Idx(p))'.state = "Occupied"
      BY <2>1, <2>7, <2>8, <2>9 DEF N!Written, N!SlotMetadata
    <3>4. pc'[p] = "link" => Slot(Idx(p))'.data = NewNode(p)
      BY <2>1, <2>7, <3>1 DEF N!Written
    <3>5. pc'[p] = "link" =>
            Slot(Idx(p))'.data = [key |-> call'[p].key, position |-> call'[p].position,
                                  next |-> None]
      BY <1>1, <3>4 DEF NewNode
    <3>6. Insertion(p)'
      BY <3>1, <3>2, <3>3, <3>5 DEF Insertion
    <3>7. QED
      BY <2>7, <3>1, <3>6 DEF Knows, Seeking, Removal, Iteration, InHand, Inserting, Iterating
  <2>10. CASE WroteFree(p)
    <3>1. pc'[p] = "rm_link" /\ local'[p].tmp = nodes.firstFree
      BY <1>1, <2>10 DEF WroteFree, From, Looks, Locals
    <3>2. Slot(Idx(p))'.state = "Free"
      BY <2>1, <2>7, <2>8, <2>10 DEF N!SlotMetadata
    <3>3. QED
      BY <2>2, <2>7, <3>1, <3>2 DEF Knows, Seeking, Insertion, Removal, Iteration, InHand,
                                    Inserting, Iterating
  <2>11. CASE WroteLink(p)
    <3>1. pc[p] = "rm_link" /\ pc'[p] = "rm_first"
      BY <2>11 DEF WroteLink, From
    <3>2. Slot(i).state = "Free" /\ local[p].tmp = nodes.firstFree
      BY <1>1, <2>1, <3>1 DEF Knows, Removal
    <3>3. Slot(Idx(p))'.state = "Free" /\ Slot(Idx(p))'.size = nodes'.firstFree
      BY <2>1, <2>2, <2>7, <2>8, <2>11, <3>2 DEF N!SlotMetadata
    <3>4. QED
      BY <2>7, <3>1, <3>3 DEF Knows, Seeking, Insertion, Removal, Iteration, InHand,
                              Inserting, Iterating
  <2>12. QED
    BY <1>6, <2>9, <2>10, <2>11 DEF Storing
<1>7. QED
  BY <1>3, <1>4, <1>5, <1>6 DEF Heading

(* What a call knows when it has linked or unlinked its node.              *)
LEMMA LinkingKnows ==
  ASSUME IInv, NEW p \in Proc \ dead, Linking(p) \/ UnlinkingStep(p)
  PROVE  Knows(p)'
<1>1. CASE Linking(p)
  <2>1. pc'[p] = "unlock"
    BY <1>1 DEF Linking, LinkedFirst, LinkedLast, From
  <2>2. QED
    BY <2>1 DEF Knows, Seeking, Insertion, Removal, Iteration, InHand, Inserting, Iterating
<1>2. CASE UnlinkingStep(p)
  <2>1. pc'[p] = "rm_state" /\ Idx(p)' = Idx(p)
    BY <1>2 DEF UnlinkingStep, UnlinkedFirst, UnlinkedInner, From, Points, Idx
  <2>2. Idx(p)' \notin Chained'
    BY <1>2, <2>1, UnlinkedChains
  <2>3. QED
    BY <2>1, <2>2 DEF Knows, Seeking, Insertion, Removal, Iteration, InHand,
                      Inserting, Iterating
<1>3. QED
  BY <1>1, <1>2

(* Everybody knows what it needs after a step.                             *)
LEMMA KnowledgeStep ==
  ASSUME IInv, Workable(scenario), NEW p \in Proc \ dead, Moves(p)
  PROVE  Knowledge'
<1>1. ASSUME NEW q \in Proc \ dead, q # p PROVE Knows(q)'
  BY <1>1, OthersKnow
<1>2. CASE Crashed(p)
  <2>1. dead' = dead \cup {p}
    BY <1>2 DEF Crashed
  <2>2. QED
    BY <1>1, <2>1 DEF Knowledge
<1>3. CASE ~Crashed(p)
  <2>1. Knows(p)'
    BY <1>3, CallingKnows, WalkingKnows, IteratingKnows, WritingKnows, LinkingKnows DEF Moves
  <2>2. dead' = dead
    BY <1>3, OthersStay, Ways
  <2>3. QED
    BY <1>1, <2>1, <2>2 DEF Knowledge
<1>4. QED
  BY <1>2, <1>3

-----------------------------------------------------------------------------
(* The invariant.                                                          *)

(* Nothing is lost when nothing happens.                                   *)
LEMMA StutterIInv ==
  ASSUME IInv, UNCHANGED vars
  PROVE  IInv'
<1>1. /\ scenario' = scenario /\ buckets' = buckets /\ nodes' = nodes /\ owner' = owner
      /\ dead' = dead /\ pc' = pc /\ call' = call /\ local' = local /\ out' = out
  BY DEF vars
<1>2. /\ Chains' /\ Chained' = Chained
      /\ \A b \in Buckets : Chain(b)' = Chain(b)
  BY <1>1, ChainsStay DEF Slot
<1>3. /\ AnyUnlinked' <=> AnyUnlinked
      /\ \A here : AnyAt(here)' <=> AnyAt(here)
      /\ \A i : InHands(i)' <=> InHands(i)
      /\ Uncounted' <=> Uncounted
      /\ Scarred' <=> Scarred
  BY <1>1 DEF AnyUnlinked, AnyAt, InHands, InHand, Idx, Uncounted, Scarred, Changing, Unlinked
<1>4. Typing'
  BY <1>1 DEF IInv, Typing
<1>5. \A p \in Proc : Stands(p)'
  <2>1. ASSUME NEW p \in Proc PROVE Stands(p)'
    <3>1. Stands(p)
      BY DEF IInv
    <3>2. QED
      BY <1>1, <3>1 DEF Stands, IsOp
  <2>2. QED
    BY <2>1
<1>6. Locks'
  BY <1>1 DEF IInv, Locks, IsOp
<1>7. Counted'
  <2>1. Counted
    BY DEF IInv
  <2>2. QED
    BY <1>1, <1>2, <1>3, <2>1 DEF Counted, Ticks
<1>8. Listed'
  <2>1. PICK n, order : /\ n \in 0 .. Capacity
                       /\ order \in [1 .. n + 1 -> 0 .. Capacity]
                       /\ IsWitness(n, order)
    BY PickList
  <2>2. IsList(n, order)'
    BY <1>1, <2>1 DEF IsWitness, IsList, Slot
  <2>3. Roomy(n)'
    BY <1>1, <1>3, <2>1 DEF IsWitness, Roomy, Ticks
  <2>4. Whereabouts(n, order)'
    BY <1>1, <1>2, <1>3, <2>1 DEF IsWitness, Whereabouts, InHand, Idx, OnList
  <2>5. QED
    BY <2>1, <2>2, <2>3, <2>4, GiveList DEF IsWitness
<1>9. Knowledge'
  <2>1. ASSUME NEW p \in Proc \ dead PROVE Knows(p)'
    <3>1. Knows(p)
      BY DEF IInv, Knowledge
    <3>2. QED
      BY <1>1, <1>2, <3>1, KnowsStill
  <2>2. QED
    BY <1>1, <2>1 DEF Knowledge
<1>10. Wildness'
  BY <1>1, <1>3 DEF IInv, Wildness
<1>11. QED
  BY <1>2, <1>4, <1>5, <1>6, <1>7, <1>8, <1>9, <1>10 DEF IInv

(* Every step keeps the invariant.                                         *)
LEMMA NextIInv ==
  ASSUME IInv, Workable(scenario), [Next]_vars
  PROVE  IInv'
<1>1. CASE Next
  <2>1. PICK p \in Proc \ dead : Moves(p)
    BY <1>1, NextMoves
  <2>2. Typing' /\ (\A q \in Proc : Stands(q)') /\ Locks'
    BY <2>1, TypingStep, StandsStep, LocksStep
  <2>3. Chains'
    BY <2>1, Still, LinkedChains, UnlinkedChains DEF Moves
  <2>4. Counted' /\ Listed' /\ Knowledge' /\ Wildness'
    BY <2>1, CountedStep, ListedStep, KnowledgeStep, WildnessStep
  <2>5. QED
    BY <2>2, <2>3, <2>4 DEF IInv
<1>2. CASE UNCHANGED vars
  BY <1>2, StutterIInv
<1>3. QED
  BY <1>1, <1>2

(* The invariant holds at first: no chain has a node, and the free list    *)
(* has them all in the order of their slots.                               *)
LEMMA InitIInv == Init => IInv
<1> SUFFICES ASSUME Init PROVE IInv
  OBVIOUS
<1>1. /\ scenario \in Scenarios /\ buckets = [b \in Buckets |-> None] /\ owner = NoProc
      /\ dead = {} /\ pc = [p \in Proc |-> "idle"] /\ call = [p \in Proc |-> Map!NoCall]
      /\ local = [p \in Proc |-> NoLocals] /\ out = [p \in Proc |-> Map!Ok]
      /\ nodes = N!New
  BY DEF Init
<1>2. /\ nodes.count = 0 /\ nodes.firstFree = 0 /\ nodes \in N!SlotsHeader
      /\ \A i \in Indices : /\ Slot(i).state = "Free"
                            /\ Slot(i).size = IF i + 1 < Capacity THEN i + 1 ELSE Capacity
  <2>1. Capacity \in Nat
    BY Constants
  <2>2. \A i \in Indices : (IF i + 1 < Capacity THEN i + 1 ELSE Capacity) \in Nat
    BY <2>1 DEF Indices
  <2>3. QED
    BY <1>1, <2>1, <2>2 DEF N!New, N!SlotsHeader, N!SlotMetadata, N!Indices, Slot, Indices
<1>3. Typing
  <2>1. NoLocals \in Locals
    <3>1. 0 \in Indices /\ 0 \in Offset /\ None \in Offset
      BY Constants DEF Indices, Offset
    <3>2. <<>> \in Seq(Key)
      OBVIOUS
    <3>3. QED
      BY <3>1, <3>2 DEF NoLocals, Locals
  <2>2. buckets \in [Buckets -> Offset]
    BY <1>1, Constants
  <2>3. "idle" \in PCs
    BY DEF PCs
  <2>4. QED
    BY <1>1, <1>2, <2>1, <2>2, <2>3 DEF Typing
<1>4. (\A p \in Proc : Stands(p)) /\ Locks /\ Wildness
  BY <1>1 DEF Stands, Locks, Wildness
<1>5. \A b \in Buckets : IsChain(b, <<>>) /\ Chain(b) = <<>>
  <2>1. SUFFICES ASSUME NEW b \in Buckets PROVE IsChain(b, <<>>)
    BY ChainIs
  <2>2. Len(<<>>) = 0 /\ <<>> \in Seq(Indices) /\ LinkTo(<<>>, 1) = None
    BY DEF LinkTo
  <2>3. QED
    BY <1>1, <2>2 DEF IsChain
<1>6. Chains
  BY <1>5 DEF Chains
<1>7. Chained = {}
  <2>1. \A b \in Buckets : InChain(b) = {}
    BY <1>5 DEF InChain, Seqs!ToSet
  <2>2. QED
    BY <2>1 DEF Chained
<1>8. ~AnyUnlinked /\ ~AnyAt("uncount")
  BY <1>1 DEF AnyUnlinked, AnyAt, Unlinked
<1>9. Counted
  BY <1>2, <1>7, <1>8, FS_EmptySet DEF Counted, Ticks
<1>10. Listed
  <2> DEFINE order == [j \in 1 .. Capacity + 1 |-> j - 1]
  <2>1. Capacity \in Nat \ {0}
    BY Constants
  <2>2. order \in [1 .. Capacity + 1 -> 0 .. Capacity] /\ Capacity \in 0 .. Capacity
    BY <2>1
  <2>3. IsList(Capacity, order)
    <3>1. order[1] = nodes.firstFree /\ order[Capacity + 1] = Capacity
      BY <1>2, <2>1
    <3>2. ASSUME NEW j \in 1 .. Capacity
          PROVE  /\ order[j] \in Indices /\ Slot(order[j]).state = "Free"
                 /\ Slot(order[j]).size = order[j + 1]
      <4>1. order[j] = j - 1 /\ j - 1 \in Indices /\ order[j + 1] = j
        BY <2>1 DEF Indices
      <4>2. Slot(j - 1).state = "Free" /\ Slot(j - 1).size = j
        BY <1>2, <2>1, <4>1
      <4>3. QED
        BY <4>1, <4>2
    <3>3. \A j, k \in 1 .. Capacity : order[j] = order[k] => j = k
      BY <2>1
    <3>4. QED
      <4> HIDE DEF order
      <4>1. QED
        BY <2>2, <3>1, <3>2, <3>3 DEF IsList
  <2>4. Roomy(Capacity)
    BY <1>2, <1>8, <2>1 DEF Roomy, Ticks
  <2>5. Whereabouts(Capacity, order)
    <3>1. ASSUME NEW i \in Indices PROVE OnList(Capacity, order, i)
      <4>1. i + 1 \in 1 .. Capacity /\ order[i + 1] = i
        BY <2>1 DEF Indices
      <4>2. QED
        <5> HIDE DEF order
        <5>1. QED
          BY <4>1 DEF OnList
    <3>2. \A p \in Proc : ~InHand(p)
      BY <1>1 DEF InHand
    <3>3. QED
      <4> HIDE DEF order
      <4>1. QED
        BY <3>1, <3>2 DEF Whereabouts
  <2>6. QED
    <3> HIDE DEF order
    <3>1. QED
      BY <2>2, <2>3, <2>4, <2>5 DEF Listed
<1>11. Knowledge
  BY <1>1 DEF Knowledge, Knows, Seeking, Insertion, Removal, Iteration, InHand, Inserting,
              Iterating
<1>12. QED
  BY <1>3, <1>4, <1>6, <1>9, <1>10, <1>11 DEF IInv

(* In workable scenarios the invariant holds throughout.                   *)
THEOREM Invariance ==
  ASSUME \A s \in Scenarios : Workable(s)
  PROVE  Spec => []IInv
<1>1. IInv /\ [Next]_vars => IInv'
  <2>1. IInv => Workable(scenario)
    BY DEF IInv, Typing
  <2>2. QED
    BY <2>1, NextIInv
<1>2. QED
  BY <1>1, InitIInv, PTL DEF Spec

-----------------------------------------------------------------------------
(* What follows from it.                                                   *)

(* Buckets hold offsets, the nodes are a slot array and nobody works on a  *)
(* node outside it (index.rs, structs Bucket and Node).                    *)
THEOREM TypeCorrect ==
  ASSUME \A s \in Scenarios : Workable(s)
  PROVE  Spec => []TypeOK
<1>1. IInv => TypeOK
  BY DEF IInv, Typing, Locals, TypeOK
<1>2. QED
  BY <1>1, Invariance, PTL

(* However many processes insert, look up, remove and die, each chain ends *)
(* and leads through complete nodes of its bucket only (index.rs, insert   *)
(* and remove).                                                            *)
THEOREM ChainsAlwaysSound ==
  ASSUME \A s \in Scenarios : Workable(s)
  PROVE  Spec => []ChainsSound
<1>1. IInv => ChainsSound
  <2>1. SUFFICES ASSUME IInv, NEW b \in Buckets
                 PROVE  /\ Seqs!IsInjective(Chain(b))
                        /\ \A i \in InChain(b) : ReadNode(i) # NoNode /\ Hash(ReadNode(i).key) = b
    BY DEF ChainsSound
  <2>2. PICK c : c = Chain(b)
    OBVIOUS
  <2>3. Seqs!IsInjective(c)
    <3>1. DOMAIN c = 1 .. Len(c) /\ \A j, k \in 1 .. Len(c) : c[j] = c[k] => j = k
      BY <2>1, <2>2, ChainFacts
    <3>2. QED
      BY <3>1 DEF Seqs!IsInjective
  <2>4. ASSUME NEW i \in InChain(b) PROVE ReadNode(i) # NoNode /\ Hash(ReadNode(i).key) = b
    <3>1. PICK j \in 1 .. Len(c) : i = c[j]
      BY <2>1, <2>2, <2>4, ChainFacts
    <3>2. Complete(b, i, LinkTo(c, j + 1)) /\ ReadNode(i) = Slot(i).data
      BY <2>1, <2>2, <3>1, ChainFacts
    <3>3. QED
      BY <3>2, Constants DEF Complete, Slot
  <2>5. QED
    BY <2>2, <2>3, <2>4
<1>2. QED
  BY <1>1, Invariance, PTL

(* Nobody reads a free node or follows the free list past its end, unless  *)
(* a process died between taking a node and counting it (index.rs:103,     *)
(* slot.rs:104).                                                           *)
THEOREM WildOnlyAfterDeath ==
  ASSUME \A s \in Scenarios : Workable(s)
  PROVE  Spec => []NeverWild
<1>1. IInv => NeverWild
  BY DEF IInv, Wildness, Uncounted, NeverWild
<1>2. QED
  BY <1>1, Invariance, PTL

(* Between calls nothing is leaked: the free list is whole, and the other  *)
(* nodes are those in the chains (index.rs:177 and 246).                   *)
THEOREM NodesAlwaysSettled ==
  ASSUME \A s \in Scenarios : Workable(s)
  PROVE  Spec => []NodesSettled
<1>1. IInv => NodesSettled
  <2>1. SUFFICES ASSUME IInv, \A p \in Proc : ~Changing(p)
                 PROVE  N!FreeListIntact /\ Chained = {i \in Indices : Slot(i).state = "Occupied"}
    BY DEF NodesSettled, Chained, Slot
  <2>2. /\ ~Scarred /\ ~AnyUnlinked
        /\ \A i : ~InHands(i)
    <3>1. dead \subseteq Proc
      BY <2>1 DEF IInv, Typing
    <3>2. \A p \in Proc : ~Unlinked(p) /\ ~InHand(p)
      BY <2>1 DEF Changing, Unlinked, InHand
    <3>3. QED
      BY <2>1, <3>1, <3>2 DEF Scarred, AnyUnlinked, InHands
  <2>3. PICK n, order : /\ n \in 0 .. Capacity
                       /\ order \in [1 .. n + 1 -> 0 .. Capacity]
                       /\ IsWitness(n, order)
    BY <2>1, PickList
  <2>4. IsList(n, order) /\ \A i \in Indices : OnList(n, order, i) \/ i \in Chained
    BY <2>2, <2>3 DEF IsWitness, Whereabouts
  <2>5. \A i : OnList(n, order, i) => i \in Indices /\ Slot(i).state = "Free" /\ i \notin Chained
    BY <2>1, <2>3, <2>4, ListedFree
  <2>6. Chained \subseteq Indices /\ \A i \in Chained : Slot(i).state = "Occupied"
    BY <2>1, ChainedFacts
  <2>7. Chained = {i \in Indices : Slot(i).state = "Occupied"}
    BY <2>4, <2>5, <2>6
  <2> DEFINE Free == Indices \ Chained
  <2>8. \A i : i \in Free <=> i \in Indices /\ Slot(i).state = "Free"
    BY <2>4, <2>5, <2>6
  <2>9. Capacity \in Nat /\ IsFiniteSet(Indices) /\ Cardinality(Indices) = Capacity /\ n \in Nat
    <3>1. Capacity \in Nat \ {0} /\ n \in Nat
      BY <2>3, Constants
    <3>2. IsFiniteSet(Indices) /\ Cardinality(Indices) = Capacity
      BY <3>1, FS_Interval DEF Indices
    <3>3. QED
      BY <3>1, <3>2
  <2>10. Cardinality(Free) = Capacity - nodes.count
    <3>1. nodes.count = Cardinality(Chained) /\ Cardinality(Chained) \in Nat
      BY <2>1, <2>2, ChainedFacts DEF IInv, Counted, Ticks
    <3>2. Indices \cap Chained = Chained
      BY <2>6
    <3>3. Cardinality(Free) = Cardinality(Indices) - Cardinality(Indices \cap Chained)
      BY <2>9, FS_Difference
    <3>4. QED
      <4> HIDE DEF Free
      <4>1. QED
        BY <2>9, <3>1, <3>2, <3>3
  <2>11. n = Capacity - nodes.count
    <3> HIDE DEF Free
    <3>1. PICK s : s = [j \in 1 .. n |-> order[j]]
      OBVIOUS
    <3>2. \A j \in 1 .. n : s[j] = order[j] /\ s[j] \in Free
      BY <2>4, <2>8, <3>1 DEF IsList
    <3>3. \A j, k \in 1 .. n : s[j] = s[k] => j = k
      BY <2>4, <3>2 DEF IsList
    <3>4. \A i \in Free : \E j \in 1 .. n : s[j] = i
      <4>1. ASSUME NEW i \in Free PROVE \E j \in 1 .. n : s[j] = i
        <5>1. OnList(n, order, i)
          BY <2>4, <2>6, <2>8 DEF Free
        <5>2. QED
          BY <3>2, <5>1 DEF OnList
      <4>2. QED
        BY <4>1
    <3>5. s \in Bijection(1 .. n, Free)
      <4>1. s \in [1 .. n -> Free]
        BY <3>1, <3>2
      <4>2. QED
        BY <3>3, <3>4, <4>1 DEF Bijection, Injection, Surjection, IsInjective
    <3>6. Cardinality(1 .. n) = n /\ IsFiniteSet(1 .. n)
      BY <2>9, FS_Interval
    <3>7. Cardinality(Free) = Cardinality(1 .. n)
      BY <3>5, <3>6, FS_Bijection DEF ExistsBijection
    <3>8. QED
      BY <2>10, <3>6, <3>7
  <2>12. N!FreeListIntact
    <3>1. nodes.count \in Nat
      BY <2>1, SlotTypes DEF IInv
    <3>2. nodes.count <= Capacity
      BY <2>9, <2>11, <3>1
    <3>3. \A i : i \in N!FreeSlots(nodes) <=> i \in Indices /\ Slot(i).state = "Free"
      BY DEF N!FreeSlots, N!Indices, Indices, Slot
    <3>4. /\ order \in [1 .. n + 1 -> 0 .. Capacity]
          /\ order[1] = nodes.firstFree /\ order[n + 1] = Capacity
          /\ \A j \in 1 .. n : order[j] \in N!FreeSlots(nodes)
                               /\ nodes.slot[order[j]].size = order[j + 1]
          /\ \A j, k \in 1 .. n : order[j] = order[k] => j = k
      BY <2>3, <2>4, <3>3 DEF IsList, Slot
    <3>5. \A i \in N!FreeSlots(nodes) : \E j \in 1 .. n : order[j] = i
      BY <2>4, <2>6, <3>3 DEF OnList
    <3>6. N!IsFreeList(nodes, order)
      BY <2>11, <3>4, <3>5 DEF N!IsFreeList
    <3>7. QED
      BY <2>11, <3>2, <3>4, <3>6 DEF N!FreeListIntact
  <2>13. QED
    BY <2>7, <2>12
<1>2. QED
  BY <1>1, Invariance, PTL
=============================================================================
