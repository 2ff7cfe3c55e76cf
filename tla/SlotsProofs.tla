---------------------------- MODULE SlotsProofs ----------------------------
(***************************************************************************)
(* Proofs about module Slots, for every capacity, slot size and payload.   *)
(***************************************************************************)
EXTENDS Slots, FiniteSetTheorems, TLAPS

(* The inductive invariant: no conjunct is inductive without the others.   *)
(* The free list says where the next insertion lands, the occupied slots   *)
(* that it is not one already held.                                        *)
IInv == TypeOK /\ FreeListIntact /\ HeldIsOccupied /\ OccupiedFits

-----------------------------------------------------------------------------
(* What the operations do to the structure, field by field.                *)

(* insert takes the head of the free list (slot.rs, insert).               *)
LEMMA InsertedFields ==
  ASSUME NEW s \in SlotsHeader, NEW d \in Payload, s.firstFree \in Indices
  PROVE  LET t == Inserted(s, d) f == s.firstFree IN
         /\ t.count = s.count + 1
         /\ t.firstFree = s.slot[f].size
         /\ t.slot = [s.slot EXCEPT ![f] = Written(d)]
         /\ t \in SlotsHeader
BY SlotsAssumption
   DEF Inserted, Written, SlotsHeader, SlotMetadata, Indices

(* remove pushes the slot on the free list (slot.rs, remove).              *)
LEMMA RemovedFields ==
  ASSUME NEW s \in SlotsHeader, NEW i \in Indices
  PROVE  LET t == Removed(s, i) IN
         /\ t.count = s.count - 1
         /\ t.firstFree = i
         /\ t.slot \in [Indices -> SlotMetadata]
         /\ t.slot[i].state = "Free"
         /\ t.slot[i].size = s.firstFree
         /\ \A j \in Indices \ {i} : t.slot[j] = s.slot[j]
         /\ s.count > 0 => t \in SlotsHeader
<1> DEFINE r == [state |-> "Free", size |-> s.firstFree, data |-> s.slot[i].data]
           t == Removed(s, i)
<1>1. s.slot \in [Indices -> SlotMetadata] /\ s.count \in Nat
  BY DEF SlotsHeader
<1>2. r \in SlotMetadata /\ r.state = "Free" /\ r.size = s.firstFree
  BY <1>1 DEF SlotsHeader, SlotMetadata
<1>3. t = [count |-> s.count - 1, firstFree |-> i,
           slot |-> [s.slot EXCEPT ![i] = r]]
  BY <1>1 DEF Removed
<1> HIDE DEF r, t
<1>4. /\ t.slot \in [Indices -> SlotMetadata]
      /\ t.slot[i] = r
      /\ \A j \in Indices \ {i} : t.slot[j] = s.slot[j]
  BY <1>1, <1>2, <1>3
<1>5. s.count > 0 => t \in SlotsHeader
  BY <1>1, <1>2, <1>3 DEF SlotsHeader, Indices
<1>6. t.count = s.count - 1 /\ t.firstFree = i
  BY <1>3
<1>7. QED
  BY <1>2, <1>4, <1>5, <1>6 DEF t

(* update touches one slot and no header field (slot.rs, update).          *)
LEMMA UpdatedFields ==
  ASSUME NEW s \in SlotsHeader, NEW i \in Indices, NEW d \in Payload
  PROVE  LET t == Updated(s, i, d) IN
         /\ t.count = s.count
         /\ t.firstFree = s.firstFree
         /\ t.slot = [s.slot EXCEPT ![i] = Written(d)]
         /\ t \in SlotsHeader
BY SlotsAssumption DEF Updated, Written, SlotsHeader, SlotMetadata, Indices

-----------------------------------------------------------------------------
(* The free list.                                                          *)

(* The witness in FreeListIntact may be any function.                      *)
LEMMA FreeListWitness ==
  ASSUME NEW order, IsFreeList(slots, order), slots.count <= Capacity
  PROVE  FreeListIntact
BY DEF FreeListIntact, IsFreeList

(* When the array is not full the head of the list is a free slot.         *)
LEMMA HeadIsFree ==
  ASSUME NEW s \in SlotsHeader, NEW order, IsFreeList(s, order), ~IsFull(s)
  PROVE  s.firstFree \in FreeSlots(s)
<1>1. 1 \in 1 .. Capacity - s.count
  BY SlotsAssumption DEF IsFull, SlotsHeader
<1>2. QED
  BY <1>1 DEF IsFreeList

(* When it is full no slot is free.                                        *)
LEMMA FullHasNoFreeSlot ==
  ASSUME NEW s \in SlotsHeader, NEW order, IsFreeList(s, order),
         IsFull(s), s.count <= Capacity
  PROVE  FreeSlots(s) = {}
<1>1. 1 .. Capacity - s.count = {}
  BY SlotsAssumption DEF IsFull, SlotsHeader
<1>2. QED
  BY <1>1 DEF IsFreeList

(* insert pops the list.                                                   *)
LEMMA InsertedFreeList ==
  ASSUME NEW s \in SlotsHeader, NEW d \in Payload, NEW order,
         IsFreeList(s, order), ~IsFull(s)
  PROVE  IsFreeList(Inserted(s, d),
                    [j \in 1 .. Capacity - s.count |-> order[j + 1]])
<1> DEFINE f == s.firstFree
           t == Inserted(s, d)
           n == Capacity - s.count
           pop == [j \in 1 .. n |-> order[j + 1]]
<1>1. n \in Nat \ {0} /\ 1 \in 1 .. n
  BY SlotsAssumption DEF IsFull, SlotsHeader
<1>2. f \in FreeSlots(s) /\ f \in Indices
  BY HeadIsFree DEF FreeSlots
<1>3. /\ t.count = s.count + 1
      /\ t.firstFree = s.slot[f].size
      /\ t.slot = [s.slot EXCEPT ![f] = Written(d)]
      /\ s.slot \in [Indices -> SlotMetadata]
  BY <1>2, InsertedFields DEF SlotsHeader
<1>4. FreeSlots(t) = FreeSlots(s) \ {f}
  BY <1>2, <1>3 DEF FreeSlots, Written
<1>5. Capacity - t.count = n - 1
  BY <1>3, SlotsAssumption DEF SlotsHeader
<1>6. /\ order \in [1 .. n + 1 -> 0 .. Capacity]
      /\ order[1] = f
      /\ order[n + 1] = Capacity
      /\ \A j \in 1 .. n : order[j] \in FreeSlots(s)
                           /\ s.slot[order[j]].size = order[j + 1]
      /\ \A j, k \in 1 .. n : order[j] = order[k] => j = k
      /\ \A i \in FreeSlots(s) : \E j \in 1 .. n : order[j] = i
  BY DEF IsFreeList
<1> HIDE DEF t, n, f
<1>7. pop \in [1 .. (n - 1) + 1 -> 0 .. Capacity]
  BY <1>1, <1>6
<1>8. pop[1] = t.firstFree /\ pop[(n - 1) + 1] = Capacity
  BY <1>1, <1>3, <1>6
<1>9. ASSUME NEW j \in 1 .. n - 1
      PROVE  pop[j] \in FreeSlots(t) /\ t.slot[pop[j]].size = pop[j + 1]
  <2>1. j + 1 \in 1 .. n /\ j + 1 # 1 /\ j \in 1 .. n
    BY <1>1
  <2>2. order[j + 1] # f /\ order[j + 1] \in FreeSlots(s)
    BY <1>1, <1>6, <2>1
  <2>3. t.slot[order[j + 1]] = s.slot[order[j + 1]]
    BY <1>3, <2>2 DEF FreeSlots
  <2>4. QED
    BY <1>1, <1>4, <1>6, <2>1, <2>2, <2>3
<1>10. ASSUME NEW j \in 1 .. n - 1, NEW k \in 1 .. n - 1, pop[j] = pop[k]
       PROVE  j = k
  <2>1. j + 1 \in 1 .. n /\ k + 1 \in 1 .. n /\ j \in 1 .. n /\ k \in 1 .. n
    BY <1>1
  <2>2. order[j + 1] = order[k + 1]
    BY <1>10, <2>1
  <2>3. j + 1 = k + 1
    BY <1>6, <2>1, <2>2
  <2>4. QED
    BY <2>1, <2>3
<1>11. ASSUME NEW i \in FreeSlots(t)
       PROVE  \E j \in 1 .. n - 1 : pop[j] = i
  <2>1. PICK j \in 1 .. n : order[j] = i
    BY <1>4, <1>6
  <2>2. j # 1
    BY <1>4, <1>6, <2>1
  <2>3. j - 1 \in 1 .. n - 1 /\ pop[j - 1] = i
    BY <1>1, <2>1, <2>2
  <2>4. QED
    BY <2>3
<1>12. QED
  BY <1>5, <1>7, <1>8, <1>9, <1>10, <1>11, Zenon DEF IsFreeList, n, t

(* remove pushes the slot.                                                 *)
LEMMA RemovedFreeList ==
  ASSUME NEW s \in SlotsHeader, NEW i \in Indices, NEW order,
         IsFreeList(s, order), s.count <= Capacity, i \notin FreeSlots(s)
  PROVE  IsFreeList(Removed(s, i),
                    [j \in 1 .. Capacity - s.count + 2 |->
                       IF j = 1 THEN i ELSE order[j - 1]])
<1> DEFINE t == Removed(s, i)
           n == Capacity - s.count
           push == [j \in 1 .. n + 2 |-> IF j = 1 THEN i ELSE order[j - 1]]
<1>1. n \in Nat /\ Capacity \in Nat /\ i \in 0 .. Capacity
  BY SlotsAssumption DEF SlotsHeader, Indices
<1>2. /\ t.count = s.count - 1
      /\ t.firstFree = i
      /\ t.slot[i].state = "Free"
      /\ t.slot[i].size = s.firstFree
      /\ \A j \in Indices \ {i} : t.slot[j] = s.slot[j]
  BY RemovedFields
<1>3. FreeSlots(t) = FreeSlots(s) \cup {i}
  BY <1>2 DEF FreeSlots
<1>4. Capacity - t.count = n + 1
  BY <1>2, SlotsAssumption DEF SlotsHeader
<1>5. /\ order \in [1 .. n + 1 -> 0 .. Capacity]
      /\ order[1] = s.firstFree
      /\ order[n + 1] = Capacity
      /\ \A j \in 1 .. n : order[j] \in FreeSlots(s)
                           /\ s.slot[order[j]].size = order[j + 1]
      /\ \A j, k \in 1 .. n : order[j] = order[k] => j = k
      /\ \A k \in FreeSlots(s) : \E j \in 1 .. n : order[j] = k
  BY DEF IsFreeList
<1> HIDE DEF t, n
<1>6. push \in [1 .. (n + 1) + 1 -> 0 .. Capacity]
  BY <1>1, <1>5
<1>7. push[1] = t.firstFree /\ push[(n + 1) + 1] = Capacity
  BY <1>1, <1>2, <1>5
<1>8. ASSUME NEW j \in 1 .. n + 1
      PROVE  push[j] \in FreeSlots(t) /\ t.slot[push[j]].size = push[j + 1]
  <2>1. CASE j = 1
    BY <1>1, <1>2, <1>3, <1>5, <2>1
  <2>2. CASE j # 1
    <3>1. j - 1 \in 1 .. n /\ push[j] = order[j - 1] /\ push[j + 1] = order[j]
      BY <1>1, <2>2
    <3>2. order[j - 1] \in FreeSlots(s) /\ order[j - 1] # i
      BY <1>5, <3>1
    <3>3. t.slot[order[j - 1]] = s.slot[order[j - 1]]
      BY <1>2, <3>2 DEF FreeSlots
    <3>4. s.slot[order[j - 1]].size = order[(j - 1) + 1]
      BY <1>5, <3>1
    <3>5. QED
      BY <1>3, <3>1, <3>2, <3>3, <3>4
  <2>3. QED
    BY <2>1, <2>2
<1>9. ASSUME NEW j \in 1 .. n + 1, NEW k \in 1 .. n + 1, push[j] = push[k]
      PROVE  j = k
  <2>1. \A m \in 1 .. n + 1 : m # 1 => /\ m - 1 \in 1 .. n
                                       /\ push[m] = order[m - 1]
                                       /\ push[m] # i
    BY <1>1, <1>5
  <2>2. push[1] = i
    BY <1>1
  <2>3. CASE j = 1 \/ k = 1
    BY <1>9, <2>1, <2>2, <2>3
  <2>4. CASE j # 1 /\ k # 1
    <3>1. /\ j - 1 \in 1 .. n /\ push[j] = order[j - 1]
          /\ k - 1 \in 1 .. n /\ push[k] = order[k - 1]
      BY <2>1, <2>4
    <3>2. order[j - 1] = order[k - 1]
      BY <1>9, <3>1
    <3>3. j - 1 = k - 1
      BY <1>5, <3>1, <3>2
    <3>4. QED
      BY <3>3
  <2>5. QED
    BY <2>3, <2>4
<1>10. ASSUME NEW k \in FreeSlots(t)
       PROVE  \E j \in 1 .. n + 1 : push[j] = k
  <2>1. CASE k = i
    BY <1>1, <2>1
  <2>2. CASE k # i
    <3>1. PICK j \in 1 .. n : order[j] = k
      BY <1>3, <1>5, <2>2
    <3>2. j + 1 \in 1 .. n + 1 /\ push[j + 1] = k
      BY <1>1, <3>1
    <3>3. QED
      BY <3>2
  <2>3. QED
    BY <2>1, <2>2
<1>11. (n + 1) + 1 = n + 2
  BY <1>1
<1>12. QED
  BY <1>4, <1>6, <1>7, <1>8, <1>9, <1>10, <1>11, Zenon DEF IsFreeList, n, t

-----------------------------------------------------------------------------
(* Initially every slot is free and the links run through all of them.     *)
LEMMA InitIInv == Init => IInv
<1> SUFFICES ASSUME Init PROVE IInv
  OBVIOUS
<1> DEFINE order == [j \in 1 .. Capacity + 1 |-> j - 1]
<1>1. /\ slots.count = 0 /\ slots.firstFree = 0
      /\ slots.slot = [i \in Indices |->
                         [state |-> "Free", data |-> NoData,
                          size |-> IF i + 1 < Capacity THEN i + 1 ELSE Capacity]]
      /\ held = {}
  BY DEF Init, New
<1>2. TypeOK
  BY SlotsAssumption
  DEF Init, New, TypeOK, SlotsHeader, SlotMetadata, Indices
<1>3. FreeSlots(slots) = Indices
  BY <1>1 DEF FreeSlots
<1>4. \A i \in Indices : slots.slot[i].size = i + 1
  BY <1>1, SlotsAssumption DEF Indices
<1>5. Capacity - slots.count = Capacity
  BY <1>1, SlotsAssumption
<1>6. \A j \in 1 .. Capacity : order[j] \in Indices /\ order[j + 1] = order[j] + 1
  BY SlotsAssumption DEF Indices
<1>7. order \in [1 .. Capacity + 1 -> 0 .. Capacity]
  BY SlotsAssumption
<1>8. order[1] = 0 /\ order[Capacity + 1] = Capacity
  BY SlotsAssumption
<1>9. \A j, k \in 1 .. Capacity : order[j] = order[k] => j = k
  BY SlotsAssumption
<1>10. \A i \in Indices : i + 1 \in 1 .. Capacity /\ order[i + 1] = i
  BY SlotsAssumption DEF Indices
<1>11. IsFreeList(slots, order)
  <2> HIDE DEF order
  <2>1. \A j \in 1 .. Capacity : order[j] \in FreeSlots(slots)
                                /\ slots.slot[order[j]].size = order[j + 1]
    BY <1>3, <1>4, <1>6
  <2>2. \A i \in FreeSlots(slots) : \E j \in 1 .. Capacity : order[j] = i
    BY <1>3, <1>10
  <2>3. QED
    BY <1>1, <1>5, <1>7, <1>8, <1>9, <2>1, <2>2 DEF IsFreeList
<1>12. FreeListIntact
  BY <1>1, <1>11, FreeListWitness, SlotsAssumption
<1>13. HeldIsOccupied
  BY <1>1, <1>3, FS_EmptySet DEF HeldIsOccupied
<1>14. OccupiedFits
  BY <1>1 DEF OccupiedFits
<1>15. QED
  BY <1>2, <1>12, <1>13, <1>14 DEF IInv

(* The indices held are finitely many.                                     *)
LEMMA HeldFinite == TypeOK => IsFiniteSet(held)
<1>1. IsFiniteSet(Indices)
  BY FS_Interval, SlotsAssumption DEF Indices
<1>2. QED
  BY <1>1, FS_Subset DEF TypeOK

(* insert preserves the invariant: it takes a slot nobody holds.           *)
LEMMA InsertIInv ==
  ASSUME IInv, NEW d \in Payload, Insert(d)
  PROVE  IInv'
<1> DEFINE f == slots.firstFree
<1>1. slots \in SlotsHeader /\ held \subseteq Indices /\ IsFiniteSet(held)
  BY HeldFinite DEF IInv, TypeOK
<1>2. PICK order : IsFreeList(slots, order) /\ slots.count <= Capacity
  BY DEF IInv, FreeListIntact
<1>3. ~IsFull(slots) /\ Fits(d) /\ slots' = Inserted(slots, d)
      /\ held' = held \cup {f}
  BY DEF Insert
<1>4. f \in FreeSlots(slots) /\ f \in Indices
  BY <1>1, <1>2, <1>3, HeadIsFree DEF FreeSlots
<1>5. /\ slots'.count = slots.count + 1
      /\ slots'.slot = [slots.slot EXCEPT ![f] = Written(d)]
      /\ slots' \in SlotsHeader
  BY <1>1, <1>3, <1>4, InsertedFields
<1>6. slots.slot \in [Indices -> SlotMetadata] /\ slots.count \in Nat
  BY <1>1 DEF SlotsHeader
<1>7. TypeOK'
  BY <1>1, <1>3, <1>4, <1>5 DEF TypeOK
<1>8. FreeListIntact'
  <2> DEFINE pop == [j \in 1 .. Capacity - slots.count |-> order[j + 1]]
  <2>1. IsFreeList(slots', pop)
    BY <1>1, <1>2, <1>3, InsertedFreeList
  <2>2. slots'.count <= Capacity
    BY <1>3, <1>5, <1>6, SlotsAssumption DEF IsFull
  <2> HIDE DEF pop
  <2>3. QED
    BY <2>1, <2>2 DEF FreeListIntact, IsFreeList
<1>9. HeldIsOccupied'
  <2>1. f \notin held
    BY <1>4 DEF IInv, HeldIsOccupied
  <2>2. FreeSlots(slots') = FreeSlots(slots) \ {f}
    BY <1>4, <1>5, <1>6 DEF FreeSlots, Written
  <2>3. held' = Indices \ FreeSlots(slots')
    BY <1>3, <1>4, <2>2 DEF IInv, HeldIsOccupied
  <2>4. Cardinality(held') = Cardinality(held) + 1
    BY <1>1, <1>3, <2>1, FS_AddElement
  <2>5. QED
    BY <1>5, <2>3, <2>4 DEF IInv, HeldIsOccupied
<1>10. OccupiedFits'
  <2>1. slots'.slot[f] = Written(d) /\ SizeOf[d] <= DataSize
    BY <1>3, <1>4, <1>5, <1>6 DEF Fits
  <2>2. \A i \in held' \ {f} : i \in held /\ slots'.slot[i] = slots.slot[i]
    BY <1>1, <1>3, <1>5, <1>6
  <2>3. QED
    BY <2>1, <2>2 DEF IInv, OccupiedFits, Written
<1>11. QED
  BY <1>7, <1>8, <1>9, <1>10 DEF IInv

(* update leaves the free list alone because its slot is not on it.        *)
LEMMA UpdateIInv ==
  ASSUME IInv, NEW i \in Indices, NEW d \in Payload, Update(i, d)
  PROVE  IInv'
<1>1. slots \in SlotsHeader /\ held \subseteq Indices
  BY DEF IInv, TypeOK
<1>2. PICK order : IsFreeList(slots, order) /\ slots.count <= Capacity
  BY DEF IInv, FreeListIntact
<1>3. i \in held /\ Fits(d) /\ slots' = Updated(slots, i, d) /\ held' = held
  BY DEF Update
<1>4. /\ slots'.count = slots.count /\ slots'.firstFree = slots.firstFree
      /\ slots'.slot = [slots.slot EXCEPT ![i] = Written(d)]
      /\ slots' \in SlotsHeader
  BY <1>1, <1>3, UpdatedFields
<1>5. slots.slot \in [Indices -> SlotMetadata]
  BY <1>1 DEF SlotsHeader
<1>6. i \notin FreeSlots(slots)
  BY <1>3 DEF IInv, HeldIsOccupied
<1>7. \A j \in Indices \ {i} : slots'.slot[j] = slots.slot[j]
  BY <1>4, <1>5
<1>8. slots'.slot[i] = Written(d)
  BY <1>4, <1>5
<1>9. FreeSlots(slots') = FreeSlots(slots)
  BY <1>6, <1>7, <1>8 DEF FreeSlots, Written
<1>10. TypeOK'
  BY <1>1, <1>3, <1>4 DEF TypeOK
<1>11. FreeListIntact'
  <2>1. \A j \in FreeSlots(slots) : slots'.slot[j] = slots.slot[j]
    BY <1>6, <1>7 DEF FreeSlots
  <2>2. IsFreeList(slots', order)
    BY <1>2, <1>4, <1>9, <2>1 DEF IsFreeList
  <2>3. QED
    BY <1>2, <1>4, <2>2 DEF FreeListIntact, IsFreeList
<1>12. HeldIsOccupied'
  BY <1>3, <1>4, <1>9 DEF IInv, HeldIsOccupied
<1>13. OccupiedFits'
  BY <1>1, <1>3, <1>7, <1>8 DEF IInv, OccupiedFits, Written, Fits
<1>14. QED
  BY <1>10, <1>11, <1>12, <1>13 DEF IInv

(* remove gives the slot back and the counter cannot wrap.                 *)
LEMMA RemoveIInv ==
  ASSUME IInv, NEW i \in Indices, Remove(i)
  PROVE  IInv'
<1>1. slots \in SlotsHeader /\ held \subseteq Indices /\ IsFiniteSet(held)
  BY HeldFinite DEF IInv, TypeOK
<1>2. PICK order : IsFreeList(slots, order) /\ slots.count <= Capacity
  BY DEF IInv, FreeListIntact
<1>3. i \in held /\ slots' = Removed(slots, i) /\ held' = held \ {i}
  BY DEF Remove
<1>4. slots.count \in Nat /\ slots.slot \in [Indices -> SlotMetadata]
  BY <1>1 DEF SlotsHeader
<1>5. slots.count = Cardinality(held) /\ slots.count > 0
      /\ Cardinality(held') = Cardinality(held) - 1
  <2>1. Cardinality(held) # 0
    BY <1>1, <1>3, FS_EmptySet
  <2>2. slots.count = Cardinality(held)
    BY DEF IInv, HeldIsOccupied
  <2>3. Cardinality(held') = Cardinality(held) - 1
    BY <1>1, <1>3, FS_RemoveElement
  <2>4. QED
    BY <1>4, <2>1, <2>2, <2>3
<1>6. /\ slots'.count = slots.count - 1
      /\ slots'.slot[i].state = "Free"
      /\ \A j \in Indices \ {i} : slots'.slot[j] = slots.slot[j]
      /\ slots' \in SlotsHeader
  BY <1>1, <1>3, <1>5, RemovedFields
<1>7. i \notin FreeSlots(slots)
  BY <1>3 DEF IInv, HeldIsOccupied
<1>8. TypeOK'
  BY <1>1, <1>3, <1>6 DEF TypeOK
<1>9. FreeListIntact'
  <2> DEFINE push == [j \in 1 .. Capacity - slots.count + 2 |->
                        IF j = 1 THEN i ELSE order[j - 1]]
  <2>1. IsFreeList(slots', push)
    BY <1>1, <1>2, <1>3, <1>7, RemovedFreeList
  <2>2. slots'.count <= Capacity
    BY <1>2, <1>4, <1>6, SlotsAssumption
  <2> HIDE DEF push
  <2>3. QED
    BY <2>1, <2>2 DEF FreeListIntact, IsFreeList
<1>10. HeldIsOccupied'
  <2>1. FreeSlots(slots') = FreeSlots(slots) \cup {i}
    BY <1>6 DEF FreeSlots
  <2>2. QED
    BY <1>3, <1>5, <1>6, <2>1 DEF IInv, HeldIsOccupied
<1>11. OccupiedFits'
  BY <1>1, <1>3, <1>6 DEF IInv, OccupiedFits
<1>12. QED
  BY <1>8, <1>9, <1>10, <1>11 DEF IInv

(* Every step preserves the invariant.                                     *)
LEMMA NextIInv == IInv /\ [Next]_vars => IInv'
<1> SUFFICES ASSUME IInv, [Next]_vars PROVE IInv'
  OBVIOUS
<1>1. ASSUME NEW d \in Payload, Insert(d) PROVE IInv'
  BY <1>1, InsertIInv
<1>2. ASSUME NEW i \in Indices, NEW d \in Payload, Update(i, d) PROVE IInv'
  BY <1>2, UpdateIInv
<1>3. ASSUME NEW i \in Indices, Remove(i) PROVE IInv'
  BY <1>3, RemoveIInv
<1>4. ASSUME slots' = slots, held' = held PROVE IInv'
  <2>1. FreeListIntact'
    BY <1>4, Zenon DEF IInv, FreeListIntact
  <2>2. TypeOK' /\ OccupiedFits'
    BY <1>4 DEF IInv, TypeOK, OccupiedFits
  <2>3. HeldIsOccupied'
    BY <1>4, Zenon DEF IInv, HeldIsOccupied
  <2>4. QED
    BY <2>1, <2>2, <2>3 DEF IInv
<1>5. QED
  BY <1>1, <1>2, <1>3, <1>4
  DEF Next, vars, InsertTooBig, InsertTableFull, UpdateTooBig, Get

(* The inductive invariant holds after every sequence of calls (slot.rs,   *)
(* insert, update, remove and get).                                        *)
THEOREM Invariant == Spec => []IInv
  BY InitIInv, NextIInv, PTL DEF Spec

(* Type correctness: in particular count, a usize in the code, is never    *)
(* decremented below zero by remove (slot.rs:146).                         *)
THEOREM TypeCorrect == Spec => []TypeOK
  BY Invariant, PTL DEF IInv

(* No sequence of calls loses a free slot or breaks a link (slot.rs).      *)
THEOREM FreeListAlwaysIntact == Spec => []FreeListIntact
  BY Invariant, PTL DEF IInv

(* No index is ever handed out while somebody holds it (slot.rs, insert).  *)
THEOREM NoIndexGivenTwice == Spec => []HeldIsOccupied
  BY Invariant, PTL DEF IInv

(* No record is longer than its slot (slot.rs, insert and update).         *)
THEOREM NoOverflowOfSlot == Spec => []OccupiedFits
  BY Invariant, PTL DEF IInv

-----------------------------------------------------------------------------
(* The array implements a pool.                                            *)

(* The payloads a caller can see, cell by cell.                            *)
LEMMA ContentChange ==
  ASSUME IInv, NEW i \in Indices, NEW v, slots' \in SlotsHeader,
         DataAt(slots', i) = v,
         \A j \in Indices \ {i} : slots'.slot[j] = slots.slot[j]
  PROVE  [j \in Indices |-> DataAt(slots', j)]
           = [[j \in Indices |-> DataAt(slots, j)] EXCEPT ![i] = v]
BY DEF DataAt

(* A cell of the pool is vacant exactly when the slot is free.             *)
LEMMA VacantIsFree ==
  ASSUME IInv, NEW i \in Indices
  PROVE  DataAt(slots, i) = NoData <=> i \notin held
BY SlotsAssumption
DEF IInv, HeldIsOccupied, OccupiedFits, FreeSlots, DataAt

(* Every step of the array is a step of the pool.                          *)
LEMMA StepRefines == IInv /\ IInv' /\ [Next]_vars => [Pool!Next]_(Pool!vars)
<1> SUFFICES ASSUME IInv, IInv', [Next]_vars PROVE [Pool!Next]_(Pool!vars)
  OBVIOUS
<1> DEFINE content == [j \in Indices |-> DataAt(slots, j)]
<1>1. /\ slots \in SlotsHeader /\ slots' \in SlotsHeader
      /\ held \subseteq Indices
      /\ slots.slot \in [Indices -> SlotMetadata]
  BY DEF IInv, TypeOK, SlotsHeader
<1>2. PICK order : IsFreeList(slots, order) /\ slots.count <= Capacity
  BY DEF IInv, FreeListIntact
<1>3. Pool!Cells = Indices
  BY DEF Pool!Cells, Indices
<1>4. \A i \in Indices : content[i] = NoData <=> i \notin held
  BY VacantIsFree
<1>5. ASSUME NEW d \in Payload, Insert(d) PROVE Pool!Store(d)
  <2> DEFINE f == slots.firstFree
  <2>1. slots' = Inserted(slots, d) /\ ~IsFull(slots)
        /\ ret' = [kind |-> "index", index |-> f]
    BY <1>5 DEF Insert
  <2>2. f \in Indices /\ f \in FreeSlots(slots)
    BY <1>1, <1>2, <2>1, HeadIsFree DEF FreeSlots
  <2>3. slots'.slot = [slots.slot EXCEPT ![f] = Written(d)]
    BY <1>1, <2>1, <2>2, InsertedFields
  <2>4. DataAt(slots', f) = d
    BY <1>1, <2>2, <2>3 DEF DataAt, Written
  <2>5. content' = [content EXCEPT ![f] = d]
    BY <1>1, <2>2, <2>3, <2>4, ContentChange
  <2>6. content[f] = NoData
    BY <2>2 DEF DataAt, FreeSlots
  <2>7. QED
    BY <1>3, <2>1, <2>2, <2>5, <2>6 DEF Pool!Store
<1>6. ASSUME InsertTableFull PROVE Pool!Refuse
  <2>1. FreeSlots(slots) = {}
    BY <1>1, <1>2, <1>6, FullHasNoFreeSlot DEF InsertTableFull
  <2>2. \A i \in Indices : content[i] # NoData
    BY <1>4, <2>1 DEF IInv, HeldIsOccupied
  <2>3. content' = content /\ ret' = [kind |-> "TableFull"]
    BY <1>6 DEF InsertTableFull
  <2>4. QED
    BY <1>3, <2>2, <2>3 DEF Pool!Refuse
<1>7. ASSUME NEW d \in Payload, InsertTooBig(d) PROVE Pool!TooBig
  BY <1>7 DEF InsertTooBig, Pool!TooBig
<1>8. ASSUME NEW i \in Indices, NEW d \in Payload, Update(i, d)
      PROVE  Pool!Overwrite(i, d)
  <2>1. i \in held /\ slots' = Updated(slots, i, d) /\ ret' = [kind |-> "unit"]
    BY <1>8 DEF Update
  <2>2. slots'.slot = [slots.slot EXCEPT ![i] = Written(d)]
    BY <1>1, <2>1, UpdatedFields
  <2>3. DataAt(slots', i) = d
    BY <1>1, <2>2 DEF DataAt, Written
  <2>4. content' = [content EXCEPT ![i] = d]
    BY <1>1, <2>2, <2>3, ContentChange
  <2>5. QED
    BY <1>4, <2>1, <2>4 DEF Pool!Overwrite
<1>9. ASSUME NEW i \in Indices, NEW d \in Payload, UpdateTooBig(i, d)
      PROVE  Pool!TooBig
  BY <1>9 DEF UpdateTooBig, Pool!TooBig
<1>10. ASSUME NEW i \in Indices, Remove(i) PROVE Pool!Release(i)
  <2>1. i \in held /\ slots' = Removed(slots, i) /\ ret' = [kind |-> "unit"]
    BY <1>10 DEF Remove
  <2>2. /\ slots'.slot[i].state = "Free"
        /\ \A j \in Indices \ {i} : slots'.slot[j] = slots.slot[j]
    BY <1>1, <2>1, RemovedFields
  <2>3. DataAt(slots', i) = NoData
    BY <2>2 DEF DataAt
  <2>4. content' = [content EXCEPT ![i] = NoData]
    BY <1>1, <2>2, <2>3, ContentChange
  <2>5. QED
    BY <1>4, <2>1, <2>4 DEF Pool!Release
<1>11. ASSUME NEW i \in Indices, Get(i) PROVE Pool!Fetch(i)
  BY <1>11 DEF Get, Pool!Fetch
<1>12. UNCHANGED vars => UNCHANGED Pool!vars
  BY DEF vars, Pool!vars
<1>13. QED
  BY <1>3, <1>5, <1>6, <1>7, <1>8, <1>9, <1>10, <1>11, <1>12
  DEF Next, Pool!Next

(* A caller cannot tell the free list from a pool of cells: an insertion   *)
(* lands in a vacant cell, and is refused as full only when all are taken  *)
(* (slot.rs, impl Slots).                                                  *)
THEOREM SlotsImplementPool == Spec => RefinesPool
<1>1. Init => Pool!Init
  BY DEF Init, New, DataAt, Pool!Init, Pool!Cells, Indices
<1>2. QED
  BY <1>1, Invariant, StepRefines, PTL DEF Spec, RefinesPool, Pool!Spec
=============================================================================
