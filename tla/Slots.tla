------------------------------- MODULE Slots -------------------------------
(***************************************************************************)
(* The slot array of src/internal/slot.rs, used by one caller at a time:   *)
(* Capacity slots of DataSize bytes, a header with the number of occupied  *)
(* slots and the head of the free list, and a metadata word `size' that is *)
(* the length of the payload in an occupied slot and the index of the next *)
(* free slot in a free one.                                                *)
(*                                                                         *)
(* The operators take and return the whole structure as a value, so that   *)
(* HashIndex can chain two of them in one of its own operations.           *)
(***************************************************************************)
EXTENDS Integers, FiniteSets

CONSTANTS
  Capacity,  \* SlotsHeader.capacity
  DataSize,  \* slot_size - SLOT_METADATA_SIZE
  Payload,   \* the byte strings callers store
  SizeOf,    \* their lengths
  NoData     \* the empty slice `get' returns for a free slot

ASSUME SlotsAssumption ==
  /\ Capacity \in Nat
  /\ DataSize \in Nat
  /\ SizeOf \in [Payload -> Nat]
  /\ NoData \notin Payload

VARIABLES
  slots,  \* the shared-memory structure: header and slots
  held,   \* the indices the caller got from insert and has not removed
  ret     \* what the last call returned

vars == <<slots, held, ret>>

Indices == 0 .. Capacity - 1

-----------------------------------------------------------------------------
(* The structure and its operations, as values.                            *)

SlotMetadata == [state : {"Free", "Occupied"}, size : Nat,
                 data : Payload \cup {NoData}]

SlotsHeader == [count : Nat, firstFree : Nat, slot : [Indices -> SlotMetadata]]

(* Slots::new over zeroed memory: the i-th slot links to the next one and  *)
(* the last one to Capacity, the end mark.                                 *)
New ==
  [count |-> 0, firstFree |-> 0,
   slot |-> [i \in Indices |->
     [state |-> "Free", data |-> NoData,
      size |-> IF i + 1 < Capacity THEN i + 1 ELSE Capacity]]]

(* Mutation of IsFull: one slot early.                                     *)
IsFullEarly(s) == s.count + 1 >= Capacity

IsFull(s) == s.count >= Capacity

(* Mutation of Fits: measures against slot_size, metadata included.        *)
FitsWithMetadata(d) == SizeOf[d] <= DataSize + 16

Fits(d) == SizeOf[d] <= DataSize

(* set_record_data: the slot's metadata words and payload in one piece.    *)
Written(d) == [state |-> "Occupied", size |-> SizeOf[d], data |-> d]

(* Mutation of Inserted: forgets count += 1.                               *)
InsertedUncounted(s, d) ==
  [count |-> s.count,
   firstFree |-> s.slot[s.firstFree].size,
   slot |-> [s.slot EXCEPT ![s.firstFree] = Written(d)]]

(* insert once both checks passed; the new record's index is s.firstFree,  *)
(* and what the free slot keeps in `size' becomes the head of the list.    *)
Inserted(s, d) ==
  [count |-> s.count + 1,
   firstFree |-> s.slot[s.firstFree].size,
   slot |-> [s.slot EXCEPT ![s.firstFree] = Written(d)]]

Updated(s, i, d) ==
  [count |-> s.count,
   firstFree |-> s.firstFree,
   slot |-> [s.slot EXCEPT ![i] = Written(d)]]

(* Mutation of Removed: the freed slot does not link to the old head.      *)
RemovedUnlinked(s, i) ==
  [count |-> s.count - 1,
   firstFree |-> i,
   slot |-> [s.slot EXCEPT ![i].state = "Free"]]

(* Mutation of Removed: the slot keeps its state.                          *)
RemovedOccupied(s, i) ==
  [count |-> s.count - 1,
   firstFree |-> i,
   slot |-> [s.slot EXCEPT ![i].size = s.firstFree]]

(* remove does not look at the slot's state: the caller vouches for it.    *)
Removed(s, i) ==
  [count |-> s.count - 1,
   firstFree |-> i,
   slot |-> [s.slot EXCEPT
     ![i] = [state |-> "Free", size |-> s.firstFree, data |-> @.data]]]

DataAt(s, i) == IF s.slot[i].state = "Free" THEN NoData ELSE s.slot[i].data

-----------------------------------------------------------------------------
(* The calls.  A caller passes to update and remove only indices it holds  *)
(* (module Table shows where its two callers keep to that).                *)

Init ==
  /\ slots = New
  /\ held = {}
  /\ ret = [kind |-> "none"]

Insert(d) ==
  /\ ~IsFull(slots)
  /\ Fits(d)
  /\ slots' = Inserted(slots, d)
  /\ held' = held \cup {slots.firstFree}
  /\ ret' = [kind |-> "index", index |-> slots.firstFree]

InsertTableFull ==
  /\ IsFull(slots)
  /\ ret' = [kind |-> "TableFull"]
  /\ UNCHANGED <<slots, held>>

InsertTooBig(d) ==
  /\ ~IsFull(slots)
  /\ ~Fits(d)
  /\ ret' = [kind |-> "RecordSizeTooBig"]
  /\ UNCHANGED <<slots, held>>

Update(i, d) ==
  /\ i \in held
  /\ Fits(d)
  /\ slots' = Updated(slots, i, d)
  /\ ret' = [kind |-> "unit"]
  /\ UNCHANGED held

UpdateTooBig(i, d) ==
  /\ i \in held
  /\ ~Fits(d)
  /\ ret' = [kind |-> "RecordSizeTooBig"]
  /\ UNCHANGED <<slots, held>>

Remove(i) ==
  /\ i \in held
  /\ slots' = Removed(slots, i)
  /\ held' = held \ {i}
  /\ ret' = [kind |-> "unit"]

Get(i) ==
  /\ ret' = [kind |-> "data", data |-> DataAt(slots, i)]
  /\ UNCHANGED <<slots, held>>

Next ==
  \/ \E d \in Payload : Insert(d) \/ InsertTooBig(d)
  \/ InsertTableFull
  \/ \E i \in Indices, d \in Payload : Update(i, d) \/ UpdateTooBig(i, d)
  \/ \E i \in Indices : Remove(i) \/ Get(i)

Spec == Init /\ [][Next]_vars

-----------------------------------------------------------------------------
(* Properties.                                                             *)

(* The header and every slot stay within their types; the caller's indices *)
(* are slots of this array (slot.rs, struct SlotsHeader and SlotMetadata). *)
TypeOK ==
  /\ slots \in SlotsHeader
  /\ held \subseteq Indices

FreeSlots(s) == {i \in Indices : s.slot[i].state = "Free"}

(* `order' lists the free slots of s as the links visit them, and then the *)
(* end mark Capacity.                                                      *)
IsFreeList(s, order) ==
  LET n == Capacity - s.count IN
  /\ order \in [1 .. n + 1 -> 0 .. Capacity]
  /\ order[1] = s.firstFree
  /\ order[n + 1] = Capacity
  /\ \A j \in 1 .. n : order[j] \in FreeSlots(s)
                       /\ s.slot[order[j]].size = order[j + 1]
  /\ \A j, k \in 1 .. n : order[j] = order[k] => j = k
  /\ \A i \in FreeSlots(s) : \E j \in 1 .. n : order[j] = i

(* After any sequence of calls the links starting at first_free visit each *)
(* free slot exactly once and then the end mark, and count is the number   *)
(* of the others (slot.rs, insert and remove, which reuse `size' as link). *)
FreeListIntact ==
  /\ slots.count <= Capacity
  /\ \E order \in [1 .. Capacity - slots.count + 1 -> 0 .. Capacity] :
       IsFreeList(slots, order)

(* An index handed out by insert stays occupied until its holder removes   *)
(* it, and no other slot is occupied: none is leaked, none is given twice, *)
(* and count, which decides TableFull, is their number (slot.rs, insert    *)
(* never returns an index somebody still holds).                           *)
HeldIsOccupied ==
  /\ held = Indices \ FreeSlots(slots)
  /\ slots.count = Cardinality(held)

(* Every occupied slot carries the payload last written to it with its own *)
(* length, within the slot (slot.rs, both size checks and set_record_data).*)
OccupiedFits ==
  \A i \in held : /\ slots.slot[i].data \in Payload
                  /\ slots.slot[i].size = SizeOf[slots.slot[i].data]
                  /\ slots.slot[i].size <= DataSize

(* The slot array is a pool: a free list that lost or repeated a slot, or  *)
(* a counter that drifted, would show as a wrong index or a wrong refusal  *)
(* (slot.rs, the whole of impl Slots).                                     *)
Pool == INSTANCE SlotPool
          WITH Vacant <- NoData,
               content <- [i \in Indices |-> DataAt(slots, i)]

RefinesPool == Pool!Spec
=============================================================================
