---------------------------- MODULE LayoutProofs ----------------------------
(* What the layout of module Layout amounts to, for every capacity and     *)
(* record size.                                                            *)
EXTENDS Layout, TLAPS

(* A block as create_with_size and Index::new make them.                   *)
IsBlock(b) == /\ b.before \in Nat /\ b.capacity \in Nat \ {0}
              /\ b.slotSize \in Nat \ {0}
              /\ b.total = b.before + b.slotSize * b.capacity

(* The products the addresses are made of.                                 *)
LEMMA LastTimes ==
  ASSUME NEW c \in Nat \ {0}, NEW s \in Nat
  PROVE  (c - 1) * s + s = s * c /\ (c - 1) * s \in Nat
<1>1. PICK d \in Nat : c = d + 1
  BY c - 1 \in Nat
<1> QED
  BY <1>1

(* One slot ends before a later one starts, counted from the first.        *)
LEMMA NextTimes ==
  ASSUME NEW i \in Nat, NEW j \in Nat, i < j, NEW s \in Nat
  PROVE  i * s + s <= j * s /\ i * s \in Nat /\ j * s \in Nat
<1>1. PICK d \in Nat : j = i + 1 + d
  BY j - (i + 1) \in Nat
<1>2. j * s = i * s + s + d * s /\ d * s \in Nat /\ i * s \in Nat
  BY <1>1
<1> QED
  BY <1>2

(* Rounding up to whole pages leaves room for 32 bytes more, or does not.  *)
LEMMA RoundUp ==
  ASSUME NEW t \in Nat
  PROVE  t + 32 <= 4096 * ((t + 4095) \div 4096) <=> t % 4096 \in 1 .. 4064
<1>1. PICK q \in Nat, r \in 0 .. 4095 : t = 4096 * q + r
  BY t \div 4096 \in Nat, t % 4096 \in 0 .. 4095
<1>2. t % 4096 = r
  BY <1>1
<1>3. CASE r = 0
  BY <1>1, <1>2, <1>3
<1>4. CASE r # 0
  <2>1. (t + 4095) \div 4096 = q + 1
    BY <1>1, <1>4
  <2>2. 4096 * ((t + 4095) \div 4096) = 4096 * q + 4096
    BY <1>1, <2>1
  <2>3. t + 32 <= 4096 * ((t + 4095) \div 4096) <=> r <= 4064
    BY <1>1, <2>2
  <2> QED
    BY <1>2, <1>4, <2>3
<1> QED
  BY <1>3, <1>4

(* Both kinds of block are of that shape. *)
LEMMA TableBlocks ==
  ASSUME NEW c \in Nat \ {0}, NEW r \in Nat
  PROVE  IsBlock(TableBlock(c, r))
BY DEF IsBlock, TableBlock, Block, SlotSize, RequiredSize, SlotMetadataSize,
       TableHeaderSize

(* The index block has its buckets where the table has its header.         *)
LEMMA IndexBlocks ==
  ASSUME NEW c \in Nat \ {0}, NEW k \in Nat
  PROVE  IsBlock(IndexBlock(c, k))
<1>1. TotalBuckets(c) \in Nat
  BY DEF TotalBuckets, CeilDiv
<1>2. NodeSize(k) \in Nat
  BY DEF NodeSize, CeilDiv
<1>3. BucketSize * TotalBuckets(c) \in Nat
  BY <1>1 DEF BucketSize
<1> HIDE DEF TotalBuckets, NodeSize
<1> QED
  BY <1>2, <1>3 DEF IsBlock, IndexBlock, Block, SlotSize, RequiredSize, SlotMetadataSize

(* Slots do not overlap: what insert, update and the free list write to    *)
(* one slot leaves the next one alone (slot.rs:149-157).                   *)
THEOREM SlotsDisjoint ==
  ASSUME NEW b, IsBlock(b), NEW i \in Nat, NEW j \in Nat, i < j
  PROVE  SlotEnd(b, i) <= SlotAddress(b, j)
<1>1. /\ b.before \in Nat /\ b.slotSize \in Nat
  BY DEF IsBlock
<1>2. /\ i * b.slotSize + b.slotSize <= j * b.slotSize
      /\ i * b.slotSize \in Nat /\ j * b.slotSize \in Nat
  BY <1>1, NextTimes
<1> QED
  BY <1>1, <1>2 DEF SlotEnd, SlotAddress, SlotsHeaderSize

(* calculate_required_size leaves out the slots header, so that the last   *)
(* slot ends 32 bytes behind the block (slot.rs:48-51).                    *)
THEOREM LastSlotEndsBehindBlock ==
  ASSUME NEW b, IsBlock(b)
  PROVE  SlotEnd(b, b.capacity - 1) = b.total + SlotsHeaderSize
<1>1. /\ b.before \in Nat /\ b.slotSize \in Nat /\ b.capacity \in Nat \ {0}
      /\ b.total = b.before + b.slotSize * b.capacity
  BY DEF IsBlock
<1>2. /\ (b.capacity - 1) * b.slotSize + b.slotSize = b.slotSize * b.capacity
      /\ (b.capacity - 1) * b.slotSize \in Nat
  BY <1>1, LastTimes
<1> QED
  BY <1>1, <1>2 DEF SlotEnd, SlotAddress, SlotsHeaderSize

(* Every other slot lies inside the block, if slots have at least the size *)
(* of their header's overrun: records of 16 bytes do (slot.rs:48-51).      *)
THEOREM OtherSlotsInBlock ==
  ASSUME NEW b, IsBlock(b), b.slotSize >= SlotsHeaderSize,
         NEW i \in Nat, i < b.capacity - 1
  PROVE  SlotEnd(b, i) <= b.total
<1>1. /\ b.before \in Nat /\ b.slotSize \in Nat /\ b.capacity \in Nat
  BY DEF IsBlock
<1>2. SlotEnd(b, i) <= SlotAddress(b, b.capacity - 1)
  BY <1>1, SlotsDisjoint
<1>3. SlotAddress(b, b.capacity - 1) + b.slotSize = b.total + SlotsHeaderSize
  BY LastSlotEndsBehindBlock DEF SlotEnd
<1>4. /\ SlotEnd(b, i) \in Int /\ SlotAddress(b, b.capacity - 1) \in Int
      /\ b.total \in Int
  BY <1>1 DEF SlotEnd, SlotAddress, SlotsHeaderSize, IsBlock
<1> QED
  BY <1>1, <1>2, <1>3, <1>4 DEF SlotsHeaderSize

(* The last slot is saved by the rounding to pages unless the size of the  *)
(* block is a multiple of a page or misses one by less than the 32 bytes.  *)
THEOREM LastSlotMapped ==
  ASSUME NEW b, IsBlock(b)
  PROVE  SlotEnd(b, b.capacity - 1) <= Mapped(b)
           <=> b.total % PageSize \in 1 .. PageSize - SlotsHeaderSize
<1>1. b.total \in Nat
  BY DEF IsBlock
<1>2. SlotEnd(b, b.capacity - 1) = b.total + 32
  BY LastSlotEndsBehindBlock DEF SlotsHeaderSize
<1>3. PICK t \in Nat : t = b.total
  BY <1>1
<1>4. Mapped(b) = 4096 * ((t + 4095) \div 4096)
  BY <1>3 DEF Mapped, CeilDiv, PageSize
<1>5. b.total % PageSize = t % 4096 /\ PageSize - SlotsHeaderSize = 4064
  BY <1>3 DEF PageSize, SlotsHeaderSize
<1>6. SlotEnd(b, b.capacity - 1) = t + 32
  BY <1>2, <1>3
<1>7. t + 32 <= 4096 * ((t + 4095) \div 4096) <=> t % 4096 \in 1 .. 4064
  BY RoundUp
<1>8. CASE t % 4096 \in 1 .. 4064
  <2>1. t + 32 <= Mapped(b)
    BY <1>4, <1>7, <1>8
  <2>2. b.total % PageSize \in 1 .. PageSize - SlotsHeaderSize
    BY <1>5, <1>8
  <2> QED
    BY <1>6, <2>1, <2>2
<1>9. CASE t % 4096 \notin 1 .. 4064
  <2>1. ~(t + 32 <= Mapped(b))
    BY <1>4, <1>7, <1>9
  <2>2. b.total % PageSize \notin 1 .. PageSize - SlotsHeaderSize
    BY <1>5, <1>9
  <2> QED
    BY <1>6, <2>1, <2>2
<1> QED
  BY <1>8, <1>9

(* A table of 127 records of the default size (table.rs:143) fills 64      *)
(* pages exactly: the end of its last record is not mapped.                *)
THEOREM DefaultTableOf127 ==
  LET b == TableBlock(127, 2048)
  IN  b.total = 64 * PageSize /\ SlotEnd(b, 126) = Mapped(b) + 32
BY DEF TableBlock, Block, SlotSize, RequiredSize, SlotMetadataSize, PageSize,
       TableHeaderSize, SlotEnd, SlotAddress, SlotsHeaderSize, Mapped, CeilDiv

(* The index of a table of 2048 records with keys of up to 8 bytes fills   *)
(* 23 pages exactly: Slots::new writes the size word of its last node      *)
(* behind the mapping while the table is created (slot.rs:76).             *)
THEOREM IndexOf2048 ==
  ASSUME NEW k \in 1 .. 8
  PROVE  LET b == IndexBlock(2048, k)
         IN  b.total = 23 * PageSize /\ SizeWordAddress(b, 2047) = Mapped(b)
<1>1. NodeSize(k) = 24
  BY DEF NodeSize, CeilDiv
<1> QED
  BY <1>1 DEF IndexBlock, Block, SlotSize, RequiredSize, SlotMetadataSize, PageSize,
     BucketSize, TotalBuckets, SizeWordAddress, SlotAddress, SlotsHeaderSize,
     Mapped, CeilDiv

(* The metadata of all slots are aligned if records are a multiple of 8    *)
(* bytes long (slot.rs:149).                                               *)
THEOREM SlotsAligned ==
  ASSUME NEW c \in Nat \ {0}, NEW r \in Nat, r % 8 = 0, NEW i \in Nat
  PROVE  SlotAddress(TableBlock(c, r), i) % 8 = 0
<1>1. PICK q \in Nat : r = 8 * q
  BY DEF PageSize
<1>2. i * (16 + r) = 8 * (i * (2 + q)) /\ i * (2 + q) \in Nat
  BY <1>1
<1>3. SlotAddress(TableBlock(c, r), i) = 48 + i * (16 + r)
  BY DEF SlotAddress, TableBlock, Block, SlotSize, SlotMetadataSize,
     TableHeaderSize, SlotsHeaderSize
<1> DEFINE m == i * (2 + q)
<1>4. m \in Nat /\ SlotAddress(TableBlock(c, r), i) = 48 + 8 * m
  BY <1>2, <1>3
<1> HIDE DEF m
<1> QED
  BY <1>4

(* With any other record size those of the second slot are not: only       *)
(* headers are checked for it (header.rs:18, slot.rs:149).                 *)
THEOREM SecondSlotMisaligned ==
  ASSUME NEW c \in Nat \ {0}, NEW r \in Nat, r % 8 # 0
  PROVE  SlotAddress(TableBlock(c, r), 1) % 8 # 0
<1>1. SlotAddress(TableBlock(c, r), 1) = 64 + r
  BY DEF SlotAddress, TableBlock, Block, SlotSize, SlotMetadataSize,
     TableHeaderSize, SlotsHeaderSize
<1> QED
  BY <1>1
=============================================================================
