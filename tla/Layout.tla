------------------------------- MODULE Layout -------------------------------
(***************************************************************************)
(* Where the bytes of a table lie: the sizes create_with_size and          *)
(* Index::new ask for (src/table.rs, src/internal/index.rs), the addresses *)
(* src/internal/header.rs and slot.rs compute, and the whole pages the     *)
(* kernel maps for a block (block.rs).  Addresses are byte offsets from    *)
(* the start of a block, which lies at a page boundary.                    *)
(***************************************************************************)
EXTENDS Integers

CONSTANTS
  Capacities,   \* capacities of tables to look at
  RecordSizes   \* and their record sizes

VARIABLES
  block,    \* the block whose slots are initialized
  next      \* initialize_free_list: the next slot

vars == <<block, next>>

PageSize == 4096
CeilDiv(a, b) == (a + b - 1) \div b

(* size_of the structs on a 64-bit machine. *)
TableHeaderSize == 16
SlotsHeaderSize == 32
SlotMetadataSize == 16
BucketSize == 8
NodeSize(keySize) == 8 * CeilDiv(keySize, 8) + 16

TotalBuckets(capacity) == CeilDiv(3 * capacity, 4)

(* A block: what comes before the slots header, how many slots of how many *)
(* bytes, and the size Block::new is asked for.                            *)
SlotSize(dataSize) == SlotMetadataSize + dataSize
RequiredSize(capacity, dataSize) == SlotSize(dataSize) * capacity

Block(before, capacity, dataSize) ==
  [before |-> before, capacity |-> capacity, slotSize |-> SlotSize(dataSize),
   total |-> before + RequiredSize(capacity, dataSize)]

TableBlock(capacity, recordSize) == Block(TableHeaderSize, capacity, recordSize)

(* MemoryArray::new is told bytes where it counts buckets; only the first  *)
(* TotalBuckets of its elements are ever used.                             *)
IndexBlock(capacity, keySize) ==
  Block(BucketSize * TotalBuckets(capacity), capacity, NodeSize(keySize))

SlotAddress(b, i) == b.before + SlotsHeaderSize + i * b.slotSize
SizeWordAddress(b, i) == SlotAddress(b, i) + 8
SlotEnd(b, i) == SlotAddress(b, i) + b.slotSize

Mapped(b) == PageSize * CeilDiv(b.total, PageSize)

-----------------------------------------------------------------------------
(* create_with_size, as far as the loop that initializes the slots.        *)

Init ==
  /\ block \in {TableBlock(c, r) : c \in Capacities, r \in RecordSizes}
  /\ next = 0

InitializeSlot ==
  /\ next < block.capacity
  /\ next' = next + 1
  /\ UNCHANGED block

Spec == Init /\ [][InitializeSlot]_vars

(* The bytes of every slot lie in memory the process has mapped            *)
(* (table.rs:198, "number of bytes reserved per stored record").           *)
SlotsMapped == next > 0 => SlotEnd(block, next - 1) <= Mapped(block)
=============================================================================
