# Formal model of inmemorytable-rs

inmemorytable-rs keeps typed records in POSIX shared memory. Several processes
open a table by name, insert, find, update and remove records by primary key,
and synchronise through System V semaphores. This directory holds TLA+ modules
for it, configurations for the model checker TLC and proofs for the proof
system TLAPS. `PROJECT.json` links every definition to the source lines it
models, lists the runs, the hazards of the code and the findings.

Paths below are relative to the repository's root.

## 1. Inventory

| Part | Source | State it keeps | Operations |
|---|---|---|---|
| Slots | `src/internal/slot.rs` | in shared memory: `count`, `first_free`, per slot `state`, `size` and payload; `size` is the payload's length in an occupied slot and the next free slot in a free one | `new`, `open`, `insert`, `update`, `get`, `remove`, `iter` |
| Index | `src/internal/index.rs`, `offset.rs` | a second block: the bucket array, and nodes `key, position, next` in Slots of its own; a semaphore set with one semaphore | `new`, `open`, `insert`, `get`, `remove`, `iter`, `destroy` |
| SemaphoreSet | `src/internal/semaphore.rs` | kernel: semaphore values and the undo values of each process | `create`, `open`, `lock_record`, `lock_table`, drop of a guard, `destroy` |
| Table | `src/table.rs` | block, header with magic number and capacity, Slots, SemaphoreSet, Index | `create`, `create_with_size`, `open`, `insert`, `find`, `update_with_lock`, `update_many`, `remove`, `count`, `iter`, `keys`, `destroy` |
| Block | `src/internal/block.rs` | a shared memory object, its mapping and descriptor | `new`, `open`, `destroy`, drop |
| Header, MemoryArray | `src/internal/header.rs`, `memory_array.rs` | none: typed views of mapped memory | `new`, `with_value`, `data`, deref |
| TableRecord, errors | `src/record.rs`, `src/error.rs` | none | a key accessor; errno to error |

**How they interact.** A table call asks the index for the position of the key
(under the index semaphore, released on return), *then* takes a semaphore of the
table's set - the table's own for `insert`, the record's for `update_with_lock`,
`update_many` and `remove`, none for `find`, `count` and the iterators - and
then works on the record's slot and, for `insert` and `remove`, calls the index
again. The table and its index use two separate instances of Block, Slots and
SemaphoreSet. There are no messages and no callbacks except the closure of an
update, which runs under the record's lock. Processes share nothing but the
mapped memory, the semaphores and the names of both.

**What is hard.** Shared memory is read and written without atomics; different
calls use different locks for the same words; positions are looked up before the
lock is held; the index goes on without its lock when a signal ends the wait; a
process can be killed between any two stores, after which the kernel reverts its
semaphore operations and nothing else; `create` and `destroy` consist of several
system calls each of which others see, and each of which can fail.

**What makes each part correct.**

- *Slots*: the links from `first_free` visit each free slot once and end at
  `capacity`; `count` is the number of occupied slots; no index is handed out
  twice; no record exceeds its slot.
- *Index*: chains are disjoint, acyclic and complete; nodes are neither lost nor
  shared; lookups see what was inserted and not removed; every walk ends.
- *SemaphoreSet*: mutual exclusion, no semaphore lost to a death or an error,
  every wait ends, every number passed to the kernel lies in the set.
- *Table*: every call takes effect at one instant between its start and its
  return with the result the documentation gives; what the index leads to is a
  complete record of its key; every call returns.
- *Life cycle*: what `open` returns is one whole table: blocks initialized, the
  semaphores of the records raised, those of the index raised too unless the
  creator is just about to do that, or died there; a failed `create` leaves
  nothing half-made under the name; `destroy` removes all of it.
- *Layout*: slots do not overlap and lie inside the mapped block.

## 2. Modules

```
SlotPool  <--refines--  Slots  <---- SlotsProofs
                        ^   ^
                        |   | free list, count
KeyIndex  <--refines--  HashIndex
   ^                    ^---- HashIndexSteps <---- HashIndexProofs
   | operators
Table  --refines-->  KVStore
   ^---- TableProofs <---- StoreProofs
SemaphoreSet  <---- SemaphoreSetProofs
Lifecycle (Block, SemaphoreSet, Table and Index as objects with names)
   ^---- LifecycleProofs
Layout  <---- LayoutProofs
MCSlots, MCHashIndex, MCTable, MCSemaphoreSet, MCLifecycle, MCLayout: for TLC
```

### Slots and SlotPool

`Slots` is the slot array as one value (`count`, `firstFree`, `slot`), with one
operator per operation (`Inserted`, `Updated`, `Removed`, `DataAt`) and one
action per outcome of a call. `held` is the caller's side of the contract: the
indices it got from `insert` and has not removed; `update` and `remove` do not
look at the slot's state, so a caller passes only what it holds. `SlotPool` is
the promise: cells, an insertion takes some vacant one and is refused for room
only when there is none. The mapping sends a slot to its payload, or to `Vacant`
when it is free; `count`, the list and the sizes disappear.

### HashIndex and KeyIndex

`HashIndex` has the bucket array, the chains and a slot array for the nodes;
links keep the `Offset` encoding (0 is none, n + 1 is node n). Several processes
use it. Every store is a step: taking the head of the free list, counting,
`state`, the node, the link; and for a removal the link, `state`, the free-list
link, `first_free`, `count`. Each node a walk visits and each test is a step. A
word that is read right before a store belongs to the store's step (`count += 1`,
the free-list link read before `first_free` is set), and a node is read in one
step; under the semaphore nobody can tell the difference.

- The lock result is discarded as in the code: `LockInterrupted` goes on to the
  bucket with nothing locked, and `Unlock` then releases nothing.
- `keys` takes no lock. Its cursor is `tmp`, what it yielded `seen`.
- `update_node` writes state, size and node of a slot from a copy (`from`).
- A node that is freed keeps its bytes in memory; the model sets them to
  `NoNode`, since `get` never returns them again.
- A process that reads a free node, takes a slot behind the end mark or unwraps
  an empty bucket goes to `wild` and stays there.
- A walk `Chain` gives up after one step more than there are nodes; the code's
  has no bound, and `ChainsSound` shows that the difference never arises.
- What may be asked is `IsRequest`. The properties are those of *workable*
  scenarios (`Workable`): `keys` runs alone, since it reads the nodes without the
  semaphore, and where waits are interrupted nobody removes and at most one
  process inserts. Two insertions never meet in the index anyway, interrupted or
  not: `Table::insert` calls it with the table's semaphore held (table.rs:538).
  `Table::remove` holds a record's (table.rs:639), so a removal does meet an
  insertion, and then the index semaphore is all there is: `index_interrupted`
  shows what its loss does. `MCHashIndex` evaluates `Workable` on the scenarios
  of the run `index`.

`KeyIndex` is the promise: a multimap, since `insert` does not check for
duplicates; `get` and `remove` see the oldest entry of a key; each call takes
effect at one instant between `Begin` and `Return`. A process that dies in an
insertion or a removal may take the room of one entry with it (`lost`).

### Table and KVStore

`Table` is the table as several processes share it. Each load and store of
shared memory is a step, in program order: the load and the store of `count`,
the store of `first_free`, of a slot's `state`, its `size` and each of the two
words a payload is made of. Two words are enough to tell a record that was read
while it was written from a whole one. The data races this code has are
undefined behaviour in Rust; the model takes the outcomes a compiled program
has when word accesses happen in program order. An index call is one step with
`KeyIndex`'s operators: `HashIndex` refines them as long as its lock is not
interrupted, and `Table` interrupts only the table's own locks. Lookup, lock,
work and unlock are separate steps, as in the code.

- A value is a number; an update's closure adds one and leaves the key alone.
- A record of value v has `BaseLen + v` bytes, so that updates change its length
  and the length stored in the slot matters to readers: bincode fails on a
  slice that is too short and ignores trailing bytes. A free slot reads as the
  empty slice and does not decode.
- `count += 1` and `count -= 1` wrap (`WordMax`), as in a release build; in a
  debug build an underflow panics instead.
- `update_with_lock` is `update_many` with one key.
- `iter` is used up by its caller at once; `seen` is what it yielded.
- An insertion that follows the list to its end mark, and an iteration that
  skips past the last slot, compute an address behind it. The process goes to
  `wild` and stays there.
- Below 1024 records a record's semaphore has the record's number and the
  table's has the number `capacity`; `SemaphoreSetProofs` proves that layout.
- A process dies (`Crash`) only inside a call; the kernel frees its semaphores.
  Its `pc` keeps where it died.
- What may be asked is `IsRequest`: `insert`, `find` and `remove` name one key,
  `update_many` one or more. The records that are there before we look
  (`Preload`) have keys of their own, as a table filled by one process has.

`KVStore` is the promise: unique keys, one instant per call; `update_many` takes
effect key by key, a call that waits may fail, an iteration yields every record
once, an insertion that dies takes at most one record's room along (`lost`). The
mapping takes a key's value from the record its oldest index entry leads to. The
instant of an insertion is its index step, of an update the store of its last
word, of a removal its index step, of a lookup that decides the result the
lookup, of `count` the load, of an iteration its last test.

### SemaphoreSet

Values, undo values and processes in `create`, in a lock call, holding a guard.
`create` raises the semaphores one by one after the set is visible, without
`SEM_UNDO`; lock and unlock use `SEM_UNDO`; `destroy` removes the set whatever
others do, and then waiters get an error and guards fall silently. The number
passed to `semop` is computed as in the code: stripes, division, and the cast to
16 bits.

### Lifecycle

`create`, `open` and `destroy` for the tables of one name. A table has two
halves, records and index, and each half a shared memory object and a semaphore
set, so a name stands for four objects (`shm`, `sem`). Objects are known by the
number of the creation that made them: an object whose name was taken away lives
on in the handles that have it mapped (`mine`), a set does not. Each system call
and each initialization is a step. `half` says which half a process is busy
with; the code for the second half is the same as for the first, without a
header.

- `shm_open` with `O_EXCL`, `ftruncate`, `mmap`, the header, the slots, `semget`
  with `IPC_EXCL` and the raising of the semaphores are the steps of `create`.
  What fails after the block was made leaves the block; only `ftruncate` and
  `mmap` take the name back, by name (`Abandon`).
- `raised` says of each set whether its semaphores were raised from the 0 they are
  made with. The loop of `sem_reset` is one step: a creator that dies in it leaves
  a set of which some semaphore is at 0, which is what `FALSE` means.
- `open` maps the object, looks at the magic number, opens the set, then the
  index. It looks at no semaphore. Mapping an object without a size fails.
- `destroy` unlinks by name and removes the set by identifier, for the records
  and then for the index, and stops at the first error.
- System calls fail nondeterministically (`Fault`), processes die in a call.
- The errors returned are those of `error.rs` for the errno. `shm_open` in
  `Block::new` does not use the mapping: a taken name is `ShmError`, although
  `table.rs:153` announces `ShmAlreadyExists`.

All tables of the name have one capacity, so that sets are never too small.

### Layout

Sizes and addresses as `create_with_size` and `Index::new` compute them, for a
64-bit machine, and the pages the kernel maps. The state machine is the loop
that initializes the slots.

## 3. Runs

| Run | Module / cfg | What it shows |
|---|---|---|
| `slots` | MCSlots | free list, held indices, sizes, refinement of SlotPool |
| `index` | MCHashIndex | at every moment chains are acyclic and lead through complete nodes of their bucket; between calls no node is leaked; no free node is read; every call returns; it is a multimap with atomic calls |
| `table` | MCTable | slots and index agree after each call; what the index leads to is complete; writers never meet in a slot although their locks differ; finders beside insertions see whole records; no update is lost; results are the documented ones; calls return |
| `semaphores` | MCSemaphoreSet | exclusion (of two records in one stripe, too), no lost semaphore, waits end; through creation, destruction, signals, deaths |
| `lifecycle` | MCLifecycle | what `open` returns is whole, with raised semaphores but for the index's while its creator is in, or died before, its last step; `destroy` leaves nothing, a block that is not initialized has a name only while somebody works on it, refused calls disturb nothing |

Seven more runs each refute one sentence of the documentation:

| Run | Sentence | What happens |
|---|---|---|
| `large_table_lock` | `insert` "blocks until exclusive access is granted" (table.rs:497) | from 1024 records on `lock_table` passes a number outside the set and every insertion fails (unless the cut to 16 bits leads back into the set: 65_536 to 65_601 records) |
| `remove_twice` | `count` is "the number of currently stored records" (table.rs:334) | two removals of one key free its slot twice |
| `duplicate_insert` | the key "uniquely identifies entries" (table.rs:56) | the duplicate check comes before the lock |
| `torn_find` | `find` is a "safe concurrent reader" (table.rs:69) | it returns half of an update |
| `stale_update` | "Locates the record by key", "Locks only that record" (table.rs:430) | the slot was reused between the two |
| `index_interrupted` | "semaphores ensure safe concurrent access" (README.md:23) | an interrupted wait is ignored: an insertion takes a node while a removal of another key puts its own in front of it, and the free list leads to an occupied node |
| `last_slot` | `record_size` bytes are "reserved per stored record" (table.rs:198) | of 127 records of the default size the last 32 bytes are not mapped |

`index_interrupted` has one process insert two keys and another remove one of
them, with the index called as a table calls it (constraint `Asked`: to insert a
key that is not there and to remove one that is). The comment on `remove`,
"Performs a table-wide lock" (table.rs:609), is not what the code does: it locks
the record (table.rs:639).

The passing runs therefore keep to what the code does support. `table` and
`index` run several workloads (`Scenarios`), one of which is chosen at the start:

- *Table, Sequential*: one process makes every call in any order, removals,
  `count` and `iter` included: full table, record too big, duplicates.
- *Table, Writers*: three processes insert keys of their own and update shared
  ones; signals interrupt their waits.
- *Table, Deaths*: one of three may die anywhere in an insertion or an update; a
  finder looks for what nobody updates.
- *Index, Sequential*: one process makes every call.
- *Index, Deaths*: two insert, remove and look up in one bucket, more than there
  are nodes for; one may die anywhere.
- *Index, LookUps*: one inserts, the other looks up and its waits are
  interrupted, so that it reads chains while they grow. It stays sound because
  a node is written before it is linked.

`NeverWild` makes one exception in both: a process that dies between the store
of `first_free` and that of `count` leaves them different, and an insertion into
the then full array follows the list past its end. The documentation promises
nothing for that case. `WholeOrNothing` and `OpenedWhole` speak of behaviours
in which no destroy overlapped another call or went through a stale handle
(`tidy`): `destroy` unlinks by name and does take another table's.

**Bounds.** Slots: four slots, payloads one below, at and one above the slot size; four
free slots allow every order of freeing and reuse of three around a fourth.
HashIndex: three nodes, two keys in one bucket and one in another, so a chain has
a first, a middle and a last node and holds one key twice; two positions tell
entries apart; two processes, since calls that hold the semaphore exclude all
others alike and the unlocked one meets one holder. Table: three slots with four
keys, so the table fills and insertions compete for the last slot; values 0 and
1 (`MaxFit`), so a second update no longer fits; `WordMax` 7 is above every count
reached; three processes, since two can collide while a third fills the table;
one death: a second one meets a table of the same kind. SemaphoreSet: three
processes and a table of 1025 records in two stripes, of which both ends of the
first and the start of the second are locked, so that records share a semaphore,
differ in it, and the table's number is refused. The layout of small tables
differs only in the numbers: `Table` runs on it, and the theorems hold for both.
Lifecycle: three processes, two creations (`MaxCreates`), so that one can be
replaced by the other while a third process opens; one failing system call
(`MaxFaults`), since `create` and `open` end at the first; one death
(`MaxDeaths`). Processes are interchangeable there, and the run uses symmetry (it
checks no liveness). Layout: capacities up to 200 at the default record size,
among which 127 is the one.

`CHECK_DEADLOCK FALSE` stands where the system may stop: `semaphores` (all
processes may have died), `index` (a process gone wild holds the lock; what else
must not stop is `CallsReturn`), `last_slot` (the loop ends).

**Fairness.** `FairSpec` of `Table` and of `HashIndex`: a process inside a call
is scheduled (WF of `Step`), closures and iterators given by the caller end, and
a waiter gets a semaphore that is free again and again (SF of `Lock`): the kernel
keeps the waiters of a semaphore in a queue. Nothing forces a process to begin a
call, or to die. `SemaphoreSet!FairSpec` says the same of guards, which are
dropped when their scope ends, and of `semop`. A signal is never assumed to come.

## 4. Proofs

`SlotsProofs` (assumption `SlotsAssumption`: capacity and sizes are natural
numbers, the empty slice is no payload) proves for every capacity, slot size and
set of payloads what `slots` checks on four slots. The inductive invariant is
`TypeOK /\ FreeListIntact /\ HeldIsOccupied /\ OccupiedFits`; none is inductive
alone: that `insert` writes into a free slot needs the list, that `remove` pushes
an occupied one needs `held`, that `count - 1` stays natural needs both. The
free list is a permutation `order` given as a function. An insertion shifts it
(`InsertedFreeList`), a removal puts the slot in front (`RemovedFreeList`); both
are lemmas about the operators, which the index's nodes use too. Refinement of
`SlotPool` follows step by step (`StepRefines`): an insertion lands in a vacant
cell because the head is free, a refusal is justified because a list of length
`Capacity - count = 0` contains no free slot.

`SemaphoreSetProofs` (assumption `SemaphoreSetAssumption`) proves `TypeOK`,
`MutualExclusion` and `NoneLost` for any number of processes and records. The
invariant adds what the kernel remembers: a holder's undo value is 1, and while
the set exists only a holder's is; an undo value of 1 means its semaphore is at 0
and no other process has one; semaphores `create` has not reached are at 0.
Without these a death could raise a semaphore somebody else holds.
`RecordLocksInRange` proves that every record's semaphore is in the set, striped
or not; `SmallTableLayout` that below 1024 records every record has its own
semaphore in the set and none is the table's. From the stripe size on the number
of the table's semaphore is the number of records cut to 16 bits, and
`TableLockOfLargeTable` says of every such table: it is outside the set if it is
above the number of stripes, as it always is below 2^16 records, and otherwise is
the last semaphore or that of a stripe, which then excludes the records of this
stripe as well. `WhichLargeTablesLock` puts in the code's numbers: of the tables
of 1024 to 131_071 records those of 65_536 to 65_601 can insert and no others; the
table of 100_000 records in the repository's README.md (line 347) cannot.

`LayoutProofs` proves, for every capacity and record size, that slots never
overlap (`SlotsDisjoint`); that all but the last lie inside the block
(`OtherSlotsInBlock`) and the last one ends 32 bytes behind it
(`LastSlotEndsBehindBlock`); that these are mapped exactly when the size of the
block modulo a page is between 1 and 4064 (`LastSlotMapped`), with two tables for
which they are not (`DefaultTableOf127`, `IndexOf2048`: there creating the table
already writes behind the mapping); and that slot metadata are aligned when
`record_size` is a multiple of 8 (`SlotsAligned`) and else are not
(`SecondSlotMisaligned`). The arguments are a product split off the address
(`LastTimes`, `NextTimes`) and division with remainder (`RoundUp`).

`LifecycleProofs` proves all five invariants of `lifecycle` for any number of
processes, creations, failing calls and deaths. No one of them is inductive. The
invariant `IInv` (with `Risen`, below) says in addition that creations are numbered in order and no two
creators share a number (`Numbered`); how far a creator has come, by its `pc`, and
that nobody has the set it has not made yet (`Creators`); that whoever holds an
object holds one that was made (`Holders`); what a `destroy` under way has removed
(`Removals`); that a half-made block with a name has the very half of its maker's
work outstanding (`Makers`); and, while destroys keep to themselves, which names
lead where during a creation, an opening and a removal (`Tidy`, `AtWork`). The
actions are first restated object by object, with every call that fails without
a trace as one kind of step, and each part of the invariant is preserved by each
kind.

`Risen` is about the semaphores: the set of the records was raised by whoever is
past that step, the set of the index by whoever returned from `create`, and while
destroys keep to themselves a set of an index that exists was raised unless its
creator stands before that step or died there. It rests on `IInv` and is proved beside it (`EveryStep`), since only
`Raise` touches `raised`. So a handle from `open` leads to semaphores of the records
that are raised although `open` does not look: the set is raised before the index's
block has a name, and `open` needs that block. For the index's own set there is
nothing after it that `open` needs, and `OpenedWhole` has the exception `IndexUnraised`.
A table found in that state returns Ok from `open`; the locks of its index wait
until the creator goes on, and for ever if it died. Nothing in the code notices
that.

`TableProofs` proves `TypeOK`, `NeverWild`, `PublishedComplete`,
`WritersExclusive`, `SettledIntact` and `FindWhole` of `Table`, for any number of
processes, keys and slots and any number of deaths, from the assumption that
scenarios are *workable*: one process at a time removes or iterates (`Workable`).
`FindWhole` also needs that nobody updates what another process looks for
(`ReadersApart`). Both are hypotheses of the theorems, since without them the
properties are false: `remove_twice`, `stale_update` and `torn_find` show it.
`MCTable` evaluates them on the scenarios of the run, so states satisfy them. The
invariant `IInv`:

- `Control`: the `pc` fits the call; what a call asks for is in the scenario.
- `Locks`: who is past its lock step and alive owns the semaphore; no dead
  process owns one.
- `Distinct`, `Aimed`, `Apart`: a slot is published once; whoever reads, rewrites
  or frees has the slot of its key; a slot taken by an insertion is neither
  published nor taken twice. `insert` and `update` hold different semaphores, and
  this is what keeps them apart instead.
- `Listed`: the free list as a function, the slots off it are exactly those taken
  or published, and `count` and its length make up the capacity - but for one slot
  under way, and for one lost to a death between the stores of `first_free` and of
  `count`.
- `Contents`: the words of a published record are of its key and its upper word is
  never ahead of its lower one; it is whole unless somebody is rewriting it, or
  died doing so.
- `Knowledge`: what each call has in its local variables agrees with the memory it
  read them from, as long as the process lives. `Wildness`: nobody else goes wild.

The step proofs restate the actions as thirty flat steps (`Hit`, `Popped`,
`CountedUp`, `Rewrote`, ...), which say what each does to its own variables and
what it leaves alone; each part of the invariant has one lemma over them.
`FindWhole` needs one more part (`Finding`): what a reader has read so far is of a
record that nobody rewrites while it reads.

`StoreProofs` proves that `Table` implements `KVStore` (`ImplementsStore`): each
call takes effect at one instant and returns what the documentation says, for any
number of processes, keys and slots, beside interrupted waits and deaths. The
mapping takes a key's value from the last word of the record its oldest index
entry leads to, and `lost` from the processes that died with a slot taken. What is
needed beside `IInv` is `SInv`: a call that is under way has no result yet
(`Waits`); a key has at most one record and none while it is being inserted
(`Single`); `count` is the number of published records and of insertions on their
way (`Numbered`); what an update is about to write is one more than what the
record holds (`Valued`); an iteration has yielded the keys of the records it passed
(`Listing`). A further hypothesis, `Orderly`, gives every record a keeper: no two
processes insert one key (`duplicate_insert` refutes the promise without it), a
process that counts is alone (`count` includes an insertion whose record nobody
can find yet), and nobody else updates what a process updates that may die (of its
half-written record the value would be undecided). For each flat step the proof
names the action of the store it is, or shows that the store stutters. A refusal
for lack of room is justified by counting: `count` is `Capacity`, and the slots not
published are lost to the dead. An iteration that stops after `count` records has
passed all of them, each key once.

TLC checked `IInv` and `SInv` first, on the scenarios of the run `table` and on
larger ones.

`HashIndexProofs` proves `TypeOK`, `ChainsSound`, `NodesSettled` and `NeverWild` of
`HashIndex`, for any number of processes, keys and nodes and any number of deaths,
from the assumptions of the module (`HashIndexAssumption`; `NoNodeAssumption`: what
reading a free node returns is no node) and the hypothesis that scenarios are
workable; `index_interrupted` shows that without it they are false.

A chain is what a recursive function computes, and the library's induction
theorems cannot be used here. `HashIndexSteps` therefore derives what it needs from
sets: the initial segments of the numbers are well-founded (`LeastNumber`), so a
set of numbers that contains 0 and with each the next one contains them all
(`Counting`). With it the recursive function of `Chain` exists (`WalkExists`) and
computes the sequence the links describe (`ChainIs`), provided that there is one
(`IsChain`: no node twice, every node complete and of this bucket, each link
leading to the next node). From there on chains are sequences: linking appends a
node (`LinkedChains`), unlinking takes one out (`Without`, `UnlinkedChains`), and
no other step touches a node in a chain (`ChainsStay`). The invariant `IInv`:

- `Stands`, `Locks`: the `pc` fits the call; without signals whoever is past its
  lock step owns the semaphore. From these and `Workable`: whoever inserts, removes
  or iterates does so beside look-ups at most (`Alone`).
- `Chains`: each bucket's chain is one, at every moment.
- `Counted`: `count` is the number of nodes in the chains, but for one under way
  and for those the dead had in hand.
- `Listed`: there is a free list; it is long enough for what `count` says, unless
  a process died before it counted (`Roomy`), and nobody's node is on it; a node
  that is neither on it nor in a chain is in the hand of the one process that
  changes the index, or a dead one's (`Whereabouts`).
- `Knowledge`: a walk is at a node of its chain; an insertion at the end of its
  chain has a true copy of the last node; a removal knows where its node is and
  what is behind it, and the node before in a true copy; an iteration has yielded
  as many keys as it passed occupied nodes. A node in hand is in no chain.
- `Wildness`: only an insertion whose room was lost before it was counted goes wild.

That `update_node` writes back a whole slot from a copy is harmless because the
copy is true, which is `Knowledge`; that the writes to a node nobody points at stay
invisible to look-ups without the semaphore is `Chains`. The actions are restated
as some thirty flat steps, and each part of the invariant has lemmas over them.
`NodesSettled` follows by counting: the list has as many nodes as are not in
chains.

TLC checked `IInv` on the scenarios of the run `index` before it was proved.

Only model-checked: liveness (`CallsReturn`, `WaitsEnd`), which these provers
cannot do under fairness; and the refinement of `KeyIndex` by `HashIndex`
(`RefinesMap`). The chains' lemmas are what it would start from: the entries of a
key are the nodes of its chain that have this key, in order.

## 5. Plan

1. Proofs: that `HashIndex` implements `KeyIndex`. A step that links appends to
   the entries of its key, one that unlinks drops the first of them, all others
   stutter or give a result; `SelectSeq` over `Append` and `Without` is missing.
2. In `Table`: closures that change the key; what concurrent removals leave
   behind (a slot freed twice, `count` below zero).
3. In `Lifecycle`: a second name, whose block or IPC key coincides with the
   first's index.

## 6. Not modelled

Error texts, serde and bincode themselves (a record decodes or it does not); the
alignment checks of `Header` and `MemoryArray`, which page-aligned blocks and
sizes that are multiples of 8 always pass; `generate_sem_key`; `read` and `write`
of `Block` and `set` of `Offset`, which nothing calls; iterators beside writers,
which the repository's README.md (line 533) excludes; several threads in one
process, which it excludes too (line 532); examples, tests and scripts.
