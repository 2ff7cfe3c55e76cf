----------------------------- MODULE HashIndex -----------------------------
(***************************************************************************)
(* The primary-key index of src/internal/index.rs, shared by several       *)
(* processes: an array of buckets, each the head of a chain of nodes, and  *)
(* the nodes kept in a slot array of their own (module Slots).  Links are  *)
(* Offsets: 0 is none, n + 1 is node n.  insert appends to the chain,      *)
(* remove unlinks the first node of the key.                               *)
(*                                                                         *)
(* insert, get and remove take the semaphore of the index and go on when   *)
(* that fails; keys does not take it.  Every write to shared memory is a   *)
(* step, every node visited and every test is one, and what is read right  *)
(* before a write belongs to its step.                                     *)
(***************************************************************************)
EXTENDS Integers, Sequences, FiniteSets

CONSTANTS
  Proc,
  Key,
  Position,   \* positions of records, the values of the index
  Capacity,   \* number of nodes, the capacity of the table
  HashOf,     \* DefaultHasher
  NoNode,     \* what get returns for a free node slot
  NoProc,
  Scenarios   \* what may happen in a run: calls[p] are the calls process p
              \* makes, any number of times; signals, whether waits may be
              \* interrupted; mortal, the processes that may die

(* What a table asks of its index. *)
IsRequest(c) ==
  c \in [op : {"insert", "get", "remove", "keys"}, key : Key, position : Position]

(* A table of capacity 0 cannot be created: the index block would be empty *)
(* and mapping it fails.                                                   *)
ASSUME HashIndexAssumption ==
  /\ Capacity \in Nat \ {0}
  /\ HashOf \in [Key -> Nat]
  /\ NoProc \notin Proc
  /\ \A s \in Scenarios : /\ \A p \in Proc : \A c \in s.calls[p] : IsRequest(c)
                          /\ s.signals \in BOOLEAN /\ s.mortal \subseteq Proc

(* Scenarios in which the properties below hold: keys runs alone, and      *)
(* where waits are interrupted one process inserts (insertions never meet, *)
(* Table::insert holds the table's semaphore, table.rs:538) while others   *)
(* look up, or one is alone.  A run of its own refutes them beside a       *)
(* removal.                                                                *)
Workable(s) ==
  \A p \in Proc : \A q \in Proc \ {p} : \A c \in s.calls[p] : \A d \in s.calls[q] :
    /\ c.op # "keys"
    /\ s.signals => c.op # "remove" /\ (c.op = "get" \/ d.op = "get")

VARIABLES
  scenario,  \* the scenario of this behaviour
  buckets,   \* the bucket array
  nodes,     \* the slot array of the nodes
  owner,     \* the process that holds the semaphore, or NoProc
  dead,      \* the processes that have died
  pc,        \* where each process stands, or stood when it died
  call,      \* the call it makes
  local,     \* its local variables
  out        \* Pending, or what its call returns

vars == <<scenario, buckets, nodes, owner, dead, pc, call, local, out>>

Seqs == INSTANCE SequencesExt

Indices == 0 .. Capacity - 1

(* Offset: none, or the index of a node plus one. *)
Offset == 0 .. Capacity
None == 0
Some(i) == i + 1
At(offset) == offset - 1

Node == [key : Key, position : Position, next : Offset]

ASSUME NoNodeAssumption == NoNode \notin Node

(* Every node has the one size the slots were made for. *)
N == INSTANCE Slots
       WITH Payload <- Node, SizeOf <- [n \in Node |-> 1], DataSize <- 1,
            NoData <- NoNode, slots <- nodes, ret <- 0,
            held <- {i \in Indices : nodes.slot[i].state = "Occupied"}

(* ceil(0.75 * size) buckets. *)
TotalBuckets == (3 * Capacity + 3) \div 4
Buckets == 0 .. TotalBuckets - 1
Hash(k) == HashOf[k] % TotalBuckets

ReadNode(i) == N!DataAt(nodes, i)

(* The node indices a walk down bucket b visits, in order; it gives up     *)
(* after more steps than there are nodes, which only a cycle can need.     *)
Chain(b) ==
  LET walk[fuel \in 0 .. Capacity + 1] ==
        [o \in Offset |->
          IF o = None \/ fuel = 0 THEN <<>>
          ELSE IF ReadNode(At(o)) = NoNode THEN <<At(o)>>
          ELSE <<At(o)>> \o walk[fuel - 1][ReadNode(At(o)).next]]
  IN walk[Capacity + 1][buckets[b]]

(* Calls that died with a node that is taken and counted but in no chain.  *)
Unlinked(p) ==
  pc[p] \in {"wr_state", "wr_node", "link", "rm_state", "rm_link", "rm_first", "uncount"}

Map == INSTANCE KeyIndex
         WITH Calls <- [p \in Proc |-> UNION {s.calls[p] : s \in Scenarios}],
              lost <- {p \in dead : Unlinked(p)},
              entries <- [k \in Key |->
                LET mine == SelectSeq(Chain(Hash(k)), LAMBDA i :
                              ReadNode(i) # NoNode /\ ReadNode(i).key = k)
                IN [j \in DOMAIN mine |-> ReadNode(mine[j]).position]]

-----------------------------------------------------------------------------
(* What steps are made of.                                                 *)

(* at, the node a walk has come to; from, the copy of a node that is going *)
(* to be written back; idx, the node taken or to be removed.               *)
NoLocals == [at |-> None, from |-> NoNode, idx |-> 0, after |-> None,
             tmp |-> 0, seen |-> <<>>]

Init ==
  /\ scenario \in Scenarios
  /\ buckets = [b \in Buckets |-> None]
  /\ nodes = N!New
  /\ owner = NoProc
  /\ dead = {}
  /\ pc = [p \in Proc |-> "idle"]
  /\ call = [p \in Proc |-> Map!NoCall]
  /\ local = [p \in Proc |-> NoLocals]
  /\ out = [p \in Proc |-> Map!Ok]

Goto(p, here, there) == pc[p] = here /\ pc' = [pc EXCEPT ![p] = there]
Result(p, r) == out' = [out EXCEPT ![p] = r]

(* The rest of the call is to drop the lock, if it was taken. *)
Done(p, here, r) == Goto(p, here, "unlock") /\ Result(p, r)

Set(p, field, v) == local' = [local EXCEPT ![p][field] = v]

IsOp(p, op) == call[p].op = op
Shared == <<buckets, nodes>>
BucketOf(p) == Hash(call[p].key)

Begin(p) == \E c \in scenario.calls[p] :
  /\ Goto(p, "idle", IF c.op = "keys" THEN "it_test" ELSE "lock")
  /\ call' = [call EXCEPT ![p] = c]
  /\ Result(p, Map!Pending)
  /\ UNCHANGED <<Shared, owner, local>>

Lock(p) ==
  /\ Goto(p, "lock", "bucket")
  /\ owner = NoProc
  /\ owner' = p
  /\ UNCHANGED <<Shared, call, local, out>>

(* An interrupted lock_table leaves an Err in `_lock' and nothing locked.  *)
LockInterrupted(p) ==
  /\ scenario.signals /\ owner # NoProc
  /\ Goto(p, "lock", "bucket")
  /\ UNCHANGED <<Shared, owner, call, local, out>>

Unlock(p) ==
  /\ Goto(p, "unlock", "idle")
  /\ owner' = IF owner = p THEN NoProc ELSE owner
  /\ local' = [local EXCEPT ![p] = NoLocals]
  /\ call' = [call EXCEPT ![p] = Map!NoCall]
  /\ Result(p, Map!Ok)
  /\ UNCHANGED Shared

-----------------------------------------------------------------------------
(* The walk down a chain, in insert and in search.                         *)

Absent(p) == IF IsOp(p, "get") THEN Map!NotFound ELSE Map!Ok

Bucket(p) ==
  /\ pc[p] = "bucket"
  /\ Set(p, "at", buckets[BucketOf(p)])
  /\ IF buckets[BucketOf(p)] # None THEN Goto(p, "bucket", "walk") /\ UNCHANGED out
     ELSE IF IsOp(p, "insert") THEN Goto(p, "bucket", "full") /\ UNCHANGED out
     ELSE Done(p, "bucket", Absent(p))
  /\ UNCHANGED <<Shared, owner, call>>

(* Mutation of Matches: any node of the bucket will do.                    *)
MatchesBucket(p, node) == ~IsOp(p, "insert")

Matches(p, node) == ~IsOp(p, "insert") /\ node.key = call[p].key

(* Mutation of Onward: the walk does not move.                             *)
OnwardNowhere(p, node) == local[p].at

Onward(p, node) == node.next

(* read_node copies a node out of an empty slice if its slot is free: what *)
(* happens from there on is not modelled.                                  *)
Walk(p) ==
  LET node == ReadNode(At(local[p].at)) IN
  /\ pc[p] = "walk"
  /\ IF node = NoNode
     THEN Goto(p, "walk", "wild") /\ UNCHANGED <<local, out>>
     ELSE \/ /\ Matches(p, node) /\ IsOp(p, "get")
             /\ Done(p, "walk", Map!Found(node.position))
             /\ UNCHANGED local
          \/ /\ Matches(p, node) /\ IsOp(p, "remove")
             /\ Goto(p, "walk", "first")
             /\ local' = [local EXCEPT ![p].idx = At(local[p].at),
                                       ![p].after = node.next]
             /\ UNCHANGED out
          \/ /\ ~Matches(p, node) /\ node.next # None
             /\ Set(p, "at", Onward(p, node))
             /\ UNCHANGED <<pc, out>>
          \/ /\ IsOp(p, "insert") /\ node.next = None
             /\ Goto(p, "walk", "full")
             /\ Set(p, "from", node)
             /\ UNCHANGED out
          \/ /\ ~IsOp(p, "insert") /\ ~Matches(p, node) /\ node.next = None
             /\ Done(p, "walk", Absent(p))
             /\ UNCHANGED local
  /\ UNCHANGED <<Shared, owner, call>>

-----------------------------------------------------------------------------
(* insert: a node is taken from the slots and written, then the bucket or  *)
(* the last node of the chain is made to point at it.                      *)

(* Mutation of IsFull: one insertion too many.                             *)
IsFullLate == nodes.count > Capacity

IsFull == N!IsFull(nodes)

Full(p) ==
  /\ IF IsFull THEN Done(p, "full", Map!TableFull)
               ELSE Goto(p, "full", "take") /\ UNCHANGED out
  /\ UNCHANGED <<Shared, owner, call, local>>

(* Behind the end mark of the free list there is no slot to take.          *)
Take(p) ==
  LET i == nodes.firstFree IN
  /\ IF i \in Indices
     THEN /\ Goto(p, "take", "count")
          /\ Set(p, "idx", i)
          /\ nodes' = [nodes EXCEPT !.firstFree = nodes.slot[i].size]
     ELSE Goto(p, "take", "wild") /\ UNCHANGED <<local, nodes>>
  /\ UNCHANGED <<buckets, owner, call, out>>

Count(p) ==
  /\ Goto(p, "count", "wr_state")
  /\ nodes' = [nodes EXCEPT !.count = @ + 1]
  /\ UNCHANGED <<buckets, owner, call, local, out>>

WrState(p) ==
  /\ Goto(p, "wr_state", "wr_node")
  /\ nodes' = [nodes EXCEPT !.slot[local[p].idx].state = "Occupied"]
  /\ UNCHANGED <<buckets, owner, call, local, out>>

WrNode(p) ==
  LET node == [key |-> call[p].key, position |-> call[p].position, next |-> None] IN
  /\ Goto(p, "wr_node", "link")
  /\ nodes' = [nodes EXCEPT !.slot[local[p].idx] = N!Written(node)]
  /\ UNCHANGED <<buckets, owner, call, local, out>>

(* update_node writes back the whole copy, state and size included.        *)
WriteBack(p, next) ==
  nodes' = N!Updated(nodes, At(local[p].at), [local[p].from EXCEPT !.next = next])

Link(p) ==
  LET new == Some(local[p].idx) IN
  /\ Done(p, "link", Map!Ok)
  /\ IF local[p].at = None
     THEN buckets' = [buckets EXCEPT ![BucketOf(p)] = new] /\ UNCHANGED nodes
     ELSE WriteBack(p, new) /\ UNCHANGED buckets
  /\ UNCHANGED <<owner, call, local>>

-----------------------------------------------------------------------------
(* remove, once search has found the node.                                 *)

Unlinking(p, here) == Goto(p, here, "rm_state") /\ Result(p, Map!Ok)

(* Mutation of UnlinkFirst: takes the offset of the next node for its      *)
(* index.                                                                  *)
UnlinkFirstByIndex(p) ==
  /\ Unlinking(p, "first")
  /\ buckets[BucketOf(p)] = Some(local[p].idx)
  /\ buckets' = [buckets EXCEPT ![BucketOf(p)] = At(local[p].after)]
  /\ UNCHANGED local

(* Mutation of UnlinkFirst: the node is freed and stays in the chain.      *)
UnlinkFirstForgotten(p) ==
  /\ Unlinking(p, "first")
  /\ buckets[BucketOf(p)] = Some(local[p].idx)
  /\ UNCHANGED <<buckets, local>>

(* The node is the first in the bucket. *)
UnlinkFirst(p) ==
  /\ Unlinking(p, "first")
  /\ buckets[BucketOf(p)] = Some(local[p].idx)
  /\ buckets' = [buckets EXCEPT ![BucketOf(p)] = local[p].after]
  /\ UNCHANGED local

(* An empty bucket at this point is an unwrap that panics.                 *)
First(p) ==
  /\ \/ UnlinkFirst(p)
     \/ /\ pc[p] = "first" /\ buckets[BucketOf(p)] # Some(local[p].idx)
        /\ Goto(p, "first", IF buckets[BucketOf(p)] = None THEN "wild" ELSE "before")
        /\ Set(p, "at", buckets[BucketOf(p)])
        /\ UNCHANGED <<buckets, out>>
  /\ UNCHANGED <<nodes, owner, call>>

(* The second walk, for the node before. *)
Before(p) ==
  LET node == ReadNode(At(local[p].at)) IN
  /\ pc[p] = "before"
  /\ IF node = NoNode
     THEN Goto(p, "before", "wild") /\ UNCHANGED <<local, out>>
     ELSE IF node.next = Some(local[p].idx)
     THEN Goto(p, "before", "unlink") /\ Set(p, "from", node) /\ UNCHANGED out
     ELSE IF node.next # None
     THEN Set(p, "at", node.next) /\ UNCHANGED <<pc, out>>
     ELSE Done(p, "before", Map!Ok) /\ UNCHANGED local
  /\ UNCHANGED <<Shared, owner, call>>

(* Mutation of UnlinkInner: the node is not given back.                    *)
UnlinkInnerLeaked(p) ==
  /\ Done(p, "unlink", Map!Ok)
  /\ WriteBack(p, local[p].after)
  /\ UNCHANGED <<buckets, owner, call, local>>

UnlinkInner(p) ==
  /\ Unlinking(p, "unlink")
  /\ WriteBack(p, local[p].after)
  /\ UNCHANGED <<buckets, owner, call, local>>

(* The node itself stays in the slot; the model forgets it, nobody reads   *)
(* it before it is overwritten.                                            *)
RmState(p) ==
  /\ Goto(p, "rm_state", "rm_link")
  /\ Set(p, "tmp", nodes.firstFree)
  /\ nodes' = [nodes EXCEPT !.slot[local[p].idx].state = "Free",
                            !.slot[local[p].idx].data = NoNode]
  /\ UNCHANGED <<buckets, owner, call, out>>

RmLink(p) ==
  /\ Goto(p, "rm_link", "rm_first")
  /\ nodes' = [nodes EXCEPT !.slot[local[p].idx].size = local[p].tmp]
  /\ UNCHANGED <<buckets, owner, call, local, out>>

RmFirst(p) ==
  /\ Goto(p, "rm_first", "uncount")
  /\ nodes' = [nodes EXCEPT !.firstFree = local[p].idx]
  /\ UNCHANGED <<buckets, owner, call, local, out>>

Uncount(p) ==
  /\ Goto(p, "uncount", "unlock")
  /\ nodes' = [nodes EXCEPT !.count = @ - 1]
  /\ UNCHANGED <<buckets, owner, call, local, out>>

-----------------------------------------------------------------------------
(* keys: an iterator over the node slots, without the lock.                *)

IterTest(p) ==
  LET seen == local[p].seen IN
  /\ pc[p] = "it_test"
  /\ IF Len(seen) >= nodes.count
     THEN Done(p, "it_test", Map!Yielded(Seqs!ToSet(seen), Len(seen)))
     ELSE Goto(p, "it_test", "it_skip") /\ UNCHANGED out
  /\ UNCHANGED <<Shared, owner, call, local>>

(* Skipping does not stop at the last slot. *)
IterSkip(p) ==
  LET i == local[p].tmp IN
  /\ pc[p] = "it_skip"
  /\ IF i \notin Indices
     THEN Goto(p, "it_skip", "wild") /\ UNCHANGED local
     ELSE IF nodes.slot[i].state = "Free"
     THEN Set(p, "tmp", i + 1) /\ UNCHANGED pc
     ELSE Goto(p, "it_skip", "it_read") /\ UNCHANGED local
  /\ UNCHANGED <<Shared, owner, call, out>>

IterRead(p) ==
  LET node == ReadNode(local[p].tmp) IN
  /\ pc[p] = "it_read"
  /\ IF node = NoNode
     THEN Goto(p, "it_read", "wild") /\ UNCHANGED local
     ELSE /\ Goto(p, "it_read", "it_test")
          /\ local' = [local EXCEPT ![p].tmp = @ + 1,
                                    ![p].seen = Append(@, node.key)]
  /\ UNCHANGED <<Shared, owner, call, out>>

-----------------------------------------------------------------------------
(* A process dies in the middle of a call; the kernel undoes its semaphore *)
(* operation (SEM_UNDO) and nothing else.                                  *)
Crash(p) ==
  /\ p \in scenario.mortal /\ pc[p] \notin {"idle", "wild"}
  /\ dead' = dead \cup {p}
  /\ owner' = IF owner = p THEN NoProc ELSE owner
  /\ local' = [local EXCEPT ![p] = NoLocals]
  /\ UNCHANGED <<scenario, Shared, pc, call, out>>

Step(p) ==
  \/ Lock(p) \/ Unlock(p) \/ Bucket(p) \/ Walk(p)
  \/ Full(p) \/ Take(p) \/ Count(p) \/ WrState(p) \/ WrNode(p) \/ Link(p)
  \/ First(p) \/ Before(p) \/ UnlinkInner(p)
  \/ RmState(p) \/ RmLink(p) \/ RmFirst(p) \/ Uncount(p)
  \/ IterTest(p) \/ IterSkip(p) \/ IterRead(p)

Alive(p) == p \notin dead /\ UNCHANGED <<scenario, dead>>

Next == \E p \in Proc \ dead :
  \/ (Begin(p) \/ Step(p) \/ LockInterrupted(p)) /\ UNCHANGED <<scenario, dead>>
  \/ Crash(p)

Spec == Init /\ [][Next]_vars

(* A process in a call is scheduled, and one that waits for the semaphore  *)
(* gets it eventually (the kernel serves its waiters in turn).             *)
FairSpec ==
  Spec /\ \A p \in Proc : WF_vars(Alive(p) /\ Step(p)) /\ SF_vars(Alive(p) /\ Lock(p))

-----------------------------------------------------------------------------
(* Properties.                                                             *)

PCs == {"idle", "wild", "lock", "unlock", "bucket", "walk", "full", "take", "count",
        "wr_state", "wr_node", "link", "first", "before", "unlink",
        "rm_state", "rm_link", "rm_first", "uncount",
        "it_test", "it_skip", "it_read"}

(* Buckets hold offsets, the nodes are a slot array and no process works   *)
(* on a node outside it (index.rs, structs Bucket and Node).               *)
TypeOK ==
  /\ buckets \in [Buckets -> Offset]
  /\ nodes \in N!SlotsHeader
  /\ owner \in Proc \cup {NoProc}
  /\ dead \subseteq Proc
  /\ pc \in [Proc -> PCs]
  /\ \A p \in Proc : /\ local[p].at \in Offset /\ local[p].after \in Offset
                     /\ local[p].from \in Node \cup {NoNode}
                     /\ local[p].idx \in Indices /\ local[p].tmp \in Offset
                     /\ local[p].seen \in Seq(Key)

InChain(b) == Seqs!ToSet(Chain(b))

(* At every moment, whatever is under way and whoever has died, each chain *)
(* ends and leads only through complete nodes whose keys hash to its       *)
(* bucket: a node is written before it is linked and unlinked before it is *)
(* freed (index.rs, insert and remove).                                    *)
ChainsSound ==
  \A b \in Buckets :
    /\ Seqs!IsInjective(Chain(b))
    /\ \A i \in InChain(b) : ReadNode(i) # NoNode /\ Hash(ReadNode(i).key) = b

Changing(p) == pc[p] = "count" \/ Unlinked(p)

(* Whenever no call is changing the nodes, nor one cut short by a death,   *)
(* their free list is intact and the occupied nodes are exactly those in   *)
(* the chains: none is leaked, though updates of linked nodes write whole  *)
(* slots (index.rs:177 and 246; README.md:23, "System V IPC semaphores     *)
(* ensure safe concurrent access across processes").  Where waits are      *)
(* interrupted, a run of its own refutes it for an insertion beside a      *)
(* removal.                                                                *)
NodesSettled ==
  (\A p \in Proc : ~Changing(p)) =>
    /\ N!FreeListIntact
    /\ UNION {InChain(b) : b \in Buckets}
         = {i \in Indices : nodes.slot[i].state = "Occupied"}

(* No call reads a free node or follows the free list past its end, unless *)
(* a process died between taking a node and counting it (index.rs:103,     *)
(* read_node; slot.rs:104).                                                *)
NeverWild ==
  (\E p \in Proc : pc[p] = "wild") => \E q \in dead : pc[q] = "count"

(* The index is a multimap on which calls take effect one at a time:       *)
(* chaining, unlinking and node reuse never lose, reorder or invent an     *)
(* entry, and a call that dies costs at most one node (index.rs, insert,   *)
(* get, remove and iter).                                                  *)
RefinesMap == Map!Spec

(* Every call of a process that lives returns: no walk runs in a circle,   *)
(* no lock is left taken (index.rs:162, the loops over next).              *)
CallsReturn ==
  \A p \in Proc : pc[p] # "idle" ~>
    pc[p] = "idle" \/ p \in dead \/ \E q \in Proc : pc[q] = "wild"
=============================================================================
