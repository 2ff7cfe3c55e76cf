------------------------------- MODULE Table -------------------------------
(***************************************************************************)
(* A table shared by several processes (src/table.rs over                  *)
(* src/internal/slot.rs): every load and store of shared memory and every  *)
(* semaphore operation is a step of its own.  Three kinds of lock meet     *)
(* here: insert holds the table semaphore (number Capacity of the set),    *)
(* update_with_lock, update_many and remove hold the semaphore of one      *)
(* record, and the primary-key index has a semaphore of its own, under     *)
(* which each of its calls is one step (modules HashIndex and KeyIndex).   *)
(* find takes no lock around the record.                                   *)
(*                                                                         *)
(* A payload is two words, written and read one after the other; a record  *)
(* whose words differ was read while it was being written.                 *)
(***************************************************************************)
EXTENDS Integers, Sequences, FiniteSets

CONSTANTS
  Proc,
  Key,
  Capacity,   \* number of record slots and of index nodes
  MaxFit,     \* the largest value whose record fits a slot
  BaseLen,    \* serialized length of a record of value 0, one more per unit
  WordMax,    \* usize::MAX
  Scenarios,  \* what may happen in a run: calls[p] are the calls process p
              \* makes, any number of times; signals, whether waits may be
              \* interrupted; mortal, the processes that may die
  Preload,    \* keys inserted, in order and with value 0, before we look
  NoProc

(* What a caller may ask for: to insert a record (its key and its value),  *)
(* to find or to remove a key, to update one or more.                      *)
IsRequest(c) ==
  /\ c \in [op : {"insert", "find", "update", "remove", "count", "iter"},
            keys : Seq(Key), val : Nat, found : {0}]
  /\ c.op \in {"insert", "find", "remove"} => Len(c.keys) = 1
  /\ c.op = "update" => c.keys # <<>>

ASSUME TableAssumption ==
  /\ Capacity \in Nat \ {0}
  /\ MaxFit \in Nat /\ BaseLen \in Nat \ {0}
  /\ WordMax \in Nat /\ Capacity <= WordMax
  /\ Preload \in Seq(Key) /\ Len(Preload) <= Capacity
  /\ \A i, j \in DOMAIN Preload : Preload[i] = Preload[j] => i = j
  /\ \A s \in Scenarios : /\ \A p \in Proc : \A c \in s.calls[p] : IsRequest(c)
                          /\ s.signals \in BOOLEAN /\ s.mortal \subseteq Proc
  /\ NoProc \notin Proc

(* Scenarios in which the properties below hold: one process at a time     *)
(* removes or iterates.  The runs that refute a claim show what removals   *)
(* do beside other calls.                                                  *)
Workable(s) ==
  \A p \in Proc : (\E c \in s.calls[p] : c.op \in {"remove", "iter"})
    => \A q \in Proc \ {p} : s.calls[q] = {}

(* Nobody updates what another process looks for.                          *)
ReadersApart(s) ==
  \A p \in Proc : \A q \in Proc \ {p} :
    \A c \in s.calls[p] : \A d \in s.calls[q] :
      c.op = "find" /\ d.op = "update"
        => \A i \in DOMAIN d.keys : d.keys[i] # Head(c.keys)

(* Every record has its keeper: no two processes insert the same key, what *)
(* a process that may die updates nobody else updates, and a process that  *)
(* counts has the table for itself.                                        *)
Orderly(s) ==
  \A p \in Proc : \A q \in Proc \ {p} : \A c \in s.calls[p] : \A d \in s.calls[q] :
    /\ c.op # "count"
    /\ c.op = "insert" /\ d.op = "insert" => Head(c.keys) # Head(d.keys)
    /\ c.op = "update" /\ d.op = "update" /\ p \in s.mortal
         => \A i \in DOMAIN c.keys : \A j \in DOMAIN d.keys : c.keys[i] # d.keys[j]

VARIABLES
  scenario,   \* the scenario of this behaviour
  header,     \* SlotsHeader of the record area: count and first_free
  slot,       \* slot[i]: metadata and the two words of the payload
  entries,    \* the primary-key index
  owner,      \* owner[s]: the process that holds semaphore s, or NoProc
  dead,       \* the processes that have died
  pc,         \* where each process stands, or stood when it died
  call,       \* the call it makes, with what is left of an update_many
  local,      \* its local variables
  out         \* Pending, or what its last call returned

vars == <<scenario, header, slot, entries, owner, dead, pc, call, local, out>>

Indices == 0 .. Capacity - 1
Sems == 0 .. Capacity
TableSem == Capacity

PK == INSTANCE KeyIndex WITH Position <- Indices, Calls <- {}, lost <- {}

Inserting(p) == /\ call[p].op = "insert"
                /\ pc[p] \in {"first", "next", "setfirst", "ldcount", "stcount",
                             "wr_state", "wr_size", "wr_lo", "wr_hi", "index"}

(* Its slot is counted and not yet in the index.                           *)
Unpublished(p) ==
  Inserting(p) /\ pc[p] \in {"wr_state", "wr_size", "wr_lo", "wr_hi", "index"}

Store == INSTANCE KVStore
           WITH Calls <- [p \in Proc |-> UNION {s.calls[p] : s \in Scenarios}],
                lost <- {p \in dead : Unpublished(p)},
                store <- [k \in Key |->
                  IF PK!Has(entries, k) THEN slot[Head(entries[k])].hi.val
                  ELSE -1]

Pending == Store!Pending

(* A record of key k and value v, as a word of its payload. *)
Word(k, v) == [key |-> k, val |-> v]
Zero == Word(NoProc, 0)
LenOf(v) == BaseLen + v
Fits(v) == v <= MaxFit

NoLocals == [idx |-> 0, tmp |-> 0, lo |-> Zero, hi |-> Zero, seen |-> <<>>]

-----------------------------------------------------------------------------
(* The table right after creation and the insertions of Preload.           *)

Init ==
  LET n == Len(Preload) IN
  /\ scenario \in Scenarios
  /\ header = [count |-> n, firstFree |-> n]
  /\ slot = [i \in Indices |->
       IF i < n
       THEN [state |-> "Occupied", size |-> LenOf(0),
             lo |-> Word(Preload[i + 1], 0), hi |-> Word(Preload[i + 1], 0)]
       ELSE [state |-> "Free", size |-> i + 1, lo |-> Zero, hi |-> Zero]]
  /\ entries = [k \in Key |->
       LET at == {i \in 1 .. n : Preload[i] = k} IN
       IF at = {} THEN <<>> ELSE <<(CHOOSE i \in at : TRUE) - 1>>]
  /\ owner = [s \in Sems |-> NoProc]
  /\ dead = {}
  /\ pc = [p \in Proc |-> "idle"]
  /\ call = [p \in Proc |-> [op |-> "none", keys |-> <<>>, val |-> 0, found |-> 0]]
  /\ local = [p \in Proc |-> NoLocals]
  /\ out = [p \in Proc |-> Store!Ok]

(* What steps are made of. *)

Goto(p, here, there) ==
  /\ pc[p] = here
  /\ pc' = [pc EXCEPT ![p] = there]

Finish(p, r) == out' = [out EXCEPT ![p] = r]

(* Finishing a call forgets its locals. *)
Return(p, r) ==
  /\ pc' = [pc EXCEPT ![p] = "idle"]
  /\ local' = [local EXCEPT ![p] = NoLocals]
  /\ Finish(p, r)

IsOp(p, op) == call[p].op = op
KeyOf(p) == Head(call[p].keys)
Idx(p) == local[p].idx
Shared == <<header, slot, entries>>

Begin(p) == \E c \in scenario.calls[p] :
  /\ Goto(p, "idle", CASE c.op = "count" -> "count"
                       [] c.op = "iter" -> "it_test"
                       [] OTHER -> "lookup")
  /\ call' = [call EXCEPT ![p] = c]
  /\ Finish(p, Pending)
  /\ UNCHANGED <<Shared, owner, local>>

-----------------------------------------------------------------------------
(* Most calls start by asking the index, before it takes any lock of the  *)
(* table itself.                                                           *)

RefusesDuplicate(p) == IsOp(p, "insert")

LookupHit(p) ==
  /\ pc[p] = "lookup" /\ PK!Has(entries, KeyOf(p))
  /\ IF RefusesDuplicate(p)
     THEN Return(p, Store!RecordDuplicated)
     ELSE /\ pc' = [pc EXCEPT ![p] = IF IsOp(p, "find") THEN "rd_state" ELSE "lock"]
          /\ local' = [local EXCEPT ![p].idx = Head(entries[KeyOf(p)])]
          /\ UNCHANGED out
  /\ UNCHANGED <<Shared, owner, call>>

(* Mutation of KeysLeft: update_many waits for a key it does not find.     *)
FoundKeysLeft(p) ==
  IF PK!Has(entries, KeyOf(p)) THEN Tail(call[p].keys) ELSE call[p].keys

KeysLeft(p) == Tail(call[p].keys)

LookupMiss(p) ==
  /\ pc[p] = "lookup" /\ ~PK!Has(entries, KeyOf(p))
  /\ \/ /\ IsOp(p, "insert")
        /\ Goto(p, "lookup", "lock")
        /\ UNCHANGED <<call, local, out>>
     \/ /\ IsOp(p, "find")
        /\ Return(p, Store!NotFound)
        /\ UNCHANGED call
     \/ /\ IsOp(p, "remove")
        /\ Return(p, Store!Ok)
        /\ UNCHANGED call
     \/ /\ IsOp(p, "update")
        /\ call' = [call EXCEPT ![p].keys = KeysLeft(p)]
        /\ IF KeysLeft(p) = <<>>
           THEN Return(p, Store!Updated(call[p].found))
           ELSE UNCHANGED <<pc, local, out>>
  /\ UNCHANGED <<Shared, owner>>

(* Below STRIPE_SIZE records each record has the semaphore of its number.  *)
Sem(p) == IF IsOp(p, "insert") THEN TableSem ELSE Idx(p)

Available(s) == owner[s] = NoProc

Lock(p) ==
  /\ Goto(p, "lock", CASE IsOp(p, "insert") -> "full"
                       [] IsOp(p, "update") -> "rd_state"
                       [] IsOp(p, "remove") -> "rm_first")
  /\ Available(Sem(p))
  /\ owner' = [owner EXCEPT ![Sem(p)] = p]
  /\ UNCHANGED <<Shared, call, local, out>>

(* Mutation of LockInterrupted: the error of the lock is ignored, as       *)
(* index.rs does with its own semaphore.                                   *)
LockErrorIgnored(p) ==
  /\ scenario.signals
  /\ owner[Sem(p)] # NoProc
  /\ Goto(p, "lock", IF IsOp(p, "insert") THEN "full" ELSE "rd_state")
  /\ UNCHANGED <<Shared, owner, call, local, out>>

LockInterrupted(p) ==
  /\ scenario.signals
  /\ pc[p] = "lock" /\ owner[Sem(p)] # NoProc
  /\ Return(p, Store!Error)
  /\ UNCHANGED <<Shared, owner, call>>

(* The guard is dropped at the end of the call, and in update_many at the  *)
(* end of each key that was found.                                         *)
Unlock(p) ==
  /\ Goto(p, "unlock", IF out[p] = Pending THEN "lookup" ELSE "idle")
  /\ owner' = [owner EXCEPT ![Sem(p)] = NoProc]
  /\ local' = [local EXCEPT ![p] = NoLocals]
  /\ UNCHANGED <<Shared, call, out>>

Abort(p, r) ==
  /\ pc' = [pc EXCEPT ![p] = "unlock"]
  /\ Finish(p, r)

-----------------------------------------------------------------------------
(* Slots::insert under the table lock.                                     *)

(* Mutation of IsFull: one insertion too many.                             *)
IsFullLate == header.count > Capacity

IsFull == header.count >= Capacity

InsFull(p) ==
  /\ pc[p] = "full"
  /\ IF IsFull
     THEN Abort(p, Store!TableFull)
     ELSE IF ~Fits(call[p].val)
     THEN Abort(p, Store!RecordSizeTooBig)
     ELSE Goto(p, "full", "first") /\ UNCHANGED out
  /\ UNCHANGED <<Shared, owner, call, local>>

InsFirst(p) ==
  /\ Goto(p, "first", "next")
  /\ local' = [local EXCEPT ![p].idx = header.firstFree]
  /\ UNCHANGED <<Shared, owner, call, out>>

(* Reading the link of the end mark reads past the last slot: what happens *)
(* from there on is not modelled.                                          *)
InsNext(p) ==
  /\ IF Idx(p) \in Indices
     THEN /\ Goto(p, "next", "setfirst")
          /\ local' = [local EXCEPT ![p].tmp = slot[Idx(p)].size]
     ELSE Goto(p, "next", "wild") /\ UNCHANGED local
  /\ UNCHANGED <<Shared, owner, call, out>>

InsSetFirst(p) ==
  /\ Goto(p, "setfirst", "ldcount")
  /\ header' = [header EXCEPT !.firstFree = local[p].tmp]
  /\ UNCHANGED <<slot, entries, owner, call, local, out>>

(* count += 1 and count -= 1 are a load and a store, modulo the word.      *)
LoadCount(p) ==
  /\ Goto(p, "ldcount", "stcount")
  /\ local' = [local EXCEPT ![p].tmp = header.count]
  /\ UNCHANGED <<Shared, owner, call, out>>

StoreCount(p) ==
  LET delta == IF IsOp(p, "insert") THEN 1 ELSE WordMax IN
  /\ Goto(p, "stcount", IF IsOp(p, "insert") THEN "wr_state" ELSE "index")
  /\ header' = [header EXCEPT !.count = (local[p].tmp + delta) % (WordMax + 1)]
  /\ local' = IF IsOp(p, "insert")
              THEN [local EXCEPT ![p].tmp = 0,
                                 ![p].lo = Word(KeyOf(p), call[p].val),
                                 ![p].hi = Word(KeyOf(p), call[p].val)]
              ELSE local
  /\ UNCHANGED <<slot, entries, owner, call, out>>

-----------------------------------------------------------------------------
(* set_record_data, in insert and in update.                               *)

WrState(p) ==
  /\ Goto(p, "wr_state", "wr_size")
  /\ slot' = [slot EXCEPT ![Idx(p)].state = "Occupied"]
  /\ UNCHANGED <<header, entries, owner, call, local, out>>

(* Mutation of WrSize: leaves the old size.                                *)
WrSizeStale(p) ==
  /\ Goto(p, "wr_size", "wr_lo")
  /\ UNCHANGED <<Shared, owner, call, local, out>>

WrSize(p) ==
  /\ Goto(p, "wr_size", "wr_lo")
  /\ slot' = [slot EXCEPT ![Idx(p)].size = LenOf(local[p].lo.val)]
  /\ UNCHANGED <<header, entries, owner, call, local, out>>

(* Mutation of WrLo: copies one word too few before publishing.            *)
WrLoShort(p) ==
  /\ Goto(p, "wr_lo", IF IsOp(p, "insert") THEN "index" ELSE "wr_hi")
  /\ slot' = [slot EXCEPT ![Idx(p)].lo = local[p].lo]
  /\ UNCHANGED <<header, entries, owner, call, local, out>>

WrLo(p) ==
  /\ Goto(p, "wr_lo", "wr_hi")
  /\ slot' = [slot EXCEPT ![Idx(p)].lo = local[p].lo]
  /\ UNCHANGED <<header, entries, owner, call, local, out>>

(* The last word completes an update; an insertion goes on to the index.   *)
WrHi(p) ==
  /\ Goto(p, "wr_hi", IF IsOp(p, "insert") THEN "index" ELSE "unlock")
  /\ slot' = [slot EXCEPT ![Idx(p)].hi = local[p].hi]
  /\ IF IsOp(p, "update")
     THEN /\ call' = [call EXCEPT ![p].keys = KeysLeft(p), ![p].found = @ + 1]
          /\ IF KeysLeft(p) = <<>>
             THEN Finish(p, Store!Updated(call[p].found + 1))
             ELSE UNCHANGED out
     ELSE UNCHANGED <<call, out>>
  /\ UNCHANGED <<header, entries, owner, local>>

(* Mutation of InsertedAt: the position counted from one.                  *)
InsertedFromOne(p) == Idx(p) + 1

InsertedAt(p) == Idx(p)

(* primary_keys.insert, primary_keys.remove.  If the index is full the     *)
(* slot stays taken.                                                       *)
Index(p) ==
  /\ pc[p] = "index"
  /\ IF IsOp(p, "remove")
     THEN entries' = PK!Dropped(entries, KeyOf(p)) /\ Abort(p, Store!Ok)
     ELSE IF PK!Total(entries) < Capacity
     THEN entries' = PK!Added(entries, KeyOf(p), InsertedAt(p)) /\ Abort(p, Store!Ok)
     ELSE UNCHANGED entries /\ Abort(p, Store!TableFull)
  /\ UNCHANGED <<header, slot, owner, call, local>>

-----------------------------------------------------------------------------
(* Slots::get and deserialization, in find, update and iter.  A free slot  *)
(* is an empty slice, and a slice shorter than the record does not decode: *)
(* find and update fail, an iterator says that it is done.                 *)

Seqs == INSTANCE SequencesExt

ReturnSeen(p) ==
  Return(p, Store!Yielded(Seqs!ToSet(local[p].seen), Len(local[p].seen)))

Undecodable(p) ==
  CASE IsOp(p, "find") -> Return(p, [kind |-> "undecodable"])
    [] IsOp(p, "iter") -> ReturnSeen(p)
    [] IsOp(p, "update") -> Abort(p, [kind |-> "undecodable"]) /\ UNCHANGED local

RdState(p) ==
  /\ pc[p] = "rd_state"
  /\ IF slot[Idx(p)].state = "Free"
     THEN Undecodable(p)
     ELSE Goto(p, "rd_state", "rd_size") /\ UNCHANGED <<local, out>>
  /\ UNCHANGED <<Shared, owner, call>>

RdSize(p) ==
  /\ Goto(p, "rd_size", "rd_lo")
  /\ local' = [local EXCEPT ![p].tmp = slot[Idx(p)].size]
  /\ UNCHANGED <<Shared, owner, call, out>>

RdLo(p) ==
  LET w == slot[Idx(p)].lo IN
  /\ pc[p] = "rd_lo"
  /\ IF local[p].tmp < LenOf(w.val)
     THEN Undecodable(p)
     ELSE /\ Goto(p, "rd_lo", "rd_hi")
          /\ local' = [local EXCEPT ![p].tmp = 0, ![p].lo = w]
          /\ UNCHANGED out
  /\ UNCHANGED <<Shared, owner, call>>

(* The last word read: find returns the record, an iterator yields it and  *)
(* goes on, an update applies the closure and checks the new length.       *)
RdHi(p) ==
  LET lo == local[p].lo
      hi == slot[Idx(p)].hi
      inc(w) == Word(w.key, w.val + 1)
  IN
  /\ pc[p] = "rd_hi"
  /\ IF IsOp(p, "find")
     THEN Return(p, IF lo = hi /\ lo.key = KeyOf(p) THEN Store!Found(lo.val)
                    ELSE [kind |-> "wrong", lo |-> lo, hi |-> hi])
     ELSE IF IsOp(p, "iter")
     THEN /\ Goto(p, "rd_hi", "it_test")
          /\ local' = [local EXCEPT ![p].seen = Append(@, lo.key),
                                    ![p].idx = @ + 1]
          /\ UNCHANGED out
     ELSE IF ~Fits(lo.val + 1)
     THEN Abort(p, Store!RecordSizeTooBig) /\ UNCHANGED local
     ELSE /\ Goto(p, "rd_hi", "wr_state")
          /\ local' = [local EXCEPT ![p].lo = inc(lo), ![p].hi = inc(hi)]
          /\ UNCHANGED out
  /\ UNCHANGED <<Shared, owner, call>>

-----------------------------------------------------------------------------
(* count, and the iterator with its cursor idx.  `found' is Len(seen).     *)

ReadCount(p) ==
  /\ pc[p] = "count"
  /\ Return(p, Store!Counted(header.count))
  /\ UNCHANGED <<Shared, owner, call>>

IterTest(p) ==
  /\ pc[p] = "it_test"
  /\ IF Len(local[p].seen) >= header.count
     THEN ReturnSeen(p)
     ELSE Goto(p, "it_test", "it_skip") /\ UNCHANGED <<local, out>>
  /\ UNCHANGED <<Shared, owner, call>>

(* Free slots are skipped without a look at the capacity: behind the last  *)
(* slot what follows is not modelled.                                      *)
IterSkip(p) ==
  /\ pc[p] = "it_skip"
  /\ IF Idx(p) \notin Indices
     THEN Goto(p, "it_skip", "wild") /\ UNCHANGED local
     ELSE IF slot[Idx(p)].state = "Free"
     THEN local' = [local EXCEPT ![p].idx = @ + 1] /\ UNCHANGED pc
     ELSE Goto(p, "it_skip", "rd_state") /\ UNCHANGED local
  /\ UNCHANGED <<Shared, owner, call, out>>

-----------------------------------------------------------------------------
(* Slots::remove under the lock of the record.                             *)

RmFirst(p) ==
  /\ Goto(p, "rm_first", "rm_state")
  /\ local' = [local EXCEPT ![p].tmp = header.firstFree]
  /\ UNCHANGED <<Shared, owner, call, out>>

RmState(p) ==
  /\ Goto(p, "rm_state", "rm_size")
  /\ slot' = [slot EXCEPT ![Idx(p)].state = "Free"]
  /\ UNCHANGED <<header, entries, owner, call, local, out>>

(* Mutation of RmSize: the freed slot gets no link.                        *)
RmSizeUnlinked(p) ==
  /\ Goto(p, "rm_size", "rm_setfirst")
  /\ UNCHANGED <<Shared, owner, call, local, out>>

RmSize(p) ==
  /\ Goto(p, "rm_size", "rm_setfirst")
  /\ slot' = [slot EXCEPT ![Idx(p)].size = local[p].tmp]
  /\ UNCHANGED <<header, entries, owner, call, local, out>>

RmSetFirst(p) ==
  /\ Goto(p, "rm_setfirst", "ldcount")
  /\ header' = [header EXCEPT !.firstFree = Idx(p)]
  /\ UNCHANGED <<slot, entries, owner, call, local, out>>

-----------------------------------------------------------------------------
(* Mutation of Undone: the undo resets the whole set.                      *)
AllUndone(p) == [s \in Sems |-> NoProc]

Undone(p) == [s \in Sems |-> IF owner[s] = p THEN NoProc ELSE owner[s]]

(* A process dies in the middle of a call; the kernel undoes its semaphore *)
(* operations (SEM_UNDO) and nothing else.                                 *)
Crash(p) ==
  /\ p \in scenario.mortal
  /\ pc[p] \notin {"idle", "wild"}
  /\ dead' = dead \cup {p}
  /\ owner' = Undone(p)
  /\ UNCHANGED <<scenario, Shared, pc, call, local, out>>

(* What a process does by itself once it is in a call.                     *)
Step(p) ==
  \/ LookupHit(p) \/ LookupMiss(p) \/ Lock(p) \/ Unlock(p)
  \/ InsFull(p) \/ InsFirst(p) \/ InsNext(p) \/ InsSetFirst(p)
  \/ LoadCount(p) \/ StoreCount(p)
  \/ WrState(p) \/ WrSize(p) \/ WrLo(p) \/ WrHi(p) \/ Index(p)
  \/ RdState(p) \/ RdSize(p) \/ RdLo(p) \/ RdHi(p)
  \/ ReadCount(p) \/ IterTest(p) \/ IterSkip(p)
  \/ RmFirst(p) \/ RmState(p) \/ RmSize(p) \/ RmSetFirst(p)

Alive(p) == p \notin dead /\ UNCHANGED <<scenario, dead>>

Next == \E p \in Proc \ dead :
  \/ (Begin(p) \/ Step(p) \/ LockInterrupted(p)) /\ UNCHANGED <<scenario, dead>>
  \/ Crash(p)

Spec == Init /\ [][Next]_vars

(* A process in a call is scheduled, and one that waits for a semaphore    *)
(* gets it eventually if it is free again and again (the kernel serves     *)
(* the waiters of a semaphore in turn).                                    *)
FairSpec ==
  Spec /\ \A p \in Proc : WF_vars(Alive(p) /\ Step(p)) /\ SF_vars(Alive(p) /\ Lock(p))

-----------------------------------------------------------------------------
(* Properties.                                                             *)

Words == [key : Key \cup {NoProc}, val : 0 .. MaxFit]

PCs == {"idle", "wild", "lookup", "lock", "unlock", "index",
        "full", "first", "next", "setfirst", "ldcount", "stcount",
        "wr_state", "wr_size", "wr_lo", "wr_hi",
        "rd_state", "rd_size", "rd_lo", "rd_hi", "count", "it_test", "it_skip",
        "rm_first", "rm_state", "rm_size", "rm_setfirst"}

(* Every variable keeps its type; index entries and the slots a process    *)
(* works on lie inside the table (slot.rs computes addresses unchecked).   *)
TypeOK ==
  /\ header \in [count : 0 .. WordMax, firstFree : 0 .. Capacity]
  /\ slot \in [Indices -> [state : {"Free", "Occupied"}, size : Nat,
                          lo : Words, hi : Words]]
  /\ \A k \in Key : entries[k] \in Seq(Indices)
  /\ owner \in [Sems -> Proc \cup {NoProc}]
  /\ dead \subseteq Proc
  /\ pc \in [Proc -> PCs]
  /\ \A p \in Proc : /\ local[p].idx \in 0 .. Capacity
                     /\ local[p].tmp \in Nat
                     /\ local[p].lo \in Words /\ local[p].hi \in Words
                     /\ local[p].seen \in Seq(Key)

Removing(p) == /\ IsOp(p, "remove")
               /\ pc[p] \in {"rm_first", "rm_state", "rm_size", "rm_setfirst",
                            "ldcount", "stcount", "index"}

Updating(p) == /\ IsOp(p, "update")
               /\ pc[p] \in {"rd_state", "rd_size", "rd_lo", "rd_hi",
                            "wr_state", "wr_size", "wr_lo", "wr_hi"}

Published == UNION {{entries[k][j] : j \in DOMAIN entries[k]} : k \in Key}

(* The record area as the caller of module Slots: it holds the indices it  *)
(* has published in the index.                                             *)
Area == INSTANCE Slots
          WITH Payload <- {}, SizeOf <- <<>>, DataSize <- LenOf(MaxFit),
               NoData <- Zero, ret <- 0, held <- Published,
               slots <- [count |-> header.count, firstFree |-> header.firstFree,
                         slot |-> slot]

(* Whenever no insertion and no removal is under way, nor one cut short by *)
(* a death, the free list is intact, count is the number of records, and   *)
(* the occupied slots are exactly those the index leads to (table.rs,      *)
(* insert and remove change the slots and the index in two calls).         *)
SettledIntact ==
  (\A p \in Proc : ~Inserting(p) /\ ~Removing(p))
    => Area!FreeListIntact /\ Area!HeldIsOccupied

(* What the index leads to is a complete record of that very key, except   *)
(* while a holder of its lock is rewriting or freeing it, or after one     *)
(* died at that: an insertion cannot harm it, even by dying (table.rs:543  *)
(* and 546, the record is written before it is published).                 *)
PublishedComplete ==
  \A k \in Key : \A j \in DOMAIN entries[k] :
    LET i == entries[k][j] IN
    \/ /\ slot[i].state = "Occupied"
       /\ slot[i].lo = slot[i].hi
       /\ slot[i].lo.key = k
       /\ slot[i].size = LenOf(slot[i].lo.val)
    \/ \E p \in Proc : /\ Idx(p) = i /\ ~IsOp(p, "insert")
                       /\ owner[i] = p \/ p \in dead

(* Nobody else works on the slot a process is rewriting, although insert   *)
(* and update hold different semaphores (table.rs:477 and 538).            *)
WritersExclusive ==
  LET working(q) == Updating(q) \/ Removing(q) \/ Unpublished(q)
  IN \A p, q \in Proc \ dead : working(p) /\ working(q) /\ Idx(p) = Idx(q) => p = q

(* find returns a whole record of the key it was asked for, or nothing     *)
(* (table.rs:69, "`find`, `count`, and `capacity` are safe concurrent      *)
(* readers").                                                              *)
FindWhole ==
  \A p \in Proc : IsOp(p, "find") => out[p].kind \in {"pending", "none", "some"}

(* No insertion follows the free list past its end and no iteration runs   *)
(* past the last slot, unless a process died between taking a slot off the *)
(* list and counting it (table.rs:502, "If table is full => TableFull";    *)
(* slot.rs:104 and 204).                                                   *)
NeverWild ==
  (\E p \in Proc : pc[p] = "wild")
    => \E q \in dead : IsOp(q, "insert") /\ pc[q] \in {"ldcount", "stcount"}

(* Calls take effect one at a time, each between its start and its return: *)
(* no update is lost, nothing is read half-written, an iteration yields    *)
(* every record once, refusals are justified, and an insertion that dies   *)
(* costs at most one record's room (table.rs, the calls' documentation).   *)
RefinesStore == Store!Spec

(* Every call of a process that lives returns (semaphore.rs, a lock whose  *)
(* holder returned or died is free again).                                 *)
CallsReturn ==
  \A p \in Proc : pc[p] # "idle" ~>
    pc[p] = "idle" \/ p \in dead \/ \E q \in Proc : pc[q] = "wild"

-----------------------------------------------------------------------------
(* What the documentation says and the code does not do; each of these is  *)
(* refuted by a run of its own.                                            *)

(* count is the number of records (table.rs:334, "Returns the number of    *)
(* currently stored records").                                             *)
CountIsRecords ==
  (\A p \in Proc : ~Inserting(p) /\ ~Removing(p))
    => header.count = PK!Total(entries)

(* A key has at most one record (table.rs:56, "the record primary key      *)
(* uniquely identifies entries").                                          *)
KeysUnique == \A k \in Key : Len(entries[k]) <= 1

(* An update rewrites a record of the key it was asked for (table.rs:430,  *)
(* "Locates the record by key", "Locks only that record").                 *)
UpdateHitsItsKey ==
  \A p \in Proc : Updating(p) /\ pc[p] \in {"wr_state", "wr_size", "wr_lo", "wr_hi"}
                    => local[p].lo.key = KeyOf(p) /\ local[p].hi.key = KeyOf(p)
=============================================================================
