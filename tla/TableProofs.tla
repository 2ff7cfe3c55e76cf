---------------------------- MODULE TableProofs ----------------------------
(***************************************************************************)
(* Proofs about module Table, for any number of processes, keys and slots: *)
(* in a workable scenario an invariant of the single loads and stores      *)
(* gives the table's safety properties.                                    *)
(***************************************************************************)
EXTENDS Table, FiniteSetTheorems, TLAPS

-----------------------------------------------------------------------------
(* What processes are doing, in terms of the slot they are at.             *)

Writing == {"wr_state", "wr_size", "wr_lo", "wr_hi"}
Reading == {"rd_state", "rd_size", "rd_lo", "rd_hi"}
Counting == {"ldcount", "stcount"}
Freeing == {"rm_first", "rm_state", "rm_size", "rm_setfirst"}

(* p has taken a slot off the free list and not yet published it.          *)
Taken(p) == IsOp(p, "insert") /\ pc[p] \in Counting \cup Writing \cup {"index"}

(* p has taken a slot that count does not include yet.                     *)
Uncounted(p) == IsOp(p, "insert") /\ pc[p] \in Counting

(* p has put its slot on the free list and not yet unpublished it.         *)
Linked(p) == IsOp(p, "remove") /\ pc[p] \in Counting \cup {"index"}

(* p has freed a slot that count still includes.                           *)
Overcounted(p) == IsOp(p, "remove") /\ pc[p] \in Counting

(* p has marked its slot free.                                             *)
Freed(p) == IsOp(p, "remove")
            /\ pc[p] \in Counting \cup {"rm_size", "rm_setfirst", "index"}

(* The record in p's slot is neither the old nor the new one.              *)
Rewriting(p) == Freed(p) \/ (IsOp(p, "update") /\ pc[p] \in {"wr_lo", "wr_hi"})

(* p works on the record it looked up.                                     *)
Aims(p) == \/ IsOp(p, "find") /\ pc[p] \in Reading
           \/ IsOp(p, "update") /\ pc[p] \in Reading \cup Writing \cup {"lock"}
           \/ /\ IsOp(p, "remove")
              /\ pc[p] \in Freeing \cup Counting \cup {"lock", "index"}

(* p is between its lock and its unlock.                                   *)
Holds(p) == \/ /\ IsOp(p, "insert")
               /\ pc[p] \in {"full", "first", "next", "setfirst", "index", "unlock"}
                            \cup Counting \cup Writing
            \/ IsOp(p, "update") /\ pc[p] \in Reading \cup Writing \cup {"unlock"}
            \/ /\ IsOp(p, "remove")
               /\ pc[p] \in Freeing \cup Counting \cup {"index", "unlock"}

(* A process died before it counted the slot it had taken.                 *)
Lost == \E q \in dead : Uncounted(q)

(* A process died halfway through the record of slot i.                    *)
Torn(i) == \E q \in dead : Rewriting(q) /\ Idx(q) = i

(* Slot i holds the whole record of key k.                                 *)
Complete(k, i) == /\ slot[i].state = "Occupied"
                  /\ slot[i].lo = slot[i].hi
                  /\ slot[i].lo.key = k
                  /\ slot[i].size = LenOf(slot[i].lo.val)

-----------------------------------------------------------------------------
(* The inductive invariant, in parts.                                      *)

Ops == {"none", "insert", "find", "update", "remove", "count", "iter"}
Requested == [op : Ops, keys : Seq(Key), val : Nat, found : Nat]
Locals == [idx : 0 .. Capacity, tmp : Nat, lo : Words, hi : Words, seen : Seq(Key)]
SlotType == [state : {"Free", "Occupied"}, size : Nat, lo : Words, hi : Words]

(* Types, with the domains the later parts need; count never passes the    *)
(* capacity.                                                               *)
Typing ==
  /\ scenario \in Scenarios
  /\ header \in [count : 0 .. Capacity, firstFree : 0 .. Capacity]
  /\ slot \in [Indices -> SlotType]
  /\ entries \in [Key -> Seq(Indices)]
  /\ owner \in [Sems -> Proc \cup {NoProc}]
  /\ dead \subseteq Proc
  /\ pc \in [Proc -> PCs]
  /\ call \in [Proc -> Requested]
  /\ local \in [Proc -> Locals]
  /\ out = [p \in Proc |-> out[p]]

(* Where a process may stand in each call.                                 *)
Stands(p) ==
  \/ pc[p] = "idle"
  \/ /\ IsOp(p, "insert")
     /\ pc[p] \in {"lookup", "lock", "full", "first", "next", "setfirst",
                   "index", "unlock", "wild"} \cup Counting \cup Writing
  \/ IsOp(p, "find") /\ pc[p] \in {"lookup"} \cup Reading
  \/ IsOp(p, "update")
     /\ pc[p] \in {"lookup", "lock", "unlock"} \cup Reading \cup Writing
  \/ IsOp(p, "remove")
     /\ pc[p] \in {"lookup", "lock", "index", "unlock"} \cup Freeing \cup Counting
  \/ IsOp(p, "count") /\ pc[p] = "count"
  \/ IsOp(p, "iter") /\ pc[p] \in {"it_test", "it_skip"} \cup Reading

(* The call in progress was asked for by the scenario; of an update, some  *)
(* of its keys are left.                                                   *)
Asked(p) ==
  pc[p] # "idle" => \E c \in scenario.calls[p] :
    /\ c.op = call[p].op
    /\ \A i \in DOMAIN call[p].keys : \E j \in DOMAIN c.keys :
         c.keys[j] = call[p].keys[i]

(* A call on keys has a key left until its last unlock.                    *)
Keyed(p) ==
  /\ IsOp(p, "insert") \/ IsOp(p, "find") \/ IsOp(p, "update") \/ IsOp(p, "remove")
     => (pc[p] \notin {"idle", "unlock"} => call[p].keys # <<>>)
  /\ pc[p] = "unlock" /\ out[p] = Pending => call[p].keys # <<>> /\ IsOp(p, "update")

Fresh(p) == pc[p] \in {"idle", "lookup"} => local[p] = NoLocals

Control == \A p \in Proc : Stands(p) /\ Asked(p) /\ Keyed(p) /\ Fresh(p)

(* Who holds what.                                                         *)
Locks ==
  /\ \A s \in Sems : owner[s] \notin dead
  /\ \A p \in Proc \ dead : Holds(p) => owner[Sem(p)] = p

(* No slot is published twice.                                             *)
Distinct ==
  \A k, l \in Key : \A i \in DOMAIN entries[k] : \A j \in DOMAIN entries[l] :
    entries[k][i] = entries[l][j] => k = l /\ i = j

(* Whoever works on a record has the index of its key.                     *)
Aimed ==
  \A p \in Proc : Aims(p) => /\ entries[KeyOf(p)] # <<>>
                             /\ Idx(p) = Head(entries[KeyOf(p)])

(* A taken slot is in nobody else's hands.                                 *)
Apart ==
  /\ \A p \in Proc : Taken(p) => Idx(p) \in Indices \ Published
  /\ \A p, q \in Proc : Taken(p) /\ Taken(q) /\ Idx(p) = Idx(q) => p = q

(* The n slots on the free list, in order, and then the end mark.          *)
IsList(n, order) ==
  /\ order \in [1 .. n + 1 -> 0 .. Capacity]
  /\ order[1] = header.firstFree
  /\ order[n + 1] = Capacity
  /\ \A j \in 1 .. n : /\ order[j] \in Indices
                       /\ slot[order[j]].state = "Free"
                       /\ slot[order[j]].size = order[j + 1]
  /\ \A j, k \in 1 .. n : order[j] = order[k] => j = k

(* Slot i has left the free list and not come back.                        *)
Off(i) == \/ \E p \in Proc : Taken(p) /\ Idx(p) = i
          \/ i \in Published /\ ~\E p \in Proc : Linked(p) /\ Idx(p) = i

Ticks(Cond) == IF Cond THEN 1 ELSE 0

(* count and the list make up the capacity, but for a slot on its way.     *)
Balanced(n) ==
  Lost \/ header.count + n + Ticks(\E p \in Proc : Uncounted(p))
            = Capacity + Ticks(\E p \in Proc : Overcounted(p))

Listed ==
  \E n \in 0 .. Capacity : \E order \in [1 .. n + 1 -> 0 .. Capacity] :
    /\ IsList(n, order)
    /\ Balanced(n)
    /\ \A i \in Indices : Off(i) <=> \A j \in 1 .. n : order[j] # i

(* Records in the index: their words are of their key, and they are whole  *)
(* unless somebody is rewriting or freeing them.                           *)
Recorded(k, i) ==
  /\ slot[i].state = "Occupied" \/ \E p \in Proc : Freed(p) /\ Idx(p) = i
  /\ slot[i].lo.key = k /\ slot[i].hi.key = k
  /\ slot[i].hi.val <= slot[i].lo.val
  /\ Complete(k, i) \/ \E p \in Proc : Rewriting(p) /\ Idx(p) = i

Contents ==
  \A k \in Key : \A j \in DOMAIN entries[k] : Recorded(k, entries[k][j])

(* What an insertion under way knows.                                      *)
Insertion(p) ==
  IsOp(p, "insert") =>
  /\ pc[p] \in {"first", "next", "setfirst"} \cup Counting
       => header.count < Capacity
  /\ pc[p] \in {"first", "next", "setfirst"} \cup Counting => Fits(call[p].val)
  /\ pc[p] \in {"next", "setfirst"} => Idx(p) = header.firstFree
  /\ pc[p] = "setfirst" => /\ Idx(p) \in Indices
                           /\ local[p].tmp = slot[Idx(p)].size
  /\ pc[p] = "stcount" => local[p].tmp = header.count
  /\ pc[p] \in Writing \cup {"index"} => /\ local[p].lo = local[p].hi
                                         /\ local[p].lo.key = KeyOf(p)
  /\ pc[p] \in {"wr_size", "wr_lo", "wr_hi", "index"}
       => slot[Idx(p)].state = "Occupied"
  /\ pc[p] \in {"wr_lo", "wr_hi", "index"}
       => slot[Idx(p)].size = LenOf(local[p].lo.val)
  /\ pc[p] \in {"wr_hi", "index"} => slot[Idx(p)].lo = local[p].lo
  /\ pc[p] = "index" => slot[Idx(p)].hi = local[p].hi

(* What an update under way knows.                                         *)
Revision(p) ==
  IsOp(p, "update") =>
  /\ pc[p] = "rd_hi" => local[p].lo = slot[Idx(p)].lo
  /\ pc[p] \in Writing => /\ local[p].lo.key = KeyOf(p)
                          /\ local[p].hi.key = KeyOf(p)
                          /\ local[p].hi.val <= local[p].lo.val
                          /\ local[p].lo = local[p].hi \/ Torn(Idx(p))
                          /\ slot[Idx(p)].hi.val <= local[p].lo.val
  /\ pc[p] \in {"wr_lo", "wr_hi"} => slot[Idx(p)].size = LenOf(local[p].lo.val)
  /\ pc[p] = "wr_hi" => slot[Idx(p)].lo = local[p].lo

(* What a removal under way knows.                                         *)
Removal(p) ==
  IsOp(p, "remove") =>
  /\ pc[p] \in {"rm_state", "rm_size"} => local[p].tmp = header.firstFree
  /\ pc[p] \in {"rm_size", "rm_setfirst"} => slot[Idx(p)].state = "Free"
  /\ pc[p] = "rm_setfirst" => slot[Idx(p)].size = header.firstFree
  /\ pc[p] = "stcount" => local[p].tmp = header.count

(* The records an iteration at slot i has passed.                          *)
Passed(i) == {j \in Indices : j < i /\ slot[j].state = "Occupied"}

(* What an iteration under way knows.                                      *)
Iteration(p) ==
  IsOp(p, "iter") =>
  /\ pc[p] # "idle" => Len(local[p].seen) = Cardinality(Passed(Idx(p)))
  /\ pc[p] = "it_skip" => Len(local[p].seen) < header.count
  /\ pc[p] \in Reading => /\ Idx(p) \in Indices
                          /\ slot[Idx(p)].state = "Occupied"
  /\ pc[p] = "rd_hi" => local[p].lo.key \in Key

Knowledge ==
  \A p \in Proc \ dead : Insertion(p) /\ Revision(p) /\ Removal(p) /\ Iteration(p)

(* An insertion that follows the list past its end was sent there.         *)
Wildness == \A p \in Proc : pc[p] = "wild" => Lost

IInv ==
  /\ Typing /\ Control /\ Locks
  /\ Distinct /\ Aimed /\ Apart /\ Listed /\ Contents /\ Knowledge /\ Wildness

-----------------------------------------------------------------------------
(* What each step does, flat: the values of the process that takes it and  *)
(* of the shared memory afterwards.                                        *)

Quiet == header' = header /\ slot' = slot /\ entries' = entries

(* Process p moves, the others stay as they are.                           *)
Own(p) ==
  /\ scenario' = scenario /\ dead' = dead
  /\ pc' = [q \in Proc |-> pc'[q]] /\ call' = [q \in Proc |-> call'[q]]
  /\ local' = [q \in Proc |-> local'[q]] /\ out' = [q \in Proc |-> out'[q]]
  /\ \A q \in Proc \ {p} : /\ pc'[q] = pc[q] /\ call'[q] = call[q]
                           /\ local'[q] = local[q] /\ out'[q] = out[q]

(* Without a lock, a record, a link or a counter.                          *)
Keeps(p) == Own(p) /\ Quiet /\ owner' = owner

From(p, a, b) == pc[p] = a /\ pc'[p] = b

Same(p) == call'[p] = call[p] /\ local'[p] = local[p] /\ out'[p] = out[p]

Looks(p, l) == call'[p] = call[p] /\ local'[p] = l /\ out'[p] = out[p]

Began(p) == \E c \in scenario.calls[p] :
  /\ Keeps(p) /\ pc[p] = "idle"
  /\ call'[p] = c /\ local'[p] = local[p] /\ out'[p] = Pending
  /\ \/ c.op = "count" /\ pc'[p] = "count"
     \/ c.op = "iter" /\ pc'[p] = "it_test"
     \/ c.op \notin {"count", "iter"} /\ pc'[p] = "lookup"

Returned(p) ==
  /\ Keeps(p) /\ pc'[p] = "idle" /\ local'[p] = NoLocals
  /\ call'[p] \in Requested /\ call'[p].op = call[p].op
  /\ pc[p] \in Reading \cup {"lookup", "lock", "count", "it_test"}
  /\ IsOp(p, "update") => pc[p] \notin Reading

Hit(p) ==
  /\ Keeps(p) /\ entries[KeyOf(p)] # <<>>
  /\ \/ IsOp(p, "find") /\ From(p, "lookup", "rd_state")
     \/ (IsOp(p, "update") \/ IsOp(p, "remove")) /\ From(p, "lookup", "lock")
  /\ Looks(p, [local[p] EXCEPT !.idx = Head(entries[KeyOf(p)])])

Missed(p) == Keeps(p) /\ IsOp(p, "insert") /\ From(p, "lookup", "lock") /\ Same(p)

Skipped(p) ==
  /\ Keeps(p) /\ IsOp(p, "update") /\ From(p, "lookup", "lookup")
  /\ Tail(call[p].keys) # <<>>
  /\ call'[p] = [call[p] EXCEPT !.keys = Tail(call[p].keys)]
  /\ local'[p] = local[p] /\ out'[p] = out[p]

Locked(p) ==
  /\ Own(p) /\ Quiet /\ Same(p)
  /\ \/ IsOp(p, "insert") /\ From(p, "lock", "full")
     \/ IsOp(p, "update") /\ From(p, "lock", "rd_state")
     \/ IsOp(p, "remove") /\ From(p, "lock", "rm_first")
  /\ owner[Sem(p)] = NoProc /\ owner' = [owner EXCEPT ![Sem(p)] = p]

Unlocked(p) ==
  /\ Own(p) /\ Quiet /\ Looks(p, NoLocals)
  /\ From(p, "unlock", IF out[p] = Pending THEN "lookup" ELSE "idle")
  /\ owner' = [owner EXCEPT ![Sem(p)] = NoProc]

Aborted(p) ==
  /\ Keeps(p) /\ pc'[p] = "unlock" /\ out'[p] # Pending
  /\ call'[p] = call[p] /\ local'[p] = local[p]
  /\ \/ IsOp(p, "insert") /\ pc[p] = "full"
     \/ IsOp(p, "update") /\ pc[p] \in Reading
     \/ IsOp(p, "insert") /\ pc[p] = "index" /\ ~(PK!Total(entries) < Capacity)

Entered(p) ==
  /\ Keeps(p) /\ IsOp(p, "insert") /\ From(p, "full", "first") /\ Same(p)
  /\ header.count < Capacity /\ Fits(call[p].val)

TookHead(p) ==
  /\ Keeps(p) /\ IsOp(p, "insert") /\ From(p, "first", "next")
  /\ Looks(p, [local[p] EXCEPT !.idx = header.firstFree])

SawLink(p) ==
  /\ Keeps(p) /\ IsOp(p, "insert") /\ From(p, "next", "setfirst")
  /\ Idx(p) \in Indices
  /\ Looks(p, [local[p] EXCEPT !.tmp = slot[Idx(p)].size])

Strayed(p) ==
  /\ Keeps(p) /\ IsOp(p, "insert") /\ From(p, "next", "wild") /\ Same(p)
  /\ Idx(p) \notin Indices

Popped(p) ==
  /\ Own(p) /\ IsOp(p, "insert") /\ From(p, "setfirst", "ldcount") /\ Same(p)
  /\ header' = [header EXCEPT !.firstFree = local[p].tmp]
  /\ slot' = slot /\ entries' = entries /\ owner' = owner

SawCount(p) ==
  /\ Keeps(p)
  /\ IsOp(p, "insert") \/ IsOp(p, "remove")
  /\ From(p, "ldcount", "stcount")
  /\ Looks(p, [local[p] EXCEPT !.tmp = header.count])

CountedUp(p) ==
  /\ Own(p) /\ IsOp(p, "insert") /\ From(p, "stcount", "wr_state")
  /\ header' = [header EXCEPT !.count = local[p].tmp + 1]
  /\ slot' = slot /\ entries' = entries /\ owner' = owner
  /\ LET w == Word(KeyOf(p), call[p].val) IN
     Looks(p, [local[p] EXCEPT !.tmp = 0, !.lo = w, !.hi = w])

CountedDown(p) ==
  /\ Own(p) /\ IsOp(p, "remove") /\ From(p, "stcount", "index") /\ Same(p)
  /\ header' = [header EXCEPT !.count = local[p].tmp - 1]
  /\ slot' = slot /\ entries' = entries /\ owner' = owner

(* The slot p is at becomes r.                                             *)
Stored(p, r) ==
  /\ Own(p) /\ header' = header /\ entries' = entries /\ owner' = owner
  /\ slot' = [i \in Indices |-> slot'[i]]
  /\ Idx(p) \in Indices /\ slot'[Idx(p)] = r
  /\ \A i \in Indices \ {Idx(p)} : slot'[i] = slot[i]

WroteState(p) ==
  /\ Stored(p, [slot[Idx(p)] EXCEPT !.state = "Occupied"])
  /\ IsOp(p, "insert") \/ IsOp(p, "update")
  /\ From(p, "wr_state", "wr_size") /\ Same(p)

WroteSize(p) ==
  /\ Stored(p, [slot[Idx(p)] EXCEPT !.size = LenOf(local[p].lo.val)])
  /\ IsOp(p, "insert") \/ IsOp(p, "update")
  /\ From(p, "wr_size", "wr_lo") /\ Same(p)

WroteLo(p) ==
  /\ Stored(p, [slot[Idx(p)] EXCEPT !.lo = local[p].lo])
  /\ IsOp(p, "insert") \/ IsOp(p, "update")
  /\ From(p, "wr_lo", "wr_hi") /\ Same(p)

Filled(p) ==
  /\ Stored(p, [slot[Idx(p)] EXCEPT !.hi = local[p].hi])
  /\ IsOp(p, "insert") /\ From(p, "wr_hi", "index") /\ Same(p)

Rewrote(p) ==
  /\ Stored(p, [slot[Idx(p)] EXCEPT !.hi = local[p].hi])
  /\ IsOp(p, "update") /\ From(p, "wr_hi", "unlock")
  /\ call'[p] = [call[p] EXCEPT !.keys = Tail(call[p].keys), !.found = @ + 1]
  /\ local'[p] = local[p]
  /\ out'[p] = Pending => Tail(call[p].keys) # <<>>

Indexed(p) ==
  /\ Own(p) /\ IsOp(p, "insert") /\ From(p, "index", "unlock")
  /\ entries' = PK!Added(entries, KeyOf(p), Idx(p))
  /\ header' = header /\ slot' = slot /\ owner' = owner
  /\ call'[p] = call[p] /\ local'[p] = local[p] /\ out'[p] # Pending

Unindexed(p) ==
  /\ Own(p) /\ IsOp(p, "remove") /\ From(p, "index", "unlock")
  /\ entries' = PK!Dropped(entries, KeyOf(p))
  /\ header' = header /\ slot' = slot /\ owner' = owner
  /\ call'[p] = call[p] /\ local'[p] = local[p] /\ out'[p] # Pending

SawState(p) ==
  /\ Keeps(p) /\ From(p, "rd_state", "rd_size") /\ Same(p)
  /\ slot[Idx(p)].state # "Free"

SawSize(p) ==
  /\ Keeps(p) /\ From(p, "rd_size", "rd_lo")
  /\ Looks(p, [local[p] EXCEPT !.tmp = slot[Idx(p)].size])

SawLo(p) ==
  /\ Keeps(p) /\ From(p, "rd_lo", "rd_hi")
  /\ Looks(p, [local[p] EXCEPT !.tmp = 0, !.lo = slot[Idx(p)].lo])

Passes(p) ==
  /\ Keeps(p) /\ IsOp(p, "iter") /\ From(p, "rd_hi", "it_test")
  /\ Looks(p, [local[p] EXCEPT !.seen = Append(local[p].seen, local[p].lo.key),
                               !.idx = Idx(p) + 1])

Applied(p) ==
  /\ Keeps(p) /\ IsOp(p, "update") /\ From(p, "rd_hi", "wr_state")
  /\ Fits(local[p].lo.val + 1)
  /\ LET lo == local[p].lo hi == slot[Idx(p)].hi IN
     Looks(p, [local[p] EXCEPT !.lo = Word(lo.key, lo.val + 1),
                               !.hi = Word(hi.key, hi.val + 1)])

Tested(p) ==
  /\ Keeps(p) /\ IsOp(p, "iter") /\ From(p, "it_test", "it_skip") /\ Same(p)
  /\ Len(local[p].seen) < header.count

Stepped(p) ==
  /\ Keeps(p) /\ IsOp(p, "iter") /\ From(p, "it_skip", "it_skip")
  /\ Idx(p) \in Indices /\ slot[Idx(p)].state = "Free"
  /\ Looks(p, [local[p] EXCEPT !.idx = Idx(p) + 1])

Stopped(p) ==
  /\ Keeps(p) /\ IsOp(p, "iter") /\ From(p, "it_skip", "rd_state") /\ Same(p)
  /\ Idx(p) \in Indices /\ slot[Idx(p)].state # "Free"

Overran(p) ==
  /\ Keeps(p) /\ IsOp(p, "iter") /\ From(p, "it_skip", "wild") /\ Same(p)
  /\ Idx(p) \notin Indices

SawFirst(p) ==
  /\ Keeps(p) /\ IsOp(p, "remove") /\ From(p, "rm_first", "rm_state")
  /\ Looks(p, [local[p] EXCEPT !.tmp = header.firstFree])

WroteFree(p) ==
  /\ Stored(p, [slot[Idx(p)] EXCEPT !.state = "Free"])
  /\ IsOp(p, "remove") /\ From(p, "rm_state", "rm_size") /\ Same(p)

WroteLink(p) ==
  /\ Stored(p, [slot[Idx(p)] EXCEPT !.size = local[p].tmp])
  /\ IsOp(p, "remove") /\ From(p, "rm_size", "rm_setfirst") /\ Same(p)

Pushed(p) ==
  /\ Own(p) /\ IsOp(p, "remove") /\ From(p, "rm_setfirst", "ldcount") /\ Same(p)
  /\ header' = [header EXCEPT !.firstFree = Idx(p)]
  /\ slot' = slot /\ entries' = entries /\ owner' = owner

Crashed(p) ==
  /\ Quiet /\ scenario' = scenario /\ dead' = dead \cup {p}
  /\ pc' = pc /\ call' = call /\ local' = local /\ out' = out
  /\ owner' = Undone(p) /\ pc[p] \notin {"idle", "wild"}

(* The steps by what they change: nothing shared, the header, a slot, the  *)
(* index.                                                                  *)
Private(p) ==
  \/ Began(p) \/ Returned(p) \/ Hit(p) \/ Missed(p) \/ Skipped(p)
  \/ Locked(p) \/ Unlocked(p) \/ Aborted(p)
  \/ Entered(p) \/ TookHead(p) \/ SawLink(p) \/ Strayed(p) \/ SawCount(p)
  \/ SawState(p) \/ SawSize(p) \/ SawLo(p) \/ Passes(p) \/ Applied(p)
  \/ Tested(p) \/ Stepped(p) \/ Stopped(p) \/ Overran(p) \/ SawFirst(p)

Heading(p) == Popped(p) \/ CountedUp(p) \/ CountedDown(p) \/ Pushed(p)

Storing(p) ==
  \/ WroteState(p) \/ WroteSize(p) \/ WroteLo(p) \/ Filled(p) \/ Rewrote(p)
  \/ WroteFree(p) \/ WroteLink(p)

Indexing(p) == Indexed(p) \/ Unindexed(p)

Moves(p) == Private(p) \/ Heading(p) \/ Storing(p) \/ Indexing(p)

-----------------------------------------------------------------------------
(* First consequences.                                                     *)

(* What the assumptions on the constants say of the slots' indices.        *)
LEMMA Numbers ==
  /\ Capacity \in Nat /\ Capacity >= 1 /\ MaxFit \in Nat /\ BaseLen \in Nat
  /\ WordMax \in Nat /\ Capacity <= WordMax /\ NoProc \notin Proc
  /\ 0 \in Indices /\ Capacity \notin Indices /\ Indices \subseteq 0 .. Capacity
  /\ IsFiniteSet(Indices) /\ Cardinality(Indices) = Capacity
<1>1. /\ Capacity \in Nat \ {0} /\ MaxFit \in Nat /\ BaseLen \in Nat
      /\ WordMax \in Nat /\ Capacity <= WordMax /\ NoProc \notin Proc
  BY TableAssumption
<1>2. 0 \in Int /\ Capacity - 1 \in Int /\ ~(0 > Capacity - 1)
      /\ (Capacity - 1) - 0 + 1 = Capacity
  BY <1>1
<1>3. IsFiniteSet(Indices) /\ Cardinality(Indices) = Capacity
  BY <1>2, FS_Interval DEF Indices
<1>4. QED
  BY <1>1, <1>3 DEF Indices

(* A call that removes or iterates has the table for itself.               *)
LEMMA Solo ==
  ASSUME Workable(scenario), Control,
         NEW p \in Proc, pc[p] # "idle", IsOp(p, "remove") \/ IsOp(p, "iter"),
         NEW q \in Proc \ {p}
  PROVE  pc[q] = "idle"
<1>1. PICK c \in scenario.calls[p] : c.op \in {"remove", "iter"}
  BY DEF Control, Asked, IsOp
<1>2. scenario.calls[q] = {}
  BY <1>1 DEF Workable
<1>3. QED
  BY <1>2 DEF Control, Asked

(* What the index leads to are slots.                                      *)
LEMMA PublishedSlots ==
  ASSUME Typing
  PROVE  /\ Published \subseteq Indices
         /\ \A i : i \in Published <=> \E k \in Key : \E j \in DOMAIN entries[k] :
                                         entries[k][j] = i
<1>1. \A k \in Key : entries[k] \in Seq(Indices)
  BY DEF Typing
<1>2. \A k \in Key : \A j \in DOMAIN entries[k] : entries[k][j] \in Indices
  BY <1>1
<1>3. QED
  BY <1>2 DEF Published

(* A call on keys is on a key.                                             *)
LEMMA KeyOfKey ==
  ASSUME Typing, NEW p \in Proc, call[p].keys # <<>>
  PROVE  /\ KeyOf(p) \in Key /\ Tail(call[p].keys) \in Seq(Key)
         /\ 1 \in DOMAIN call[p].keys /\ KeyOf(p) = call[p].keys[1]
<1>1. call[p].keys \in Seq(Key)
  BY DEF Typing, Requested
<1>2. QED
  BY <1>1 DEF KeyOf

(* Whoever works on a record works on a published slot.                    *)
LEMMA AimedSlot ==
  ASSUME Typing, Control, Aimed, NEW p \in Proc, Aims(p)
  PROVE  /\ KeyOf(p) \in Key /\ 1 \in DOMAIN entries[KeyOf(p)]
         /\ entries[KeyOf(p)][1] = Idx(p)
         /\ Idx(p) \in Indices /\ Idx(p) \in Published
<1>1. KeyOf(p) \in Key
  <2>1. call[p].keys # <<>>
    BY DEF Aims, Control, Keyed, Reading, Writing, Freeing, Counting
  <2>2. QED
    BY <2>1, KeyOfKey
<1>2. entries[KeyOf(p)] # <<>> /\ Idx(p) = Head(entries[KeyOf(p)])
  BY DEF Aimed
<1>3. entries[KeyOf(p)] \in Seq(Indices)
  BY <1>1 DEF Typing
<1>4. 1 \in DOMAIN entries[KeyOf(p)] /\ entries[KeyOf(p)][1] = Idx(p)
  BY <1>2, <1>3
<1>5. QED
  BY <1>1, <1>3, <1>4, PublishedSlots

(* The semaphore a call uses exists.                                       *)
LEMMA SemExists ==
  ASSUME Typing, NEW p \in Proc
  PROVE  Sem(p) \in Sems
BY Numbers DEF Typing, Sem, Sems, TableSem, Idx, Locals

(* A list that visits slots once has at most Capacity of them, and fewer   *)
(* if it misses one.                                                       *)
LEMMA ListShort ==
  ASSUME NEW n \in Nat, NEW order, IsList(n, order)
  PROVE  /\ n <= Capacity
         /\ (\E i \in Indices : \A j \in 1 .. n : order[j] # i) => n < Capacity
<1> DEFINE visits == [j \in 1 .. n |-> order[j]]
<1>1. ASSUME NEW S \in SUBSET Indices, \A j \in 1 .. n : order[j] \in S
      PROVE  n <= Cardinality(S)
  <2>2. IsFiniteSet(S)
    BY Numbers, FS_Subset
  <2>3. visits \in Injection(1 .. n, S)
    BY <1>1 DEF IsList, Injection, IsInjective
  <2>4. Cardinality(1 .. n) <= Cardinality(S)
    BY <2>2, <2>3, FS_Injection
  <2>5. Cardinality(1 .. n) = n
    BY FS_Interval
  <2>6. QED
    BY <2>4, <2>5
<1>2. IsFiniteSet(Indices) /\ Cardinality(Indices) = Capacity
  BY Numbers
<1>3. n <= Capacity
  BY <1>1, <1>2 DEF IsList
<1>4. ASSUME NEW i \in Indices, \A j \in 1 .. n : order[j] # i
      PROVE  n < Capacity
  <2>1. n <= Cardinality(Indices \ {i})
    BY <1>1, <1>4 DEF IsList
  <2>2. Cardinality(Indices \ {i}) = Capacity - 1
    BY <1>2, FS_RemoveElement
  <2>3. QED
    BY <2>1, <2>2, Numbers
<1>5. QED
  BY <1>3, <1>4

(* A removal that freed its slot finds it counted.                         *)
LEMMA CountPositive ==
  ASSUME IInv, Workable(scenario), NEW p \in Proc, Overcounted(p)
  PROVE  header.count >= 1
<1>1. \A q \in Proc : ~Uncounted(q)
  <2> SUFFICES ASSUME NEW q \in Proc, Uncounted(q) PROVE FALSE
    OBVIOUS
  <2>1. q # p
    BY DEF Uncounted, Overcounted, IsOp
  <2>2. pc[q] = "idle"
    BY <2>1, Solo DEF IInv, Overcounted, Counting
  <2>3. QED
    BY <2>2 DEF Uncounted, Counting
<1>2. ~Lost
  BY <1>1 DEF Lost, IInv, Typing
<1>3. PICK n \in 0 .. Capacity : \E order : IsList(n, order) /\ Balanced(n)
  BY DEF IInv, Listed
<1>4. n \in Nat /\ n <= Capacity
  BY Numbers
<1>5. header.count + n + 0 = Capacity + 1
  BY <1>1, <1>2, <1>3 DEF Balanced, Ticks
<1>6. QED
  BY <1>4, <1>5, Numbers DEF IInv, Typing

-----------------------------------------------------------------------------
(* Every action is one of the steps above.                                 *)

(* Arithmetic modulo the word never wraps here.                            *)
LEMMA WordArithmetic ==
  ASSUME NEW a \in Nat, NEW b \in Nat, a <= b
  PROVE  /\ a % (b + 1) = a
         /\ a >= 1 => (a + b) % (b + 1) = a - 1
OBVIOUS

(* The actions on calls and locks.                                         *)
LEMMA CallSteps ==
  ASSUME Typing, Control, NEW p \in Proc \ dead, UNCHANGED <<scenario, dead>>
  PROVE  /\ Begin(p) => Began(p)
         /\ LookupHit(p) => Returned(p) \/ Hit(p)
         /\ LookupMiss(p) => Returned(p) \/ Missed(p) \/ Skipped(p)
         /\ Lock(p) => Locked(p)
         /\ LockInterrupted(p) => Returned(p)
         /\ Unlock(p) => Unlocked(p)
         /\ ReadCount(p) => Returned(p)
<1>t. /\ pc \in [Proc -> PCs] /\ call \in [Proc -> Requested]
      /\ local \in [Proc -> Locals] /\ out = [q \in Proc |-> out[q]]
      /\ owner \in [Sems -> Proc \cup {NoProc}] /\ p \in Proc
      /\ call[p] \in Requested
  BY DEF Typing
<1>c. Stands(p) /\ Keyed(p)
  BY DEF Control
<1>1. Begin(p) => Began(p)
  BY <1>t DEF Begin, Began, Goto, Finish, Keeps, Own, Quiet, Shared
<1>2. LookupHit(p) => Returned(p) \/ Hit(p)
  <2> SUFFICES ASSUME LookupHit(p) PROVE Returned(p) \/ Hit(p)
    OBVIOUS
  <2>1. CASE RefusesDuplicate(p)
    BY <1>t, <2>1 DEF LookupHit, Returned, Return, Finish, Keeps, Own, Quiet, Shared,
       RefusesDuplicate, IsOp
  <2>2. CASE ~RefusesDuplicate(p)
    <3>1. IsOp(p, "find") \/ IsOp(p, "update") \/ IsOp(p, "remove")
      BY <1>c, <2>2 DEF LookupHit, RefusesDuplicate, Stands, Reading
    <3>2. QED
      BY <1>t, <2>2, <3>1 DEF LookupHit, Hit, Keeps, Own, Quiet, Shared, PK!Has,
         From, Looks, IsOp
  <2>3. QED
    BY <2>1, <2>2
<1>3. LookupMiss(p) => Returned(p) \/ Missed(p) \/ Skipped(p)
  <2> SUFFICES ASSUME LookupMiss(p) PROVE Returned(p) \/ Missed(p) \/ Skipped(p)
    OBVIOUS
  <2>1. CASE IsOp(p, "update")
    <3>1. /\ pc[p] = "lookup" /\ Quiet /\ owner' = owner
          /\ call' = [call EXCEPT ![p].keys = Tail(call[p].keys)]
          /\ IF Tail(call[p].keys) = <<>>
             THEN Return(p, Store!Updated(call[p].found))
             ELSE UNCHANGED <<pc, local, out>>
      BY <2>1 DEF LookupMiss, IsOp, KeysLeft, Quiet, Shared
    <3>2. call[p].keys # <<>> /\ Tail(call[p].keys) \in Seq(Key)
      BY <1>c, <1>t, <2>1, <3>1, KeyOfKey DEF Keyed, Typing
    <3>3. /\ call'[p] = [call[p] EXCEPT !.keys = Tail(call[p].keys)]
          /\ call'[p] \in Requested /\ call'[p].op = call[p].op
          /\ \A q \in Proc \ {p} : call'[q] = call[q]
      BY <1>t, <3>1, <3>2 DEF Requested
    <3>4. CASE Tail(call[p].keys) = <<>>
      BY <1>t, <2>1, <3>1, <3>3, <3>4 DEF Returned, Return, Finish, Keeps, Own, Reading
    <3>5. CASE Tail(call[p].keys) # <<>>
      BY <1>t, <2>1, <3>1, <3>3, <3>5 DEF Skipped, Keeps, Own, From
    <3>6. QED
      BY <3>4, <3>5
  <2>2. CASE ~IsOp(p, "update")
    BY <1>t, <2>2 DEF LookupMiss, Returned, Missed, Return, Finish, Goto, Keeps, Own,
       Quiet, Shared, From, Same, IsOp
  <2>3. QED
    BY <2>1, <2>2
<1>4. Lock(p) => Locked(p)
  <2> SUFFICES ASSUME Lock(p) PROVE Locked(p)
    OBVIOUS
  <2>1. pc[p] = "lock"
    BY DEF Lock, Goto
  <2>2. IsOp(p, "insert") \/ IsOp(p, "update") \/ IsOp(p, "remove")
    BY <1>c, <2>1 DEF Stands, Reading
  <2>3. \/ IsOp(p, "insert") /\ pc' = [pc EXCEPT ![p] = "full"]
        \/ IsOp(p, "update") /\ pc' = [pc EXCEPT ![p] = "rd_state"]
        \/ IsOp(p, "remove") /\ pc' = [pc EXCEPT ![p] = "rm_first"]
    BY <2>2 DEF Lock, Goto, IsOp
  <2>4. QED
    BY <1>t, <2>1, <2>3 DEF Lock, Locked, Own, Quiet, Shared, Same, From, Available
<1>5. LockInterrupted(p) => Returned(p)
  BY <1>t DEF LockInterrupted, Returned, Return, Finish, Keeps, Own, Quiet, Shared,
     Reading
<1>6. Unlock(p) => Unlocked(p)
  BY <1>t DEF Unlock, Unlocked, Goto, Own, Quiet, Shared, Looks, From
<1>7. ReadCount(p) => Returned(p)
  BY <1>t DEF ReadCount, Returned, Return, Finish, Keeps, Own, Quiet, Shared, Reading
<1>8. QED
  BY <1>1, <1>2, <1>3, <1>4, <1>5, <1>6, <1>7

(* The actions of insert on the free list and the counter.                 *)
LEMMA InsertSteps ==
  ASSUME IInv, Workable(scenario), NEW p \in Proc \ dead, UNCHANGED <<scenario, dead>>
  PROVE  /\ InsFull(p) => Aborted(p) \/ Entered(p)
         /\ InsFirst(p) => TookHead(p)
         /\ InsNext(p) => SawLink(p) \/ Strayed(p)
         /\ InsSetFirst(p) => Popped(p)
         /\ LoadCount(p) => SawCount(p)
         /\ StoreCount(p) => CountedUp(p) \/ CountedDown(p)
<1>t. /\ pc \in [Proc -> PCs] /\ call \in [Proc -> Requested]
      /\ local \in [Proc -> Locals] /\ out = [q \in Proc |-> out[q]]
      /\ header \in [count : 0 .. Capacity, firstFree : 0 .. Capacity]
      /\ p \in Proc /\ local[p] \in Locals
  BY DEF IInv, Typing
<1>c. Stands(p)
  BY DEF IInv, Control
<1>1. InsFull(p) => Aborted(p) \/ Entered(p)
  <2> SUFFICES ASSUME InsFull(p) PROVE Aborted(p) \/ Entered(p)
    OBVIOUS
  <2>1. pc[p] = "full" /\ IsOp(p, "insert")
    BY <1>c DEF InsFull, Stands, Reading, Writing, Counting, Freeing
  <2>2. Store!TableFull # Pending /\ Store!RecordSizeTooBig # Pending
    BY DEF Pending, Store!Pending, Store!TableFull, Store!RecordSizeTooBig
  <2>3. CASE IsFull \/ ~Fits(call[p].val)
    BY <1>t, <2>1, <2>2, <2>3 DEF InsFull, Aborted, Abort, Finish, Keeps, Own, Quiet,
       Shared
  <2>4. CASE ~IsFull /\ Fits(call[p].val)
    <3>1. header.count < Capacity
      BY <1>t, <2>4, Numbers DEF IsFull
    <3>2. QED
      BY <1>t, <2>1, <2>4, <3>1 DEF InsFull, Entered, Goto, Keeps, Own, Quiet, Shared,
         From, Same
  <2>5. QED
    BY <2>3, <2>4
<1>2. InsFirst(p) => TookHead(p)
  BY <1>t, <1>c DEF InsFirst, TookHead, Goto, Keeps, Own, Quiet, Shared, From, Looks,
     Stands, Reading, Writing, Counting, Freeing
<1>3. InsNext(p) => SawLink(p) \/ Strayed(p)
  BY <1>t, <1>c DEF InsNext, SawLink, Strayed, Goto, Keeps, Own, Quiet, Shared, From,
     Looks, Same, Stands, Reading, Writing, Counting, Freeing
<1>4. InsSetFirst(p) => Popped(p)
  BY <1>t, <1>c DEF InsSetFirst, Popped, Goto, Own, From, Same,
     Stands, Reading, Writing, Counting, Freeing
<1>5. LoadCount(p) => SawCount(p)
  BY <1>t, <1>c DEF LoadCount, SawCount, Goto, Keeps, Own, Quiet, Shared, From, Looks,
     Stands, Reading, Writing, Freeing
<1>6. StoreCount(p) => CountedUp(p) \/ CountedDown(p)
  <2> SUFFICES ASSUME StoreCount(p) PROVE CountedUp(p) \/ CountedDown(p)
    OBVIOUS
  <2>1. pc[p] = "stcount" /\ (IsOp(p, "insert") \/ IsOp(p, "remove"))
    BY <1>c DEF StoreCount, Goto, Stands, Reading, Writing, Freeing
  <2>2. CASE IsOp(p, "insert")
    <3>1. local[p].tmp = header.count /\ header.count < Capacity
      BY <2>1, <2>2 DEF IInv, Knowledge, Insertion, Counting
    <3>2. (local[p].tmp + 1) % (WordMax + 1) = local[p].tmp + 1
      <4>1. local[p].tmp + 1 \in Nat /\ local[p].tmp + 1 <= WordMax
        BY <1>t, <3>1, Numbers DEF Locals
      <4>2. QED
        BY <4>1, WordArithmetic, Numbers
    <3>3. QED
      BY <1>t, <2>1, <2>2, <3>2 DEF StoreCount, CountedUp, Goto, Own, From, Looks, IsOp
  <2>3. CASE IsOp(p, "remove")
    <3>1. local[p].tmp = header.count
      BY <2>1, <2>3 DEF IInv, Knowledge, Removal
    <3>2. header.count >= 1
      BY <2>1, <2>3, CountPositive DEF Overcounted, Counting
    <3>3. (local[p].tmp + WordMax) % (WordMax + 1) = local[p].tmp - 1
      <4>1. /\ local[p].tmp \in Nat /\ local[p].tmp <= WordMax
            /\ local[p].tmp >= 1
        BY <1>t, <3>1, <3>2, Numbers DEF Locals
      <4>2. QED
        BY <4>1, WordArithmetic, Numbers
    <3>4. ~IsOp(p, "insert")
      BY <2>3 DEF IsOp
    <3>5. QED
      BY <1>t, <2>1, <2>3, <3>3, <3>4 DEF StoreCount, CountedDown, Goto, Own, From, Same
  <2>4. QED
    BY <2>1, <2>2, <2>3
<1>7. QED
  BY <1>1, <1>2, <1>3, <1>4, <1>5, <1>6

(* Whoever writes a record is at a slot of the table.                      *)
LEMMA WriterSlot ==
  ASSUME IInv, NEW p \in Proc,
         pc[p] \in Writing \/ pc[p] \in Freeing \/ Taken(p) \/ Linked(p)
  PROVE  Idx(p) \in Indices
<1>1. Taken(p) \/ Aims(p)
  BY DEF IInv, Control, Stands, Taken, Aims, Linked, Writing, Freeing, Counting, Reading
<1>2. QED
  BY <1>1, AimedSlot DEF IInv, Apart

(* The actions that write and publish a record.                            *)
LEMMA WriteSteps ==
  ASSUME IInv, NEW p \in Proc \ dead, UNCHANGED <<scenario, dead>>
  PROVE  /\ WrState(p) => WroteState(p)
         /\ WrSize(p) => WroteSize(p)
         /\ WrLo(p) => WroteLo(p)
         /\ WrHi(p) => Filled(p) \/ Rewrote(p)
         /\ Index(p) => Indexed(p) \/ Unindexed(p) \/ Aborted(p)
<1>t. /\ pc \in [Proc -> PCs] /\ call \in [Proc -> Requested]
      /\ local \in [Proc -> Locals] /\ out = [q \in Proc |-> out[q]]
      /\ slot \in [Indices -> SlotType]
      /\ p \in Proc /\ call[p] \in Requested
  BY DEF IInv, Typing
<1>c. Stands(p) /\ Keyed(p)
  BY DEF IInv, Control
<1>i. pc[p] \in Writing => Idx(p) \in Indices /\ slot[Idx(p)] \in SlotType
  BY <1>t, WriterSlot
<1>o. pc[p] \in Writing => IsOp(p, "insert") \/ IsOp(p, "update")
  BY <1>c DEF Stands, Reading, Writing, Counting, Freeing
<1>1. WrState(p) => WroteState(p)
  BY <1>t, <1>i, <1>o DEF WrState, WroteState, Stored, Goto, Own, From, Same, Writing,
     SlotType
<1>2. WrSize(p) => WroteSize(p)
  BY <1>t, <1>i, <1>o DEF WrSize, WroteSize, Stored, Goto, Own, From, Same, Writing,
     SlotType
<1>3. WrLo(p) => WroteLo(p)
  BY <1>t, <1>i, <1>o DEF WrLo, WroteLo, Stored, Goto, Own, From, Same, Writing,
     SlotType
<1>4. WrHi(p) => Filled(p) \/ Rewrote(p)
  <2> SUFFICES ASSUME WrHi(p) PROVE Filled(p) \/ Rewrote(p)
    OBVIOUS
  <2>1. /\ pc[p] = "wr_hi" /\ pc[p] \in Writing
        /\ slot' = [slot EXCEPT ![Idx(p)].hi = local[p].hi]
        /\ header' = header /\ entries' = entries /\ owner' = owner /\ local' = local
    BY DEF WrHi, Goto, Writing
  <2>2. /\ Idx(p) \in Indices
        /\ slot'[Idx(p)] = [slot[Idx(p)] EXCEPT !.hi = local[p].hi]
        /\ \A i \in Indices \ {Idx(p)} : slot'[i] = slot[i]
    BY <1>t, <1>i, <2>1 DEF SlotType
  <2>3. CASE IsOp(p, "insert")
    <3>1. ~IsOp(p, "update")
      BY <2>3 DEF IsOp
    <3>2. QED
      BY <1>t, <2>1, <2>2, <2>3, <3>1 DEF WrHi, Filled, Stored, Goto, Own, From, Same
  <2>4. CASE IsOp(p, "update")
    <3>1. ~IsOp(p, "insert")
      BY <2>4 DEF IsOp
    <3>2. call' = [call EXCEPT ![p].keys = Tail(call[p].keys), ![p].found = @ + 1]
      BY <2>4 DEF WrHi, KeysLeft
    <3>3. /\ call'[p] = [call[p] EXCEPT !.keys = Tail(call[p].keys), !.found = @ + 1]
          /\ \A q \in Proc \ {p} : call'[q] = call[q]
      BY <1>t, <3>2 DEF Requested
    <3>4. Store!Updated(call[p].found + 1) # Pending
      BY DEF Pending, Store!Pending, Store!Updated
    <3>5. /\ \A q \in Proc \ {p} : out'[q] = out[q]
          /\ Tail(call[p].keys) = <<>> => out'[p] # Pending
      BY <1>t, <2>4, <3>4 DEF WrHi, KeysLeft, Finish
    <3>6. /\ \A q \in Proc \ {p} : pc'[q] = pc[q]
          /\ pc'[p] = "unlock"
      BY <1>t, <3>1 DEF WrHi, Goto
    <3>7. /\ pc' = [q \in Proc |-> pc'[q]] /\ call' = [q \in Proc |-> call'[q]]
          /\ local' = [q \in Proc |-> local'[q]] /\ out' = [q \in Proc |-> out'[q]]
          /\ slot' = [i \in Indices |-> slot'[i]]
      <4>1. pc' = [q \in Proc |-> pc'[q]] /\ local' = [q \in Proc |-> local'[q]]
        BY <1>t, <2>1, <3>1 DEF WrHi, Goto
      <4>2. call' = [q \in Proc |-> call'[q]]
        BY <1>t, <3>2
      <4>3. out' = [q \in Proc |-> out'[q]]
        BY <1>t, <2>4 DEF WrHi, KeysLeft, Finish
      <4>4. slot' = [i \in Indices |-> slot'[i]]
        BY <1>t, <2>1
      <4>5. QED
        BY <4>1, <4>2, <4>3, <4>4
    <3>8. QED
      BY <1>t, <2>1, <2>2, <2>4, <3>3, <3>5, <3>6, <3>7 DEF Rewrote, Stored, Own, From
  <2>5. QED
    BY <1>o, <2>1, <2>3, <2>4
<1>5. Index(p) => Indexed(p) \/ Unindexed(p) \/ Aborted(p)
  <2> SUFFICES ASSUME Index(p) PROVE Indexed(p) \/ Unindexed(p) \/ Aborted(p)
    OBVIOUS
  <2>1. pc[p] = "index" /\ (IsOp(p, "insert") \/ IsOp(p, "remove"))
    BY <1>c DEF Index, Stands, Reading, Writing, Counting, Freeing
  <2>2. Store!TableFull # Pending /\ Store!Ok # Pending
    BY DEF Pending, Store!Pending, Store!TableFull, Store!Ok
  <2>3. CASE IsOp(p, "remove")
    BY <1>t, <2>1, <2>2, <2>3 DEF Index, Unindexed, Abort, Finish, Own, From
  <2>4. CASE IsOp(p, "insert") /\ PK!Total(entries) < Capacity
    <3>1. ~IsOp(p, "remove")
      BY <2>4 DEF IsOp
    <3>2. QED
      BY <1>t, <2>1, <2>2, <2>4, <3>1 DEF Index, Indexed, Abort, Finish, Own, From,
         InsertedAt
  <2>5. CASE IsOp(p, "insert") /\ ~(PK!Total(entries) < Capacity)
    <3>1. ~IsOp(p, "remove")
      BY <2>5 DEF IsOp
    <3>2. QED
      BY <1>t, <2>1, <2>2, <2>5, <3>1 DEF Index, Aborted, Abort, Finish, Keeps, Own,
         Quiet
  <2>6. QED
    BY <2>1, <2>3, <2>4, <2>5
<1>6. QED
  BY <1>1, <1>2, <1>3, <1>4, <1>5

(* The actions that read a record.                                         *)
LEMMA ReadSteps ==
  ASSUME Typing, Control, NEW p \in Proc \ dead, UNCHANGED <<scenario, dead>>
  PROVE  /\ RdState(p) => Returned(p) \/ Aborted(p) \/ SawState(p)
         /\ RdSize(p) => SawSize(p)
         /\ RdLo(p) => Returned(p) \/ Aborted(p) \/ SawLo(p)
         /\ RdHi(p) => Returned(p) \/ Aborted(p) \/ Passes(p) \/ Applied(p)
<1>t. /\ pc \in [Proc -> PCs] /\ call \in [Proc -> Requested]
      /\ local \in [Proc -> Locals] /\ out = [q \in Proc |-> out[q]]
      /\ p \in Proc /\ call[p] \in Requested /\ local[p] \in Locals
  BY DEF Typing
<1>o. pc[p] \in Reading => IsOp(p, "find") \/ IsOp(p, "update") \/ IsOp(p, "iter")
  BY DEF Control, Stands, Reading, Writing, Counting, Freeing
<1>r. ASSUME pc[p] \in Reading, Undecodable(p), UNCHANGED <<Shared, owner, call>>
      PROVE  Returned(p) \/ Aborted(p)
  <2>1. CASE IsOp(p, "find")
    BY <1>r, <1>t, <2>1 DEF Undecodable, Returned, Return, Finish, Keeps, Own, Quiet,
       Shared, IsOp
  <2>2. CASE IsOp(p, "iter")
    BY <1>r, <1>t, <2>2 DEF Undecodable, Returned, ReturnSeen, Return, Finish, Keeps,
       Own, Quiet, Shared, IsOp
  <2>3. CASE IsOp(p, "update")
    <3>1. Abort(p, [kind |-> "undecodable"]) /\ UNCHANGED local
      BY <1>r, <2>3 DEF Undecodable, IsOp
    <3>2. [kind |-> "undecodable"] # Pending
      BY DEF Pending, Store!Pending
    <3>3. QED
      BY <1>r, <1>t, <2>3, <3>1, <3>2 DEF Aborted, Abort, Finish, Keeps, Own, Quiet,
         Shared
  <2>4. QED
    BY <1>r, <1>o, <2>1, <2>2, <2>3
<1>1. RdState(p) => Returned(p) \/ Aborted(p) \/ SawState(p)
  <2> SUFFICES ASSUME RdState(p) PROVE Returned(p) \/ Aborted(p) \/ SawState(p)
    OBVIOUS
  <2>1. pc[p] \in Reading /\ UNCHANGED <<Shared, owner, call>>
    BY DEF RdState, Reading
  <2>2. CASE slot[Idx(p)].state = "Free"
    BY <1>r, <2>1, <2>2 DEF RdState
  <2>3. CASE slot[Idx(p)].state # "Free"
    BY <1>t, <2>1, <2>3 DEF RdState, SawState, Goto, Keeps, Own, Quiet, Shared, From,
       Same
  <2>4. QED
    BY <2>2, <2>3
<1>2. RdSize(p) => SawSize(p)
  BY <1>t DEF RdSize, SawSize, Goto, Keeps, Own, Quiet, Shared, From, Looks
<1>3. RdLo(p) => Returned(p) \/ Aborted(p) \/ SawLo(p)
  <2> SUFFICES ASSUME RdLo(p) PROVE Returned(p) \/ Aborted(p) \/ SawLo(p)
    OBVIOUS
  <2>1. pc[p] \in Reading /\ UNCHANGED <<Shared, owner, call>>
    BY DEF RdLo, Reading
  <2>2. CASE local[p].tmp < LenOf(slot[Idx(p)].lo.val)
    BY <1>r, <2>1, <2>2 DEF RdLo
  <2>3. CASE ~(local[p].tmp < LenOf(slot[Idx(p)].lo.val))
    BY <1>t, <2>1, <2>3 DEF RdLo, SawLo, Goto, Keeps, Own, Quiet, Shared, From, Looks,
       Locals
  <2>4. QED
    BY <2>2, <2>3
<1>4. RdHi(p) => Returned(p) \/ Aborted(p) \/ Passes(p) \/ Applied(p)
  <2> SUFFICES ASSUME RdHi(p)
               PROVE  Returned(p) \/ Aborted(p) \/ Passes(p) \/ Applied(p)
    OBVIOUS
  <2>1. pc[p] = "rd_hi" /\ pc[p] \in Reading /\ UNCHANGED <<Shared, owner, call>>
    BY DEF RdHi, Reading
  <2>2. CASE IsOp(p, "find")
    BY <1>t, <2>1, <2>2 DEF RdHi, Returned, Return, Finish, Keeps, Own, Quiet, Shared,
       IsOp
  <2>3. CASE IsOp(p, "iter")
    <3>1. ~IsOp(p, "find")
      BY <2>3 DEF IsOp
    <3>2. QED
      BY <1>t, <2>1, <2>3, <3>1 DEF RdHi, Passes, Goto, Keeps, Own, Quiet, Shared,
         From, Looks, Idx, Locals
  <2>4. CASE IsOp(p, "update")
    <3>1. ~IsOp(p, "find") /\ ~IsOp(p, "iter")
      BY <2>4 DEF IsOp
    <3>2. Store!RecordSizeTooBig # Pending
      BY DEF Pending, Store!Pending, Store!RecordSizeTooBig
    <3>3. CASE Fits(local[p].lo.val + 1)
      BY <1>t, <2>1, <2>4, <3>1, <3>3 DEF RdHi, Applied, Goto, Keeps, Own, Quiet,
         Shared, From, Looks, Locals
    <3>4. CASE ~Fits(local[p].lo.val + 1)
      BY <1>t, <2>1, <2>4, <3>1, <3>2, <3>4 DEF RdHi, Aborted, Abort, Finish, Keeps,
         Own, Quiet, Shared
    <3>5. QED
      BY <3>3, <3>4
  <2>5. QED
    BY <1>o, <2>1, <2>2, <2>3, <2>4
<1>5. QED
  BY <1>1, <1>2, <1>3, <1>4

(* The actions of an iterator and of remove.                               *)
LEMMA OtherSteps ==
  ASSUME IInv, NEW p \in Proc \ dead, UNCHANGED <<scenario, dead>>
  PROVE  /\ IterTest(p) => Returned(p) \/ Tested(p)
         /\ IterSkip(p) => Overran(p) \/ Stepped(p) \/ Stopped(p)
         /\ RmFirst(p) => SawFirst(p)
         /\ RmState(p) => WroteFree(p)
         /\ RmSize(p) => WroteLink(p)
         /\ RmSetFirst(p) => Pushed(p)
<1>t. /\ pc \in [Proc -> PCs] /\ call \in [Proc -> Requested]
      /\ local \in [Proc -> Locals] /\ out = [q \in Proc |-> out[q]]
      /\ slot \in [Indices -> SlotType]
      /\ header \in [count : 0 .. Capacity, firstFree : 0 .. Capacity]
      /\ p \in Proc /\ call[p] \in Requested /\ local[p] \in Locals
  BY DEF IInv, Typing
<1>c. Stands(p)
  BY DEF IInv, Control
<1>i. pc[p] \in Freeing => /\ Idx(p) \in Indices /\ slot[Idx(p)] \in SlotType
                           /\ IsOp(p, "remove")
  BY <1>t, <1>c, WriterSlot DEF Stands, Reading, Writing, Counting, Freeing
<1>o. pc[p] \in {"it_test", "it_skip"} => IsOp(p, "iter")
  BY <1>c DEF Stands, Reading, Writing, Counting, Freeing
<1>1. IterTest(p) => Returned(p) \/ Tested(p)
  <2> SUFFICES ASSUME IterTest(p) PROVE Returned(p) \/ Tested(p)
    OBVIOUS
  <2>1. pc[p] = "it_test" /\ IsOp(p, "iter") /\ ~IsOp(p, "update")
    BY <1>o DEF IterTest, IsOp
  <2>2. CASE Len(local[p].seen) >= header.count
    BY <1>t, <2>1, <2>2 DEF IterTest, Returned, ReturnSeen, Return, Finish, Keeps, Own,
       Quiet, Shared
  <2>3. CASE ~(Len(local[p].seen) >= header.count)
    <3>1. Len(local[p].seen) < header.count
      BY <1>t, <2>3 DEF Locals
    <3>2. QED
      BY <1>t, <2>1, <2>3, <3>1 DEF IterTest, Tested, Goto, Keeps, Own, Quiet, Shared,
         From, Same
  <2>4. QED
    BY <2>2, <2>3
<1>2. IterSkip(p) => Overran(p) \/ Stepped(p) \/ Stopped(p)
  <2> SUFFICES ASSUME IterSkip(p) PROVE Overran(p) \/ Stepped(p) \/ Stopped(p)
    OBVIOUS
  <2>1. pc[p] = "it_skip" /\ IsOp(p, "iter")
    BY <1>o DEF IterSkip
  <2>2. CASE Idx(p) \notin Indices
    BY <1>t, <2>1, <2>2 DEF IterSkip, Overran, Goto, Keeps, Own, Quiet, Shared, From,
       Same
  <2>3. CASE Idx(p) \in Indices /\ slot[Idx(p)].state = "Free"
    BY <1>t, <2>1, <2>3 DEF IterSkip, Stepped, Keeps, Own, Quiet, Shared, From, Looks,
       Idx, Locals
  <2>4. CASE Idx(p) \in Indices /\ slot[Idx(p)].state # "Free"
    BY <1>t, <2>1, <2>4 DEF IterSkip, Stopped, Goto, Keeps, Own, Quiet, Shared, From,
       Same
  <2>5. QED
    BY <2>2, <2>3, <2>4
<1>3. RmFirst(p) => SawFirst(p)
  BY <1>t, <1>i DEF RmFirst, SawFirst, Goto, Keeps, Own, Quiet, Shared, From, Looks,
     Freeing
<1>4. RmState(p) => WroteFree(p)
  BY <1>t, <1>i DEF RmState, WroteFree, Stored, Goto, Own, From, Same, Freeing, SlotType
<1>5. RmSize(p) => WroteLink(p)
  BY <1>t, <1>i DEF RmSize, WroteLink, Stored, Goto, Own, From, Same, Freeing, SlotType
<1>6. RmSetFirst(p) => Pushed(p)
  BY <1>t, <1>i DEF RmSetFirst, Pushed, Goto, Own, From, Same, Freeing
<1>7. QED
  BY <1>1, <1>2, <1>3, <1>4, <1>5, <1>6

(* Together: a step of the table moves one process, or one dies.           *)
LEMMA NextSteps ==
  ASSUME IInv, Workable(scenario), [Next]_vars
  PROVE  \/ \E p \in Proc \ dead : Moves(p) \/ Crashed(p)
         \/ UNCHANGED vars
<1> SUFFICES ASSUME Next PROVE \E p \in Proc \ dead : Moves(p) \/ Crashed(p)
  OBVIOUS
<1>1. PICK p \in Proc \ dead :
        \/ (Begin(p) \/ Step(p) \/ LockInterrupted(p)) /\ UNCHANGED <<scenario, dead>>
        \/ Crash(p)
  BY DEF Next
<1>2. CASE Crash(p)
  BY <1>2 DEF Crash, Crashed, Quiet, Shared
<1>3. CASE /\ Begin(p) \/ Step(p) \/ LockInterrupted(p)
           /\ UNCHANGED <<scenario, dead>>
  <2>1. Typing /\ Control /\ UNCHANGED <<scenario, dead>>
    BY <1>3 DEF IInv
  <2>2. CASE \/ Begin(p) \/ LockInterrupted(p) \/ LookupHit(p) \/ LookupMiss(p)
             \/ Lock(p) \/ Unlock(p) \/ ReadCount(p)
    BY <2>1, <2>2, CallSteps DEF Moves, Private
  <2>3. CASE \/ InsFull(p) \/ InsFirst(p) \/ InsNext(p) \/ InsSetFirst(p)
             \/ LoadCount(p) \/ StoreCount(p)
    BY <2>1, <2>3, InsertSteps DEF Moves, Private, Heading
  <2>4. CASE WrState(p) \/ WrSize(p) \/ WrLo(p) \/ WrHi(p) \/ Index(p)
    BY <2>1, <2>4, WriteSteps DEF Moves, Private, Storing, Indexing
  <2>5. CASE RdState(p) \/ RdSize(p) \/ RdLo(p) \/ RdHi(p)
    BY <2>1, <2>5, ReadSteps DEF Moves, Private
  <2>6. CASE \/ IterTest(p) \/ IterSkip(p)
             \/ RmFirst(p) \/ RmState(p) \/ RmSize(p) \/ RmSetFirst(p)
    BY <2>1, <2>6, OtherSteps DEF Moves, Private, Storing, Heading
  <2>7. QED
    BY <1>3, <2>2, <2>3, <2>4, <2>5, <2>6 DEF Step
<1>4. QED
  BY <1>1, <1>2, <1>3

-----------------------------------------------------------------------------
(* What all steps have in common.                                          *)

(* A step leaves the other processes as they are and the shared memory but *)
(* for one part of it.                                                     *)
LEMMA MovesOwn ==
  ASSUME NEW p \in Proc, Moves(p)
  PROVE  /\ Own(p)
         /\ owner' = owner \/ Locked(p) \/ Unlocked(p)
         /\ Private(p) => Quiet
         /\ Heading(p) => slot' = slot /\ entries' = entries
         /\ Storing(p) => header' = header /\ entries' = entries
         /\ Indexing(p) => header' = header /\ slot' = slot
<1>1. Private(p) => Own(p) /\ Quiet /\ (owner' = owner \/ Locked(p) \/ Unlocked(p))
  BY DEF Private, Keeps, Began, Returned, Hit, Missed, Skipped, Locked, Unlocked,
     Aborted, Entered, TookHead, SawLink, Strayed, SawCount, SawState, SawSize, SawLo,
     Passes, Applied, Tested, Stepped, Stopped, Overran, SawFirst
<1>2. Heading(p) => Own(p) /\ owner' = owner /\ slot' = slot /\ entries' = entries
  BY DEF Heading, Popped, CountedUp, CountedDown, Pushed
<1>3. Storing(p) => Own(p) /\ owner' = owner /\ header' = header /\ entries' = entries
  BY DEF Storing, Stored, WroteState, WroteSize, WroteLo, Filled, Rewrote, WroteFree,
     WroteLink
<1>4. Indexing(p) => Own(p) /\ owner' = owner /\ header' = header /\ slot' = slot
  BY DEF Indexing, Indexed, Unindexed
<1>5. QED
  BY <1>1, <1>2, <1>3, <1>4 DEF Moves

(* Whoever has a taken slot finds room in the index.                       *)
LEMMA IndexRoom ==
  ASSUME IInv, NEW p \in Proc, Taken(p)
  PROVE  PK!Total(entries) < Capacity
<1> DEFINE pairs == UNION {{k} \X DOMAIN entries[k] : k \in DOMAIN entries}
           lead == [x \in pairs |-> entries[x[1]][x[2]]]
           rest == Indices \ {Idx(p)}
<1>1. DOMAIN entries = Key /\ Idx(p) \in Indices \ Published
  BY DEF IInv, Typing, Apart
<1>2. ASSUME NEW x \in pairs
      PROVE  /\ x[1] \in Key /\ x[2] \in DOMAIN entries[x[1]]
             /\ x = <<x[1], x[2]>>
             /\ lead[x] \in rest
  <2>1. PICK k \in Key : x \in {k} \X DOMAIN entries[k]
    BY <1>1
  <2>2. x[1] = k /\ x[2] \in DOMAIN entries[k] /\ x = <<x[1], x[2]>>
    BY <2>1
  <2>3. entries[k][x[2]] \in Published
    BY <2>2, PublishedSlots DEF IInv
  <2>4. entries[k][x[2]] \in rest
    BY <1>1, <2>3, PublishedSlots DEF IInv
  <2>5. QED
    BY <2>2, <2>4
<1>3. ASSUME NEW x \in pairs, NEW y \in pairs, lead[x] = lead[y]
      PROVE  x = y
  <2>1. entries[x[1]][x[2]] = entries[y[1]][y[2]]
    BY <1>3
  <2>2. /\ x[1] \in Key /\ x[2] \in DOMAIN entries[x[1]] /\ x = <<x[1], x[2]>>
        /\ y[1] \in Key /\ y[2] \in DOMAIN entries[y[1]] /\ y = <<y[1], y[2]>>
    BY <1>2
  <2>3. x[1] = y[1] /\ x[2] = y[2]
    <3> HIDE DEF lead, pairs
    <3>1. QED
      BY <2>1, <2>2 DEF IInv, Distinct
  <2>4. QED
    BY <2>2, <2>3
<1>4. lead \in Injection(pairs, rest)
  BY <1>2, <1>3 DEF Injection, IsInjective
<1>5. IsFiniteSet(rest) /\ Cardinality(rest) = Capacity - 1
  BY <1>1, Numbers, FS_RemoveElement
<1>6. Cardinality(pairs) <= Capacity - 1 /\ IsFiniteSet(pairs)
  <2> HIDE DEF lead, pairs, rest
  <2>1. QED
    BY <1>4, <1>5, FS_Injection
<1>7. Cardinality(pairs) \in Nat
  <2> HIDE DEF pairs
  <2>1. QED
    BY <1>6, FS_CardinalityType
<1>8. PK!Total(entries) = Cardinality(pairs)
  BY DEF PK!Total, PK!Cardinality, Cardinality
<1>9. QED
  <2> HIDE DEF lead, pairs, rest
  <2>1. QED
    BY <1>6, <1>7, <1>8, Numbers

(* A step that changes nothing shared leaves everybody's slot where it is. *)
LEMMA PrivateWays ==
  ASSUME IInv, NEW p \in Proc, Private(p)
  PROVE  /\ Quiet /\ Own(p)
         /\ \A q \in Proc :
              /\ Taken(q)' <=> Taken(q)
              /\ Linked(q)' <=> Linked(q)
              /\ Uncounted(q)' <=> Uncounted(q)
              /\ Overcounted(q)' <=> Overcounted(q)
              /\ Freed(q)' <=> Freed(q)
              /\ Rewriting(q)' <=> Rewriting(q)
              /\ Taken(q) \/ Linked(q) \/ Freed(q) \/ Rewriting(q) => Idx(q)' = Idx(q)
<1>1. Quiet /\ Own(p)
  BY MovesOwn DEF Moves
<1>t. local[p] \in Locals
  BY DEF IInv, Typing
<1>c. Stands(p)
  BY DEF IInv, Control
<1>2. /\ Taken(p)' <=> Taken(p)
      /\ Linked(p)' <=> Linked(p)
      /\ Uncounted(p)' <=> Uncounted(p)
      /\ Overcounted(p)' <=> Overcounted(p)
      /\ Freed(p)' <=> Freed(p)
      /\ Rewriting(p)' <=> Rewriting(p)
      /\ Taken(p) \/ Linked(p) \/ Freed(p) \/ Rewriting(p) => Idx(p)' = Idx(p)
  <2> USE DEF Taken, Linked, Uncounted, Overcounted, Freed, Rewriting, IsOp, Idx,
          Counting, Writing, Reading
  <2>1. CASE Began(p) \/ Returned(p) \/ Hit(p) \/ Missed(p) \/ Skipped(p)
    BY <2>1, <1>c DEF Began, Returned, Hit, Missed, Skipped, From, Same, Looks,
       Stands
  <2>2. CASE Locked(p) \/ Unlocked(p)
    BY <2>2 DEF Locked, Unlocked, From, Same, Looks
  <2>3. CASE Aborted(p)
    <3>1. ~(IsOp(p, "insert") /\ pc[p] = "index")
      BY <2>3, IndexRoom DEF Aborted
    <3>2. QED
      BY <2>3, <3>1 DEF Aborted
  <2>4. CASE Entered(p) \/ TookHead(p) \/ SawLink(p) \/ Strayed(p) \/ SawCount(p)
    BY <2>4, <1>t DEF Entered, TookHead, SawLink, Strayed, SawCount, From, Same, Looks,
       Locals
  <2>5. CASE SawState(p) \/ SawSize(p) \/ SawLo(p) \/ Passes(p) \/ Applied(p)
    BY <2>5, <1>t DEF SawState, SawSize, SawLo, Passes, Applied, From, Same, Looks
  <2>6. CASE Tested(p) \/ Stepped(p) \/ Stopped(p) \/ Overran(p) \/ SawFirst(p)
    BY <2>6, <1>t DEF Tested, Stepped, Stopped, Overran, SawFirst, From, Same, Looks,
       Freeing
  <2>7. QED
    BY <2>1, <2>2, <2>3, <2>4, <2>5, <2>6 DEF Private
<1>3. \A q \in Proc \ {p} : pc'[q] = pc[q] /\ call'[q] = call[q] /\ local'[q] = local[q]
  BY <1>1 DEF Own
<1>4. QED
  BY <1>1, <1>2, <1>3
  DEF Taken, Linked, Uncounted, Overcounted, Freed, Rewriting, IsOp, Idx

-----------------------------------------------------------------------------
(* The types.                                                              *)

(* The first slot of the list links to the second, or to the end mark.     *)
LEMMA HeadOfList ==
  ASSUME Typing, NEW n \in Nat, NEW order, IsList(n, order),
         header.firstFree \in Indices
  PROVE  /\ n >= 1 /\ order[1] = header.firstFree
         /\ slot[header.firstFree].state = "Free"
         /\ slot[header.firstFree].size = order[2] /\ order[2] \in 0 .. Capacity
<1>1. n # 0
  BY Numbers DEF IsList
<1>2. 1 \in 1 .. n /\ 2 \in 1 .. n + 1
  BY <1>1
<1>3. QED
  BY <1>1, <1>2 DEF IsList

(* Lists have a natural number of slots.                                   *)
LEMMA PickList ==
  ASSUME IInv
  PROVE  \E n \in Nat : \E order :
           /\ IsList(n, order) /\ Balanced(n)
           /\ \A i \in Indices : Off(i) <=> \A j \in 1 .. n : order[j] # i
BY Numbers DEF IInv, Listed

(* An insertion's slot and the next, before it is taken.                   *)
LEMMA HeadSeen ==
  ASSUME IInv, NEW p \in Proc \ dead, IsOp(p, "insert"), pc[p] = "setfirst"
  PROVE  /\ Idx(p) = header.firstFree /\ Idx(p) \in Indices
         /\ local[p].tmp = slot[Idx(p)].size
         /\ local[p].tmp \in 0 .. Capacity
         /\ ~Off(Idx(p))
<1>1. /\ Idx(p) = header.firstFree /\ Idx(p) \in Indices
      /\ local[p].tmp = slot[Idx(p)].size
  BY DEF IInv, Knowledge, Insertion
<1>n. PICK n \in Nat : \E order :
        /\ IsList(n, order)
        /\ \A i \in Indices : Off(i) <=> \A j \in 1 .. n : order[j] # i
  BY PickList
<1>2. PICK order :
        /\ IsList(n, order)
        /\ \A i \in Indices : Off(i) <=> \A j \in 1 .. n : order[j] # i
  BY <1>n
<1>3. n >= 1 /\ order[1] = Idx(p) /\ local[p].tmp \in 0 .. Capacity
  BY <1>1, <1>2, HeadOfList DEF IInv
<1>4. ~Off(Idx(p))
  BY <1>1, <1>2, <1>3
<1>5. QED
  BY <1>1, <1>3, <1>4

(* A record an update has read whole may be written back.                  *)
LEMMA ReadRecord ==
  ASSUME IInv, NEW p \in Proc \ dead, IsOp(p, "update"), pc[p] = "rd_hi"
  PROVE  /\ Idx(p) \in Indices /\ local[p].lo = slot[Idx(p)].lo
         /\ local[p].lo.key = KeyOf(p) /\ slot[Idx(p)].hi.key = KeyOf(p)
         /\ slot[Idx(p)].hi.val <= local[p].lo.val
         /\ Recorded(KeyOf(p), Idx(p))
<1>1. Aims(p)
  BY DEF Aims, Reading
<1>2. /\ KeyOf(p) \in Key /\ 1 \in DOMAIN entries[KeyOf(p)]
      /\ entries[KeyOf(p)][1] = Idx(p) /\ Idx(p) \in Indices
  BY <1>1, AimedSlot DEF IInv
<1>3. Recorded(KeyOf(p), Idx(p))
  BY <1>2 DEF IInv, Contents
<1>4. local[p].lo = slot[Idx(p)].lo
  BY DEF IInv, Knowledge, Revision
<1>5. QED
  BY <1>2, <1>3, <1>4 DEF Recorded

(* After a step every process is at a step of a call.                      *)
LEMMA CallTyping ==
  ASSUME IInv, NEW p \in Proc \ dead, Moves(p)
  PROVE  /\ pc' \in [Proc -> PCs] /\ call' \in [Proc -> Requested]
         /\ out' = [q \in Proc |-> out'[q]]
<1>o. Own(p)
  BY MovesOwn
<1>t. /\ pc \in [Proc -> PCs] /\ call \in [Proc -> Requested] /\ p \in Proc
      /\ call[p] \in Requested
  BY DEF IInv, Typing
<1>1. pc'[p] \in PCs
  <2>1. CASE Private(p)
    BY <2>1 DEF Private, PCs, From, Began, Returned, Hit, Missed, Skipped, Locked,
       Unlocked, Aborted, Entered, TookHead, SawLink, Strayed, SawCount, SawState,
       SawSize, SawLo, Passes, Applied, Tested, Stepped, Stopped, Overran, SawFirst
  <2>2. CASE Heading(p) \/ Storing(p) \/ Indexing(p)
    BY <2>2 DEF Heading, Storing, Indexing, PCs, From, Popped, CountedUp, CountedDown,
       Pushed, WroteState, WroteSize, WroteLo, Filled, Rewrote, WroteFree, WroteLink,
       Indexed, Unindexed
  <2>3. QED
    BY <2>1, <2>2 DEF Moves
<1>2. call'[p] \in Requested
  <2>1. CASE Began(p)
    <3>1. PICK c \in scenario.calls[p] : call'[p] = c
      BY <2>1 DEF Began
    <3>2. IsRequest(c)
      BY <1>t, <3>1, TableAssumption DEF IInv, Typing
    <3>3. QED
      BY <3>1, <3>2 DEF IsRequest, Requested, Ops
  <2>2. CASE Skipped(p) \/ Rewrote(p)
    <3>1. call[p].keys # <<>>
      BY <2>2 DEF IInv, Control, Keyed, Skipped, Rewrote, From
    <3>2. Tail(call[p].keys) \in Seq(Key)
      BY <3>1, KeyOfKey DEF IInv
    <3>3. QED
      <4>1. CASE Skipped(p)
        BY <1>t, <3>2, <4>1 DEF Skipped, Requested
      <4>2. CASE Rewrote(p)
        <5>1. call[p].found + 1 \in Nat
          BY <1>t DEF Requested
        <5>2. call'[p] = [op |-> call[p].op, keys |-> Tail(call[p].keys),
                          val |-> call[p].val, found |-> call[p].found + 1]
          BY <1>t, <4>2 DEF Rewrote, Requested
        <5>3. QED
          BY <1>t, <3>2, <5>1, <5>2 DEF Requested
      <4>3. QED
        BY <2>2, <4>1, <4>2
  <2>3. CASE ~Began(p) /\ ~Skipped(p) /\ ~Rewrote(p)
    <3>1. CASE Private(p)
      BY <1>t, <2>3, <3>1 DEF Private, Same, Looks, Returned, Hit, Missed, Locked,
         Unlocked, Aborted, Entered, TookHead, SawLink, Strayed, SawCount, SawState,
         SawSize, SawLo, Passes, Applied, Tested, Stepped, Stopped, Overran, SawFirst
    <3>2. CASE Heading(p) \/ Storing(p) \/ Indexing(p)
      BY <1>t, <2>3, <3>2 DEF Heading, Storing, Indexing, Same, Looks, Popped,
         CountedUp, CountedDown, Pushed, WroteState, WroteSize, WroteLo, Filled,
         WroteFree, WroteLink, Indexed, Unindexed
    <3>3. QED
      BY <3>1, <3>2 DEF Moves
  <2>4. QED
    BY <2>1, <2>2, <2>3
<1>3. QED
  BY <1>o, <1>t, <1>1, <1>2 DEF Own

(* Loaded values are values of the local variables.                        *)
LEMMA LocalsFields ==
  ASSUME NEW l \in Locals, NEW i \in 0 .. Capacity, NEW t \in Nat,
         NEW v \in Words, NEW w \in Words, NEW s \in Seq(Key)
  PROVE  /\ [l EXCEPT !.tmp = t, !.lo = v] \in Locals
         /\ [l EXCEPT !.lo = v, !.hi = w] \in Locals
         /\ [l EXCEPT !.tmp = t, !.lo = v, !.hi = w] \in Locals
         /\ [l EXCEPT !.seen = s, !.idx = i] \in Locals
<1>1. [l EXCEPT !.tmp = t, !.lo = v] \in Locals
  BY DEF Locals
<1>2. [l EXCEPT !.lo = v, !.hi = w] \in Locals
  BY DEF Locals
<1>3. [l EXCEPT !.tmp = t, !.lo = v, !.hi = w] \in Locals
  BY DEF Locals
<1>4. [l EXCEPT !.seen = s, !.idx = i] \in Locals
  BY DEF Locals
<1>5. QED
  BY <1>1, <1>2, <1>3, <1>4

(* After a step the local variables keep their types.                      *)
LEMMA LocalTyping ==
  ASSUME IInv, NEW p \in Proc \ dead, Moves(p)
  PROVE  local' \in [Proc -> Locals]
<1>o. Own(p)
  BY MovesOwn
<1>t. /\ local \in [Proc -> Locals] /\ p \in Proc /\ local[p] \in Locals
      /\ header.count \in Nat /\ header.firstFree \in 0 .. Capacity
      /\ slot \in [Indices -> SlotType]
  BY Numbers DEF IInv, Typing
<1>n. NoLocals \in Locals
  BY Numbers DEF NoLocals, Locals, Words, Zero, Word
<1>1. local'[p] \in Locals
  <2>1. CASE Returned(p) \/ Unlocked(p)
    BY <1>n, <2>1 DEF Returned, Unlocked, Looks
  <2>2. CASE Hit(p)
    <3>1. call[p].keys # <<>>
      BY <2>2 DEF Hit, IInv, Control, Keyed, From
    <3>2. entries[KeyOf(p)] \in Seq(Indices) /\ entries[KeyOf(p)] # <<>>
      BY <2>2, <3>1, KeyOfKey DEF Hit, IInv, Typing
    <3>3. Head(entries[KeyOf(p)]) \in 0 .. Capacity
      <4>1. Head(entries[KeyOf(p)]) \in Indices
        BY <3>2
      <4>2. QED
        BY <4>1, Numbers
    <3>4. QED
      BY <1>t, <2>2, <3>3 DEF Hit, Looks, Locals
  <2>3. CASE TookHead(p)
    BY <1>t, <2>3 DEF TookHead, Looks, Locals
  <2>4. CASE SawLink(p)
    BY <1>t, <2>4 DEF SawLink, Looks, Locals, SlotType
  <2>5. CASE SawCount(p)
    BY <1>t, <2>5 DEF SawCount, Looks, Locals
  <2>6. CASE SawSize(p) \/ SawLo(p)
    <3>1. Idx(p) \in Indices
      <4>1. Aims(p) \/ (IsOp(p, "iter") /\ pc[p] \in Reading)
        BY <2>6 DEF SawSize, SawLo, From, IInv, Control, Stands, Aims, Reading, Writing,
           Counting, Freeing
      <4>2. QED
        BY <4>1, AimedSlot DEF IInv, Knowledge, Iteration
    <3>2. slot[Idx(p)] \in SlotType
      BY <1>t, <3>1
    <3>3. CASE SawSize(p)
      BY <1>t, <3>2, <3>3 DEF SawSize, Looks, Locals, SlotType
    <3>4. CASE SawLo(p)
      <4>1. slot[Idx(p)].lo \in Words
        BY <3>2 DEF SlotType
      <4>2. local'[p] = [local[p] EXCEPT !.tmp = 0, !.lo = slot[Idx(p)].lo]
        BY <3>4 DEF SawLo, Looks
      <4>3. [local[p] EXCEPT !.tmp = 0, !.lo = slot[Idx(p)].lo] \in Locals
        BY <1>t, <4>1, LocalsFields DEF Locals
      <4>4. QED
        BY <4>2, <4>3
    <3>5. QED
      BY <2>6, <3>3, <3>4
  <2>7. CASE Passes(p)
    <3>1. Idx(p) \in Indices /\ local[p].lo.key \in Key
      BY <2>7 DEF Passes, From, IInv, Knowledge, Iteration, Reading
    <3>2. Idx(p) + 1 \in 0 .. Capacity
      BY <3>1, Numbers DEF Indices
    <3>3. QED
      <4>1. Append(local[p].seen, local[p].lo.key) \in Seq(Key)
        BY <1>t, <3>1 DEF Locals
      <4>2. [local[p] EXCEPT !.seen = Append(local[p].seen, local[p].lo.key),
                             !.idx = Idx(p) + 1] \in Locals
        BY <1>t, <3>2, <4>1, LocalsFields DEF Locals
      <4>3. QED
        BY <2>7, <4>2 DEF Passes, Looks
  <2>8. CASE Stepped(p)
    <3>1. Idx(p) + 1 \in 0 .. Capacity
      BY <2>8, Numbers DEF Stepped, Indices
    <3>2. QED
      BY <1>t, <2>8, <3>1 DEF Stepped, Looks, Locals
  <2>9. CASE Applied(p)
    <3>1. /\ slot[Idx(p)].hi.val <= local[p].lo.val
          /\ Idx(p) \in Indices
      BY <2>9, ReadRecord DEF Applied, From
    <3>2. slot[Idx(p)].hi \in Words /\ local[p].lo \in Words
      BY <1>t, <3>1 DEF SlotType, Locals
    <3>3. local[p].lo.val + 1 <= MaxFit
      BY <2>9 DEF Applied, Fits
    <3>4. /\ Word(local[p].lo.key, local[p].lo.val + 1) \in Words
          /\ Word(slot[Idx(p)].hi.key, slot[Idx(p)].hi.val + 1) \in Words
      BY <3>1, <3>2, <3>3, Numbers DEF Word, Words
    <3>5. QED
      <4>1. [local[p] EXCEPT
                !.lo = Word(local[p].lo.key, local[p].lo.val + 1),
                !.hi = Word(slot[Idx(p)].hi.key, slot[Idx(p)].hi.val + 1)] \in Locals
        BY <1>t, <3>4, LocalsFields DEF Locals
      <4>2. QED
        BY <2>9, <4>1 DEF Applied, Looks
  <2>10. CASE SawFirst(p)
    <3>1. header.firstFree \in Nat
      BY <1>t, Numbers
    <3>2. QED
      BY <1>t, <2>10, <3>1 DEF SawFirst, Looks, Locals
  <2>11. CASE CountedUp(p)
    <3>1. call[p].keys # <<>>
      BY <2>11 DEF CountedUp, IInv, Control, Keyed, From
    <3>2. KeyOf(p) \in Key /\ call[p].val \in Nat
      BY <3>1, KeyOfKey DEF IInv, Typing, Requested
    <3>3. call[p].val <= MaxFit
      BY <2>11 DEF CountedUp, From, IInv, Knowledge, Insertion, Fits, Counting
    <3>4. Word(KeyOf(p), call[p].val) \in Words
      BY <3>2, <3>3, Numbers DEF Word, Words
    <3>5. QED
      <4> DEFINE w == Word(KeyOf(p), call[p].val)
      <4>1. [local[p] EXCEPT !.tmp = 0, !.lo = w, !.hi = w] \in Locals
        BY <1>t, <3>4, LocalsFields DEF Locals
      <4>2. QED
        BY <2>11, <4>1 DEF CountedUp, Looks
  <2>12. CASE local'[p] = local[p]
    BY <1>t, <2>12
  <2>13. \/ Returned(p) \/ Unlocked(p) \/ Hit(p) \/ TookHead(p) \/ SawLink(p)
         \/ SawCount(p) \/ SawSize(p) \/ SawLo(p) \/ Passes(p) \/ Stepped(p)
         \/ Applied(p) \/ SawFirst(p) \/ CountedUp(p) \/ local'[p] = local[p]
    BY DEF Moves, Private, Heading, Storing, Indexing, Same, Began, Missed, Skipped,
       Locked, Aborted, Entered, Strayed, SawState, Tested, Stopped, Overran, Popped,
       CountedDown, Pushed, WroteState, WroteSize, WroteLo, Filled, Rewrote, WroteFree,
       WroteLink, Indexed, Unindexed
  <2>14. QED
    BY <2>1, <2>2, <2>3, <2>4, <2>5, <2>6, <2>7, <2>8, <2>9, <2>10, <2>11, <2>12, <2>13
<1>2. QED
  BY <1>o, <1>t, <1>1 DEF Own

(* After a step the shared memory keeps its type; a count never passes the *)
(* capacity.                                                               *)
LEMMA SharedTyping ==
  ASSUME IInv, Workable(scenario), NEW p \in Proc \ dead, Moves(p)
  PROVE  /\ header' \in [count : 0 .. Capacity, firstFree : 0 .. Capacity]
         /\ slot' \in [Indices -> SlotType]
         /\ entries' \in [Key -> Seq(Indices)]
         /\ owner' \in [Sems -> Proc \cup {NoProc}]
<1>t. /\ header \in [count : 0 .. Capacity, firstFree : 0 .. Capacity]
      /\ slot \in [Indices -> SlotType] /\ entries \in [Key -> Seq(Indices)]
      /\ owner \in [Sems -> Proc \cup {NoProc}] /\ local[p] \in Locals /\ p \in Proc
  BY DEF IInv, Typing
<1>1. header' \in [count : 0 .. Capacity, firstFree : 0 .. Capacity]
  <2>1. CASE Popped(p)
    BY <1>t, <2>1, HeadSeen DEF Popped, From
  <2>2. CASE CountedUp(p)
    <3>1. local[p].tmp = header.count /\ header.count < Capacity
      BY <2>2 DEF CountedUp, From, IInv, Knowledge, Insertion, Counting
    <3>2. QED
      BY <1>t, <2>2, <3>1, Numbers DEF CountedUp
  <2>3. CASE CountedDown(p)
    <3>1. local[p].tmp = header.count
      BY <2>3 DEF CountedDown, From, IInv, Knowledge, Removal
    <3>2. header.count >= 1
      BY <2>3, CountPositive DEF CountedDown, From, Overcounted, Counting
    <3>3. QED
      BY <1>t, <2>3, <3>1, <3>2, Numbers DEF CountedDown
  <2>4. CASE Pushed(p)
    <3>1. Idx(p) \in Indices
      BY <2>4, WriterSlot DEF Pushed, From, Freeing
    <3>2. QED
      BY <1>t, <2>4, <3>1, Numbers DEF Pushed
  <2>5. CASE ~Heading(p)
    BY <1>t, <2>5, MovesOwn DEF Moves, Quiet
  <2>6. QED
    BY <2>1, <2>2, <2>3, <2>4, <2>5 DEF Heading
<1>2. slot' \in [Indices -> SlotType]
  <2>1. CASE Storing(p)
    <3>1. /\ slot' = [i \in Indices |-> slot'[i]] /\ Idx(p) \in Indices
          /\ \A i \in Indices \ {Idx(p)} : slot'[i] = slot[i]
      BY <2>1 DEF Storing, Stored, WroteState, WroteSize, WroteLo, Filled, Rewrote,
         WroteFree, WroteLink
    <3>2. slot[Idx(p)] \in SlotType /\ LenOf(local[p].lo.val) \in Nat
      BY <1>t, <3>1, Numbers, SMTT(30) DEF LenOf, Locals, Words
    <3>3. slot'[Idx(p)] \in SlotType
      BY <1>t, <2>1, <3>2, ZenonT(60) DEF Storing, Stored, WroteState, WroteSize, WroteLo,
         Filled, Rewrote, WroteFree, WroteLink, SlotType, Locals
    <3>4. QED
      BY <1>t, <3>1, <3>3
  <2>2. CASE ~Storing(p)
    BY <1>t, <2>2, MovesOwn DEF Moves, Quiet
  <2>3. QED
    BY <2>1, <2>2
<1>3. entries' \in [Key -> Seq(Indices)]
  <2>1. CASE Indexing(p)
    <3>1. call[p].keys # <<>>
      BY <2>1 DEF Indexing, Indexed, Unindexed, IInv, Control, Keyed, From
    <3>2. KeyOf(p) \in Key /\ entries[KeyOf(p)] \in Seq(Indices)
      BY <1>t, <3>1, KeyOfKey DEF IInv
    <3>3. CASE Indexed(p)
      <4>1. Idx(p) \in Indices
        BY <3>3, WriterSlot DEF Indexed, From, Taken
      <4>2. Append(entries[KeyOf(p)], Idx(p)) \in Seq(Indices)
        BY <3>2, <4>1
      <4>3. entries' = [entries EXCEPT ![KeyOf(p)] = Append(entries[KeyOf(p)], Idx(p))]
        BY <3>3 DEF Indexed, PK!Added
      <4>4. QED
        BY <1>t, <3>2, <4>2, <4>3
    <3>4. CASE Unindexed(p)
      <4>1. entries[KeyOf(p)] # <<>> => Tail(entries[KeyOf(p)]) \in Seq(Indices)
        BY <3>2
      <4>2. \/ entries' = [entries EXCEPT ![KeyOf(p)] = Tail(entries[KeyOf(p)])]
               /\ entries[KeyOf(p)] # <<>>
            \/ entries' = entries
        BY <3>4 DEF Unindexed, PK!Dropped, PK!Has
      <4>3. QED
        BY <1>t, <3>2, <4>1, <4>2
    <3>5. QED
      BY <2>1, <3>3, <3>4 DEF Indexing
  <2>2. CASE ~Indexing(p)
    BY <1>t, <2>2, MovesOwn DEF Moves, Quiet
  <2>3. QED
    BY <2>1, <2>2
<1>4. owner' \in [Sems -> Proc \cup {NoProc}]
  <2>1. Sem(p) \in Sems
    BY SemExists DEF IInv
  <2>2. QED
    BY <1>t, <2>1, MovesOwn DEF Locked, Unlocked
<1>5. QED
  BY <1>1, <1>2, <1>3, <1>4

(* A step keeps the types.                                                 *)
LEMMA TypingStep ==
  ASSUME IInv, Workable(scenario), NEW p \in Proc \ dead, Moves(p)
  PROVE  Typing'
<1>1. scenario' = scenario /\ dead' = dead
  BY MovesOwn DEF Own
<1>2. QED
  BY <1>1, CallTyping, LocalTyping, SharedTyping DEF IInv, Typing

-----------------------------------------------------------------------------
(* The records, counted, when nobody inserts or removes.                   *)

(* When nobody inserts or removes, count, the free list, the occupied      *)
(* slots and the index agree.                                              *)
LEMMA Settled ==
  ASSUME IInv, \A q \in Proc : ~Taken(q) /\ ~Freed(q)
  PROVE  \E n \in Nat : \E order :
           /\ IsList(n, order)
           /\ header.count + n = Capacity
           /\ \A i \in Indices : /\ slot[i].state = "Free"
                                   <=> \E j \in 1 .. n : order[j] = i
                                 /\ slot[i].state = "Occupied" <=> i \in Published
           /\ Cardinality(Published) = header.count
<1>n. PICK n \in Nat : \E order :
        /\ IsList(n, order) /\ Balanced(n)
        /\ \A i \in Indices : Off(i) <=> \A j \in 1 .. n : order[j] # i
  BY PickList
<1>1. PICK order :
        /\ IsList(n, order) /\ Balanced(n)
        /\ \A i \in Indices : Off(i) <=> \A j \in 1 .. n : order[j] # i
  BY <1>n
<1>2. \A q \in Proc : ~Uncounted(q) /\ ~Overcounted(q) /\ ~Linked(q)
  BY DEF Uncounted, Overcounted, Linked, Taken, Freed
<1>3. ~Lost
  BY <1>2 DEF Lost, IInv, Typing
<1>4. header.count + n = Capacity
  <2>1. Ticks(\E q \in Proc : Uncounted(q)) = 0 /\ Ticks(\E q \in Proc : Overcounted(q)) = 0
    BY <1>2 DEF Ticks
  <2>2. header.count + n + 0 = Capacity + 0
    BY <1>1, <1>3, <2>1 DEF Balanced
  <2>3. QED
    BY <2>2, Numbers DEF IInv, Typing
<1>5. \A i \in Indices : Off(i) <=> i \in Published
  BY <1>2 DEF Off
<1>6. \A i \in Indices : slot[i].state = "Occupied" \/ slot[i].state = "Free"
  BY DEF IInv, Typing, SlotType
<1>7. ASSUME NEW i \in Published PROVE slot[i].state = "Occupied"
  <2>1. PICK k \in Key : \E j \in DOMAIN entries[k] : entries[k][j] = i
    BY <1>7, PublishedSlots DEF IInv
  <2>2. Recorded(k, i)
    BY <2>1 DEF IInv, Contents
  <2>3. QED
    BY <2>2 DEF Recorded
<1>8. ASSUME NEW i \in Indices
      PROVE  /\ slot[i].state = "Free" <=> \E j \in 1 .. n : order[j] = i
             /\ slot[i].state = "Occupied" <=> i \in Published
  BY <1>1, <1>5, <1>6, <1>7 DEF IsList
<1>9. Cardinality(Published) = header.count
  <2> DEFINE free == Indices \ Published
             visits == [j \in 1 .. n |-> order[j]]
  <2>1. \A j \in 1 .. n : order[j] \in free
    <3>1. SUFFICES ASSUME NEW j \in 1 .. n PROVE order[j] \in free
      OBVIOUS
    <3>2. order[j] \in Indices
      BY <1>1 DEF IsList
    <3>3. QED
      BY <1>6, <1>7, <1>8, <3>2
  <2>2. \A i \in free : \E j \in 1 .. n : order[j] = i
    BY <1>6, <1>8
  <2>3. visits \in Bijection(1 .. n, free)
    BY <1>1, <2>1, <2>2 DEF IsList, Bijection, Injection, IsInjective, Surjection
  <2>4. IsFiniteSet(1 .. n) /\ Cardinality(1 .. n) = n
    BY FS_Interval
  <2>5. ExistsBijection(1 .. n, free)
    BY <2>3 DEF ExistsBijection
  <2>6. Cardinality(free) = n
    <3> HIDE DEF free, visits
    <3>1. QED
      BY <2>4, <2>5, FS_Bijection
  <2>7. Published \subseteq Indices /\ IsFiniteSet(Indices)
    BY PublishedSlots, Numbers DEF IInv
  <2>8. Cardinality(Indices \ Published)
          = Cardinality(Indices) - Cardinality(Indices \cap Published)
    BY <2>7, FS_Difference
  <2>9. Indices \cap Published = Published /\ IsFiniteSet(Published)
    BY <2>7, FS_Subset
  <2>10. Cardinality(Published) \in Nat
    BY <2>9, FS_CardinalityType
  <2>11. n = Capacity - Cardinality(Published)
    BY <2>6, <2>8, <2>9, Numbers
  <2>12. QED
    BY <1>4, <2>10, <2>11, Numbers DEF IInv, Typing
<1>10. QED
  BY <1>1, <1>4, <1>8, <1>9

(* An iteration that has yielded fewer records than there are has not      *)
(* passed the last slot.                                                   *)
LEMMA NoOverrun ==
  ASSUME IInv, Workable(scenario), NEW p \in Proc \ dead,
         IsOp(p, "iter"), pc[p] = "it_skip"
  PROVE  Idx(p) \in Indices
<1> SUFFICES ASSUME Idx(p) \notin Indices PROVE FALSE
  OBVIOUS
<1>1. \A q \in Proc : ~Taken(q) /\ ~Freed(q)
  <2>1. ~Taken(p) /\ ~Freed(p)
    BY DEF Taken, Freed, IsOp
  <2>2. \A q \in Proc \ {p} : pc[q] = "idle"
    BY Solo DEF IInv
  <2>3. \A q \in Proc \ {p} : ~Taken(q) /\ ~Freed(q)
    BY <2>2 DEF Taken, Freed, Counting, Writing
  <2>4. QED
    BY <2>1, <2>3
<1>2. /\ \A i \in Indices : slot[i].state = "Occupied" <=> i \in Published
      /\ Cardinality(Published) = header.count
  BY <1>1, Settled
<1>3. Idx(p) = Capacity
  BY Numbers DEF IInv, Typing, Locals, Idx, Indices
<1>4. Passed(Idx(p)) = Published
  <2>1. \A j \in Indices : j < Idx(p)
    BY <1>3, Numbers DEF Indices
  <2>2. Published \subseteq Indices
    BY PublishedSlots DEF IInv
  <2>3. QED
    BY <1>2, <2>1, <2>2 DEF Passed
<1>5. Len(local[p].seen) = header.count /\ Len(local[p].seen) < header.count
  BY <1>2, <1>4 DEF IInv, Knowledge, Iteration
<1>6. QED
  BY <1>5 DEF IInv, Typing

-----------------------------------------------------------------------------
(* Where processes stand and what they hold.                               *)

(* A step goes where the call may stand next.                              *)
LEMMA StandsStep ==
  ASSUME IInv, Workable(scenario), NEW p \in Proc \ dead, Moves(p)
  PROVE  Stands(p)'
<1>c. Stands(p)
  BY DEF IInv, Control
<1>k. Skipped(p) \/ Rewrote(p) => call'[p].op = call[p].op
  BY DEF IInv, Typing, Requested, Skipped, Rewrote
<1> USE DEF Reading, Writing, Counting, Freeing, Stands, IsOp
<1>1. CASE Began(p)
  <2>1. PICK c \in scenario.calls[p] :
          /\ call'[p] = c
          /\ \/ c.op = "count" /\ pc'[p] = "count"
             \/ c.op = "iter" /\ pc'[p] = "it_test"
             \/ c.op \notin {"count", "iter"} /\ pc'[p] = "lookup"
    BY <1>1 DEF Began
  <2>2. IsRequest(c)
    BY TableAssumption DEF IInv, Typing
  <2>3. c.op \in {"insert", "find", "update", "remove", "count", "iter"}
    BY <2>2 DEF IsRequest
  <2>4. QED
    BY <2>1, <2>3
<1>2. CASE Returned(p) \/ Hit(p) \/ Missed(p) \/ Skipped(p) \/ Locked(p) \/ Aborted(p)
  BY <1>c, <1>k, <1>2 DEF Returned, Hit, Missed, Skipped, Locked, Aborted, From, Same,
     Looks
<1>3. CASE Unlocked(p)
  <2>1. out[p] = Pending => call[p].op = "update"
    BY <1>3 DEF IInv, Control, Keyed, Unlocked, From
  <2>2. QED
    BY <1>c, <1>3, <2>1 DEF Unlocked, From, Looks
<1>4. CASE \/ Entered(p) \/ TookHead(p) \/ SawLink(p) \/ Strayed(p) \/ SawCount(p)
           \/ SawState(p) \/ SawSize(p) \/ SawLo(p) \/ Passes(p) \/ Applied(p)
  BY <1>c, <1>4 DEF Entered, TookHead, SawLink, Strayed, SawCount, SawState, SawSize,
     SawLo, Passes, Applied, From, Same, Looks
<1>5. CASE Tested(p) \/ Stepped(p) \/ Stopped(p) \/ Overran(p) \/ SawFirst(p)
  <2>1. ~Overran(p)
    BY NoOverrun DEF Overran, From
  <2>2. QED
    BY <1>c, <1>5, <2>1 DEF Tested, Stepped, Stopped, SawFirst, From, Same, Looks
<1>6. CASE Heading(p) \/ Indexing(p)
  BY <1>c, <1>6 DEF Heading, Indexing, Popped, CountedUp, CountedDown, Pushed, Indexed,
     Unindexed, From, Same, Looks
<1>7. CASE Storing(p)
  BY <1>c, <1>k, <1>7 DEF Storing, WroteState, WroteSize, WroteLo, Filled, Rewrote, WroteFree,
     WroteLink, From, Same
<1>8. QED
  BY <1>1, <1>2, <1>3, <1>4, <1>5, <1>6, <1>7 DEF Moves, Private

(* What happens to a call: it begins, it stays the same, or a key is done. *)
LEMMA CallWays ==
  ASSUME NEW p \in Proc, Moves(p)
  PROVE  \/ Began(p)
         \/ Returned(p)
         \/ Skipped(p) /\ pc'[p] = "lookup"
         \/ Rewrote(p) /\ pc'[p] = "unlock"
         \/ call'[p] = call[p] /\ pc[p] # "idle" /\ ~Skipped(p) /\ ~Rewrote(p)
<1>1. CASE Private(p)
  BY <1>1 DEF Private, From, Same, Looks, Hit, Missed, Skipped, Rewrote, Locked,
     Unlocked, Aborted, Entered, TookHead, SawLink, Strayed, SawCount, SawState, SawSize,
     SawLo, Passes, Applied, Tested, Stepped, Stopped, Overran, SawFirst, Reading
<1>2. CASE Heading(p) \/ Storing(p) \/ Indexing(p)
  BY <1>2 DEF Heading, Storing, Indexing, From, Same, Looks, Popped, CountedUp, Skipped,
     CountedDown, Pushed, WroteState, WroteSize, WroteLo, Filled, Rewrote, WroteFree,
     WroteLink, Indexed, Unindexed
<1>3. QED
  BY <1>1, <1>2 DEF Moves

(* A step keeps every call one that was asked for, at a step of it.        *)
LEMMA ControlStep ==
  ASSUME IInv, Workable(scenario), NEW p \in Proc \ dead, Moves(p)
  PROVE  Control'
<1>o. Own(p)
  BY MovesOwn
<1>c. Stands(p) /\ Asked(p) /\ Keyed(p) /\ Fresh(p)
  BY DEF IInv, Control
<1>t. /\ call[p] \in Requested /\ p \in Proc
      /\ \A c \in scenario.calls[p] : IsRequest(c)
  BY TableAssumption DEF IInv, Typing
<1>b. ASSUME Began(p)
      PROVE  \E c \in scenario.calls[p] :
               /\ call'[p] = c /\ IsRequest(c) /\ pc[p] = "idle"
               /\ local'[p] = local[p] /\ pc'[p] \notin {"idle", "unlock"}
  BY <1>b, <1>t DEF Began
<1>k. Skipped(p) \/ Rewrote(p) =>
        /\ call[p].keys # <<>>
        /\ call'[p].op = call[p].op /\ call'[p].keys = Tail(call[p].keys)
        /\ pc[p] # "idle" /\ call[p].op = "update"
  BY <1>c, <1>t DEF Skipped, Rewrote, From, Keyed, Requested, IsOp
<1>1. Stands(p)'
  BY StandsStep
<1>2. Asked(p)'
  <2>1. CASE Began(p)
    BY <1>b, <1>o, <2>1 DEF Asked, Own
  <2>2. CASE Returned(p)
    BY <2>2 DEF Returned, Asked
  <2>3. CASE Skipped(p) \/ Rewrote(p)
    <3>1. PICK c \in scenario.calls[p] :
            /\ c.op = call[p].op
            /\ \A i \in DOMAIN call[p].keys : \E j \in DOMAIN c.keys :
                 c.keys[j] = call[p].keys[i]
      BY <1>c, <1>k, <2>3 DEF Asked
    <3>2. call[p].keys \in Seq(Key) /\ call[p].keys # <<>>
      BY <1>t, <1>k, <2>3 DEF Requested
    <3>3. ASSUME NEW i \in DOMAIN Tail(call[p].keys)
          PROVE  i + 1 \in DOMAIN call[p].keys
                 /\ Tail(call[p].keys)[i] = call[p].keys[i + 1]
      BY <3>2
    <3>4. /\ c \in scenario'.calls[p] /\ c.op = call'[p].op
          /\ \A i \in DOMAIN call'[p].keys : \E j \in DOMAIN c.keys :
               c.keys[j] = call'[p].keys[i]
      <4>1. \A i \in DOMAIN Tail(call[p].keys) : \E j \in DOMAIN c.keys :
               c.keys[j] = Tail(call[p].keys)[i]
        BY <3>1, <3>3
      <4>2. scenario' = scenario /\ call'[p].op = call[p].op
            /\ call'[p].keys = Tail(call[p].keys)
        BY <1>k, <1>o, <2>3 DEF Own
      <4>3. QED
        BY <3>1, <4>1, <4>2
    <3>5. QED
      BY <3>4 DEF Asked
  <2>4. CASE call'[p] = call[p] /\ pc[p] # "idle"
    BY <1>c, <1>o, <2>4 DEF Asked, Own
  <2>5. QED
    BY CallWays, <2>1, <2>2, <2>3, <2>4
<1>3. Keyed(p)'
  <2>1. CASE Began(p)
    <3>1. PICK c \in scenario.calls[p] :
            call'[p] = c /\ IsRequest(c) /\ pc'[p] \notin {"idle", "unlock"}
      BY <1>b, <2>1
    <3>2. c.op \in {"insert", "find", "remove", "update"} => c.keys # <<>>
      <4>1. c.op \in {"insert", "find", "remove"} => Len(c.keys) = 1
        BY <3>1 DEF IsRequest
      <4>2. Len(<<>>) = 0
        OBVIOUS
      <4>3. c.keys = <<>> => Len(c.keys) = 0
        BY <4>2
      <4>4. c.op = "update" => c.keys # <<>>
        BY <3>1 DEF IsRequest
      <4>5. c.op \in {"insert", "find", "remove"} => c.keys # <<>>
        <5>1. 0 # 1
          OBVIOUS
        <5>2. QED
          BY <4>1, <4>3, <5>1, Zenon
      <4>6. QED
        BY <4>4, <4>5, Zenon
    <3>3. QED
      BY <3>1, <3>2 DEF Keyed, IsOp
  <2>2. CASE Returned(p)
    BY <2>2 DEF Returned, Keyed
  <2>3. CASE Skipped(p)
    BY <1>k, <2>3 DEF Skipped, Keyed, From, IsOp
  <2>4. CASE Rewrote(p)
    BY <1>k, <2>4 DEF Rewrote, Keyed, From, IsOp
  <2>5. CASE call'[p] = call[p] /\ pc[p] # "idle" /\ ~Skipped(p) /\ ~Rewrote(p)
    <3>1. pc'[p] = "unlock" => out'[p] # Pending
      BY <1>o, <2>5 DEF Moves, Private, Heading, Storing, Indexing, From, Began,
         Returned, Hit, Missed, Locked, Unlocked, Aborted, Entered, TookHead, SawLink,
         Strayed, SawCount, SawState, SawSize, SawLo, Passes, Applied, Tested, Stepped,
         Stopped, Overran, SawFirst, Popped, CountedUp, CountedDown, Pushed, WroteState,
         WroteSize, WroteLo, Filled, WroteFree, WroteLink, Indexed, Unindexed
    <3>2. CASE Unlocked(p)
      BY <1>c, <2>5, <3>2 DEF Unlocked, From, Keyed, IsOp, Stands
    <3>3. CASE ~Unlocked(p)
      <4>1. pc[p] = "unlock" => pc'[p] = "idle"
        BY <2>5, <3>3 DEF Moves, Private, Heading, Storing, Indexing, From, Began,
           Returned, Hit, Missed, Locked, Aborted, Entered, TookHead, SawLink, Strayed,
           SawCount, SawState, SawSize, SawLo, Passes, Applied, Tested, Stepped,
           Stopped, Overran, SawFirst, Popped, CountedUp, CountedDown, Pushed,
           WroteState, WroteSize, WroteLo, Filled, WroteFree, WroteLink, Indexed,
           Unindexed, Reading, Counting
      <4>2. QED
        BY <1>c, <2>5, <3>1, <4>1 DEF Keyed, IsOp
    <3>4. QED
      BY <3>2, <3>3
  <2>6. QED
    BY CallWays, <2>1, <2>2, <2>3, <2>4, <2>5
<1>4. Fresh(p)'
  <2>1. CASE Began(p)
    BY <1>b, <1>c, <2>1 DEF Fresh
  <2>2. CASE Returned(p) \/ Unlocked(p)
    BY <2>2 DEF Returned, Unlocked, Looks, Fresh
  <2>3. CASE Skipped(p)
    BY <1>c, <2>3 DEF Skipped, From, Fresh
  <2>4. CASE ~Began(p) /\ ~Returned(p) /\ ~Unlocked(p) /\ ~Skipped(p)
    <3>1. pc'[p] \notin {"idle", "lookup"}
      BY <2>4 DEF Moves, Private, Heading, Storing, Indexing, From, Hit, Missed, Locked,
         Aborted, Entered, TookHead, SawLink, Strayed, SawCount, SawState, SawSize,
         SawLo, Passes, Applied, Tested, Stepped, Stopped, Overran, SawFirst, Popped,
         CountedUp, CountedDown, Pushed, WroteState, WroteSize, WroteLo, Filled, Rewrote,
         WroteFree, WroteLink, Indexed, Unindexed
    <3>2. QED
      BY <3>1 DEF Fresh
  <2>5. QED
    BY <2>1, <2>2, <2>3, <2>4
<1>5. ASSUME NEW q \in Proc \ {p}
      PROVE  (Stands(q) /\ Asked(q) /\ Keyed(q) /\ Fresh(q))'
  <2>1. Stands(q) /\ Asked(q) /\ Keyed(q) /\ Fresh(q)
    BY DEF IInv, Control
  <2>2. /\ pc'[q] = pc[q] /\ call'[q] = call[q] /\ local'[q] = local[q]
        /\ out'[q] = out[q] /\ scenario' = scenario
    BY <1>o DEF Own
  <2>3. QED
    BY <2>1, <2>2 DEF Stands, Asked, Keyed, Fresh, IsOp
<1>6. QED
  BY <1>1, <1>2, <1>3, <1>4, <1>5 DEF Control

-----------------------------------------------------------------------------
(* What a step leaves to the others.                                       *)

(* The processes that do not move stay where they are.                     *)
LEMMA Others ==
  ASSUME NEW p \in Proc, Own(p), NEW q \in Proc \ {p}
  PROVE  /\ pc'[q] = pc[q] /\ call'[q] = call[q] /\ local'[q] = local[q]
         /\ Idx(q)' = Idx(q) /\ KeyOf(q)' = KeyOf(q) /\ Sem(q)' = Sem(q)
         /\ Taken(q)' <=> Taken(q)
         /\ Linked(q)' <=> Linked(q)
         /\ Uncounted(q)' <=> Uncounted(q)
         /\ Overcounted(q)' <=> Overcounted(q)
         /\ Freed(q)' <=> Freed(q)
         /\ Rewriting(q)' <=> Rewriting(q)
         /\ Aims(q)' <=> Aims(q)
         /\ Holds(q)' <=> Holds(q)
<1>1. pc'[q] = pc[q] /\ call'[q] = call[q] /\ local'[q] = local[q]
  BY DEF Own
<1>2. Idx(q)' = Idx(q) /\ KeyOf(q)' = KeyOf(q) /\ Sem(q)' = Sem(q)
  BY <1>1 DEF Idx, KeyOf, Sem, IsOp, TableSem
<1>3. QED
  BY <1>1, <1>2
  DEF Taken, Linked, Uncounted, Overcounted, Freed, Rewriting, Aims, Holds, IsOp

(* What the dead left behind stays.                                        *)
LEMMA DeadStay ==
  ASSUME Typing, NEW p \in Proc \ dead, Own(p)
  PROVE  /\ Lost' <=> Lost
         /\ \A i : Torn(i)' <=> Torn(i)
<1>1. dead' = dead /\ dead \subseteq Proc
  BY DEF Own, Typing
<1>2. \A q \in dead : /\ Uncounted(q)' <=> Uncounted(q)
                      /\ Rewriting(q)' <=> Rewriting(q)
                      /\ Idx(q)' = Idx(q)
  BY <1>1, Others
<1>3. QED
  BY <1>1, <1>2 DEF Lost, Torn

(* One process at a time is between its lock and its unlock.               *)
LEMMA OneHolder ==
  ASSUME IInv, NEW p \in Proc \ dead, NEW q \in Proc \ dead,
         Holds(p), Holds(q), Sem(p) = Sem(q)
  PROVE  p = q
BY DEF IInv, Locks

(* One insertion at a time takes and counts a slot.                        *)
LEMMA OneInserter ==
  ASSUME IInv, NEW p \in Proc \ dead, NEW q \in Proc \ dead,
         IsOp(p, "insert"), Holds(p), IsOp(q, "insert"), Holds(q)
  PROVE  p = q
BY OneHolder DEF Sem

(* Only one that begins moves from idle.                                   *)
LEMMA IdleBegins ==
  ASSUME NEW p \in Proc, Moves(p), pc[p] = "idle"
  PROVE  Private(p)
<1>1. CASE Heading(p) \/ Storing(p) \/ Indexing(p)
  BY <1>1 DEF Heading, Storing, Indexing, From, Popped, CountedUp, CountedDown, Pushed,
     WroteState, WroteSize, WroteLo, Filled, Rewrote, WroteFree, WroteLink, Indexed,
     Unindexed
<1>2. QED
  BY <1>1 DEF Moves

-----------------------------------------------------------------------------
(* Locks.                                                                  *)

(* A step keeps every lock with the process between its lock and its       *)
(* unlock, and none with the dead.                                         *)
LEMMA LocksStep ==
  ASSUME IInv, NEW p \in Proc \ dead, Moves(p)
  PROVE  Locks'
<1>o. Own(p) /\ (owner' = owner \/ Locked(p) \/ Unlocked(p)) /\ dead' = dead
  BY MovesOwn DEF Own
<1>t. /\ owner \in [Sems -> Proc \cup {NoProc}] /\ Sem(p) \in Sems
      /\ dead \subseteq Proc /\ NoProc \notin dead
  BY SemExists, Numbers DEF IInv, Typing
<1>1. \A s \in Sems : owner'[s] \notin dead'
  BY <1>o, <1>t DEF IInv, Locks, Locked, Unlocked
<1>2. ASSUME NEW q \in Proc \ dead, q # p, Holds(q)'
      PROVE  owner'[Sem(q)'] = q
  <2>1. Holds(q) /\ Sem(q)' = Sem(q) /\ Sem(q) \in Sems
    BY <1>o, <1>2, Others, SemExists DEF IInv
  <2>2. owner[Sem(q)] = q /\ q # NoProc
    BY <2>1, <1>2, Numbers DEF IInv, Locks
  <2>3. CASE Locked(p)
    BY <1>t, <2>1, <2>2, <2>3 DEF Locked
  <2>4. CASE Unlocked(p)
    <3>1. Holds(p)
      BY <2>4 DEF Unlocked, From, Holds, IInv, Control, Stands, Reading
    <3>2. owner[Sem(p)] = p
      BY <3>1 DEF IInv, Locks
    <3>3. QED
      BY <1>2, <1>t, <2>1, <2>2, <2>4, <3>2 DEF Unlocked
  <2>5. QED
    BY <1>o, <2>1, <2>2, <2>3, <2>4
<1>3. ASSUME Holds(p)' PROVE owner'[Sem(p)'] = p
  <2> USE DEF Holds, IsOp, Reading, Writing, Counting, Freeing
  <2>1. CASE Locked(p)
    BY <1>t, <2>1 DEF Locked, Sem, Same, Idx, TableSem, IsOp
  <2>2. CASE ~Locked(p)
    <3>1. Holds(p) /\ Sem(p)' = Sem(p)
      <4>1. ~Unlocked(p) /\ ~Began(p) /\ ~Returned(p) /\ ~Skipped(p) /\ ~Hit(p)
        BY <1>3 DEF Unlocked, Began, Returned, Skipped, Hit, From, Looks
      <4>2. call'[p].op = call[p].op
        BY <4>1, CallWays DEF Rewrote, IInv, Typing, Requested
      <4>3. local[p] \in Locals
        BY DEF IInv, Typing
      <4>4. CASE Private(p)
        BY <1>3, <2>2, <4>1, <4>3, <4>4 DEF Private, From, Same, Looks, Missed, Aborted,
           Entered, TookHead, SawLink, Strayed, SawCount, SawState, SawSize, SawLo,
           Passes, Applied, Tested, Stepped, Stopped, Overran, SawFirst, Sem, Idx,
           TableSem, Locals
      <4>5. CASE Heading(p) \/ Storing(p) \/ Indexing(p)
        BY <4>2, <4>3, <4>5 DEF Heading, Storing, Indexing, From, Same, Looks, Popped,
           CountedUp, CountedDown, Pushed, WroteState, WroteSize, WroteLo, Filled,
           Rewrote, WroteFree, WroteLink, Indexed, Unindexed, Sem, Idx, TableSem, Locals
      <4>6. QED
        BY <4>4, <4>5 DEF Moves
    <3>2. owner[Sem(p)] = p
      BY <3>1 DEF IInv, Locks
    <3>3. owner' = owner
      BY <1>3, <1>o, <2>2 DEF Unlocked, From
    <3>4. QED
      BY <3>1, <3>2, <3>3
  <2>3. QED
    BY <2>1, <2>2
<1>4. QED
  BY <1>1, <1>2, <1>3, <1>o DEF Locks

-----------------------------------------------------------------------------
(* The death of a process frees its locks and leaves all else as it is.    *)
LEMMA CrashStep ==
  ASSUME IInv, NEW p \in Proc \ dead, Crashed(p)
  PROVE  IInv'
<1>u. /\ header' = header /\ slot' = slot /\ entries' = entries /\ scenario' = scenario
      /\ pc' = pc /\ call' = call /\ local' = local /\ out' = out
      /\ dead' = dead \cup {p} /\ owner' = Undone(p)
  BY DEF Crashed, Quiet
<1>t. Typing
  BY DEF IInv
<1>1. Typing'
  BY <1>u, <1>t DEF Typing, Undone
<1>2. Control'
  BY <1>u DEF IInv, Control, Stands, Asked, Keyed, Fresh, IsOp
<1>3. Locks'
  <2>1. /\ owner' = [s \in Sems |-> IF owner[s] = p THEN NoProc ELSE owner[s]]
        /\ NoProc \notin dead' /\ dead \subseteq Proc
    BY <1>u, <1>t, Numbers DEF Undone, Typing
  <2>2. \A s \in Sems : owner'[s] \notin dead'
    BY <1>u, <2>1 DEF IInv, Locks
  <2>3. ASSUME NEW q \in Proc \ dead', Holds(q)'
        PROVE  owner'[Sem(q)'] = q
    <3>1. Holds(q) /\ Sem(q)' = Sem(q) /\ q # p /\ q \notin dead
      BY <1>u, <2>3 DEF Holds, Sem, IsOp, Idx, TableSem
    <3>2. owner[Sem(q)] = q /\ Sem(q) \in Sems
      BY <3>1, SemExists DEF IInv, Locks
    <3>3. QED
      BY <2>1, <3>1, <3>2
  <2>4. QED
    BY <2>2, <2>3 DEF Locks
<1>4. \A q \in Proc : /\ Taken(q)' <=> Taken(q)
                      /\ Linked(q)' <=> Linked(q)
                      /\ Uncounted(q)' <=> Uncounted(q)
                      /\ Overcounted(q)' <=> Overcounted(q)
                      /\ Freed(q)' <=> Freed(q)
                      /\ Rewriting(q)' <=> Rewriting(q)
                      /\ Aims(q)' <=> Aims(q)
                      /\ Idx(q)' = Idx(q) /\ KeyOf(q)' = KeyOf(q)
  BY <1>u DEF Taken, Linked, Uncounted, Overcounted, Freed, Rewriting, Aims, IsOp, Idx,
     KeyOf
<1>5. (Lost => Lost') /\ (\A i : Torn(i) => Torn(i)') /\ Published' = Published
  BY <1>u, <1>t, <1>4 DEF Lost, Torn, Published, Typing
<1>6. Distinct' /\ Aimed' /\ Apart'
  BY <1>u, <1>4, <1>5 DEF IInv, Distinct, Aimed, Apart
<1>7. Listed'
  <2>1. PICK n \in 0 .. Capacity : \E order \in [1 .. n + 1 -> 0 .. Capacity] :
          /\ IsList(n, order) /\ Balanced(n)
          /\ \A i \in Indices : Off(i) <=> \A j \in 1 .. n : order[j] # i
    BY DEF IInv, Listed
  <2>2. PICK order \in [1 .. n + 1 -> 0 .. Capacity] :
          /\ IsList(n, order) /\ Balanced(n)
          /\ \A i \in Indices : Off(i) <=> \A j \in 1 .. n : order[j] # i
    BY <2>1
  <2>3. IsList(n, order)'
    BY <1>u, <2>2 DEF IsList
  <2>4. Balanced(n)'
    BY <1>u, <1>4, <1>5, <2>2 DEF Balanced
  <2>5. \A i \in Indices : Off(i)' <=> Off(i)
    BY <1>4, <1>5 DEF Off
  <2>6. QED
    BY <2>2, <2>3, <2>4, <2>5 DEF Listed
<1>8. Contents'
  BY <1>u, <1>4 DEF IInv, Contents, Recorded, Complete
<1>9. Knowledge'
  <2>1. \A q \in Proc \ dead' : q \in Proc \ dead
    BY <1>u
  <2>2. \A q \in Proc \ dead : Insertion(q) => Insertion(q)'
    BY <1>u DEF Insertion, IsOp, Idx, KeyOf
  <2>3. \A q \in Proc \ dead : Revision(q) => Revision(q)'
    BY <1>u, <1>4, <1>5 DEF Revision, IsOp
  <2>4. \A q \in Proc \ dead : Removal(q) => Removal(q)'
    BY <1>u DEF Removal, IsOp, Idx
  <2>5. \A q \in Proc \ dead : Iteration(q) => Iteration(q)'
    BY <1>u, <1>4 DEF Iteration, IsOp, Passed
  <2>6. QED
    BY <2>1, <2>2, <2>3, <2>4, <2>5 DEF IInv, Knowledge
<1>10. Wildness'
  BY <1>u, <1>5 DEF IInv, Wildness
<1>11. QED
  BY <1>1, <1>2, <1>3, <1>6, <1>7, <1>8, <1>9, <1>10 DEF IInv

-----------------------------------------------------------------------------
(* The index.                                                              *)

(* An insertion adds its slot behind the others of its key.                *)
LEMMA IndexAdded ==
  ASSUME Typing, NEW k \in Key, NEW i \in Indices
  PROVE  LET e == PK!Added(entries, k, i)
             m == Len(entries[k]) + 1 IN
         /\ m \in DOMAIN e[k] /\ e[k][m] = i
         /\ \A l \in Key : \A j \in DOMAIN entries[l] :
              j \in DOMAIN e[l] /\ e[l][j] = entries[l][j]
         /\ \A l \in Key : \A j \in DOMAIN e[l] :
              \/ j \in DOMAIN entries[l] /\ e[l][j] = entries[l][j]
              \/ l = k /\ j = m /\ e[l][j] = i
         /\ \A l \in Key : entries[l] # <<>>
              => e[l] # <<>> /\ Head(e[l]) = Head(entries[l])
<1> DEFINE e == PK!Added(entries, k, i)
           m == Len(entries[k]) + 1
<1>1. /\ entries \in [Key -> Seq(Indices)] /\ entries[k] \in Seq(Indices)
      /\ \A l \in Key : entries[l] \in Seq(Indices)
  BY DEF Typing
<1>2. e[k] = Append(entries[k], i) /\ \A l \in Key \ {k} : e[l] = entries[l]
  BY <1>1 DEF PK!Added
<1>3. /\ m \in DOMAIN e[k] /\ e[k][m] = i
      /\ \A j \in DOMAIN entries[k] : j \in DOMAIN e[k] /\ e[k][j] = entries[k][j]
      /\ \A j \in DOMAIN e[k] : j \in DOMAIN entries[k] \/ j = m
      /\ entries[k] # <<>> => e[k] # <<>> /\ Head(e[k]) = Head(entries[k])
  BY <1>1, <1>2
<1>4. QED
  <2> HIDE DEF e, m
  <2>1. \A l \in Key : l = k \/ e[l] = entries[l]
    BY <1>2
  <2>2. QED
    BY <1>2, <1>3, <2>1 DEF e, m

(* A removal takes away the oldest slot of its key.                        *)
LEMMA IndexDropped ==
  ASSUME Typing, NEW k \in Key, entries[k] # <<>>
  PROVE  LET e == PK!Dropped(entries, k) IN
         /\ \A l \in Key \ {k} : e[l] = entries[l]
         /\ \A j \in DOMAIN e[k] : /\ j + 1 \in DOMAIN entries[k] /\ j + 1 # 1
                                   /\ e[k][j] = entries[k][j + 1]
         /\ \A j \in DOMAIN entries[k] :
              j # 1 => j - 1 \in DOMAIN e[k] /\ e[k][j - 1] = entries[k][j]
<1> DEFINE e == PK!Dropped(entries, k)
<1>1. entries \in [Key -> Seq(Indices)] /\ entries[k] \in Seq(Indices)
  BY DEF Typing
<1>2. e[k] = Tail(entries[k]) /\ \A l \in Key \ {k} : e[l] = entries[l]
  BY <1>1 DEF PK!Dropped, PK!Has
<1>3. /\ \A j \in DOMAIN e[k] : /\ j + 1 \in DOMAIN entries[k] /\ j + 1 # 1
                                /\ e[k][j] = entries[k][j + 1]
      /\ \A j \in DOMAIN entries[k] :
           j # 1 => j - 1 \in DOMAIN e[k] /\ e[k][j - 1] = entries[k][j]
  BY <1>1, <1>2
<1>4. QED
  BY <1>2, <1>3

(* Publishing adds one slot to what the index leads to.                    *)
LEMMA PublishNext ==
  ASSUME IInv, NEW p \in Proc \ dead, Indexed(p)
  PROVE  /\ KeyOf(p) \in Key /\ Idx(p) \in Indices /\ Idx(p) \notin Published
         /\ Taken(p) /\ \A i : i \in Published' <=> i \in Published \/ i = Idx(p)
<1>1. Taken(p)
  BY DEF Taken, Indexed, From
<1>2. KeyOf(p) \in Key
  BY KeyOfKey DEF IInv, Control, Keyed, Indexed, From
<1>3. Idx(p) \in Indices /\ Idx(p) \notin Published
  BY <1>1 DEF IInv, Apart
<1>4. entries' = PK!Added(entries, KeyOf(p), Idx(p))
  BY DEF Indexed
<1>5. \A i : i \in Published' <=> \E l \in Key : \E j \in DOMAIN entries'[l] :
                                    entries'[l][j] = i
  BY DEF Published
<1>6. \A i : i \in Published <=> \E l \in Key : \E j \in DOMAIN entries[l] :
                                   entries[l][j] = i
  BY DEF Published
<1>7. /\ \E j \in DOMAIN entries'[KeyOf(p)] : entries'[KeyOf(p)][j] = Idx(p)
      /\ \A l \in Key : \A j \in DOMAIN entries[l] :
           j \in DOMAIN entries'[l] /\ entries'[l][j] = entries[l][j]
      /\ \A l \in Key : \A j \in DOMAIN entries'[l] :
           \/ j \in DOMAIN entries[l] /\ entries'[l][j] = entries[l][j]
           \/ entries'[l][j] = Idx(p)
  BY <1>2, <1>3, <1>4, IndexAdded DEF IInv
<1>8. \A i : i \in Published' <=> i \in Published \/ i = Idx(p)
  BY <1>2, <1>5, <1>6, <1>7
<1>9. QED
  BY <1>1, <1>2, <1>3, <1>8

(* Unpublishing takes one away.                                            *)
LEMMA UnpublishNext ==
  ASSUME IInv, NEW p \in Proc \ dead, Unindexed(p)
  PROVE  /\ KeyOf(p) \in Key /\ Idx(p) \in Indices /\ Idx(p) \in Published
         /\ entries[KeyOf(p)] # <<>>
         /\ Linked(p) /\ \A i : i \in Published' <=> i \in Published /\ i # Idx(p)
<1>1. Linked(p) /\ Aims(p)
  BY DEF Linked, Aims, Unindexed, From
<1>2. /\ KeyOf(p) \in Key /\ 1 \in DOMAIN entries[KeyOf(p)]
      /\ entries[KeyOf(p)][1] = Idx(p)
      /\ Idx(p) \in Indices /\ Idx(p) \in Published
      /\ entries[KeyOf(p)] # <<>>
  BY <1>1, AimedSlot DEF IInv, Aimed
<1>3. entries' = PK!Dropped(entries, KeyOf(p))
  BY DEF Unindexed
<1>4. \A i : i \in Published' <=> \E l \in Key : \E j \in DOMAIN entries'[l] :
                                    entries'[l][j] = i
  BY DEF Published
<1>5. \A i : i \in Published <=> \E l \in Key : \E j \in DOMAIN entries[l] :
                                   entries[l][j] = i
  BY DEF Published
<1>6. /\ \A l \in Key \ {KeyOf(p)} : entries'[l] = entries[l]
      /\ \A j \in DOMAIN entries'[KeyOf(p)] :
           /\ j + 1 \in DOMAIN entries[KeyOf(p)] /\ j + 1 # 1
           /\ entries'[KeyOf(p)][j] = entries[KeyOf(p)][j + 1]
      /\ \A j \in DOMAIN entries[KeyOf(p)] : j # 1 =>
           /\ j - 1 \in DOMAIN entries'[KeyOf(p)]
           /\ entries'[KeyOf(p)][j - 1] = entries[KeyOf(p)][j]
  BY <1>2, <1>3, IndexDropped DEF IInv
<1>7. ASSUME NEW i, i \in Published' PROVE i \in Published /\ i # Idx(p)
  <2>0. PICK l \in Key : \E j \in DOMAIN entries'[l] : entries'[l][j] = i
    BY <1>4, <1>7
  <2>1. PICK j \in DOMAIN entries'[l] : entries'[l][j] = i
    BY <2>0
  <2>2. PICK m \in DOMAIN entries[l] :
          entries[l][m] = i /\ (l = KeyOf(p) => m # 1)
    BY <1>6, <2>1
  <2>3. i # Idx(p)
    BY <1>2, <2>2 DEF IInv, Distinct
  <2>4. QED
    BY <1>5, <2>2, <2>3
<1>8. ASSUME NEW i, i \in Published, i # Idx(p) PROVE i \in Published'
  <2>0. PICK l \in Key : \E j \in DOMAIN entries[l] : entries[l][j] = i
    BY <1>5, <1>8
  <2>1. PICK j \in DOMAIN entries[l] : entries[l][j] = i
    BY <2>0
  <2>2. l = KeyOf(p) => j # 1
    BY <1>2, <1>8, <2>1
  <2>3. \E m \in DOMAIN entries'[l] : entries'[l][m] = i
    BY <1>6, <2>1, <2>2
  <2>4. QED
    BY <1>4, <2>3
<1>9. QED
  BY <1>1, <1>2, <1>7, <1>8

(* No slot gets published twice.                                           *)
LEMMA DistinctStep ==
  ASSUME IInv, NEW p \in Proc \ dead, Moves(p)
  PROVE  Distinct'
<1>d. /\ Distinct /\ DOMAIN entries = Key
      /\ \A k \in Key : entries[k] \in Seq(Indices)
  BY DEF IInv, Typing
<1>1. CASE Indexed(p)
  <2>1. KeyOf(p) \in Key /\ Idx(p) \in Indices /\ Idx(p) \notin Published
    BY <1>1, PublishNext
  <2>2. \A l \in Key : \A j \in DOMAIN entries'[l] :
          \/ j \in DOMAIN entries[l] /\ entries'[l][j] = entries[l][j]
          \/ /\ l = KeyOf(p) /\ j = Len(entries[KeyOf(p)]) + 1
             /\ entries'[l][j] = Idx(p)
    BY <1>1, <2>1, IndexAdded DEF Indexed, IInv
  <2>3. \A l \in Key : \A j \in DOMAIN entries[l] : entries[l][j] # Idx(p)
    BY <2>1, PublishedSlots DEF IInv
  <2>4. SUFFICES ASSUME NEW k \in Key, NEW l \in Key, NEW i \in DOMAIN entries'[k],
                        NEW j \in DOMAIN entries'[l], entries'[k][i] = entries'[l][j]
                 PROVE  k = l /\ i = j
    BY DEF Distinct
  <2>5. CASE i \in DOMAIN entries[k] /\ j \in DOMAIN entries[l]
             /\ entries'[k][i] = entries[k][i] /\ entries'[l][j] = entries[l][j]
    <3>1. entries[k][i] = entries[l][j]
      BY <2>4, <2>5
    <3>2. Distinct
      BY <1>d
    <3>3. QED
      BY <2>5, <3>1, <3>2 DEF Distinct
  <2>6. CASE ~(i \in DOMAIN entries[k] /\ entries'[k][i] = entries[k][i])
    <3>1. entries'[k][i] = Idx(p) /\ k = KeyOf(p) /\ i = Len(entries[KeyOf(p)]) + 1
      BY <2>2, <2>6
    <3>2. ~(j \in DOMAIN entries[l] /\ entries'[l][j] = entries[l][j])
      BY <2>3, <2>4, <3>1
    <3>3. QED
      BY <2>2, <3>1, <3>2
  <2>7. CASE ~(j \in DOMAIN entries[l] /\ entries'[l][j] = entries[l][j])
    <3>1. entries'[l][j] = Idx(p) /\ l = KeyOf(p) /\ j = Len(entries[KeyOf(p)]) + 1
      BY <2>2, <2>7
    <3>2. ~(i \in DOMAIN entries[k] /\ entries'[k][i] = entries[k][i])
      BY <2>3, <2>4, <3>1
    <3>3. QED
      BY <2>2, <3>1, <3>2
  <2>8. QED
    BY <2>5, <2>6, <2>7
<1>2. CASE Unindexed(p)
  <2>1. KeyOf(p) \in Key /\ entries[KeyOf(p)] # <<>>
    BY <1>2, UnpublishNext
  <2>2. /\ \A l \in Key \ {KeyOf(p)} : entries'[l] = entries[l]
        /\ \A j \in DOMAIN entries'[KeyOf(p)] :
             /\ j + 1 \in DOMAIN entries[KeyOf(p)]
             /\ entries'[KeyOf(p)][j] = entries[KeyOf(p)][j + 1]
    BY <1>2, <2>1, IndexDropped DEF Unindexed, IInv
  <2>3. DOMAIN entries'[KeyOf(p)] \subseteq Nat
    <3>1. entries' = [entries EXCEPT ![KeyOf(p)] = Tail(entries[KeyOf(p)])]
      BY <1>2, <2>1 DEF Unindexed, PK!Dropped, PK!Has
    <3>2. entries'[KeyOf(p)] \in Seq(Indices)
      BY <1>d, <2>1, <3>1
    <3>3. QED
      BY <3>2
  <2>4. SUFFICES ASSUME NEW k \in Key, NEW l \in Key, NEW i \in DOMAIN entries'[k],
                        NEW j \in DOMAIN entries'[l], entries'[k][i] = entries'[l][j]
                 PROVE  k = l /\ i = j
    BY DEF Distinct
  <2> DEFINE at(m, n) == IF m = KeyOf(p) THEN n + 1 ELSE n
  <2>5. /\ at(k, i) \in DOMAIN entries[k] /\ entries'[k][i] = entries[k][at(k, i)]
        /\ at(l, j) \in DOMAIN entries[l] /\ entries'[l][j] = entries[l][at(l, j)]
    BY <2>2, <2>4
  <2>6. k = l /\ at(k, i) = at(l, j)
    <3>1. entries[k][at(k, i)] = entries[l][at(l, j)]
      BY <2>4, <2>5
    <3>2. Distinct
      BY <1>d
    <3>3. QED
      <4> HIDE DEF at
      <4>1. QED
        BY <2>5, <3>1, <3>2 DEF Distinct
  <2>7. QED
    BY <2>3, <2>4, <2>6
<1>3. CASE ~Indexing(p)
  <2>1. entries' = entries
    BY <1>3, MovesOwn DEF Moves, Quiet
  <2>2. QED
    BY <1>d, <2>1 DEF Distinct
<1>4. QED
  BY <1>1, <1>2, <1>3 DEF Indexing

(* Whoever works on a record goes on having the index of its key.          *)
LEMMA AimedStep ==
  ASSUME IInv, Workable(scenario), NEW p \in Proc \ dead, Moves(p)
  PROVE  Aimed'
<1>o. Own(p)
  BY MovesOwn
<1>1. ASSUME NEW q \in Proc, Aims(q)', Aims(q), KeyOf(q)' = KeyOf(q), Idx(q)' = Idx(q),
             ~Unindexed(p)
      PROVE  entries'[KeyOf(q)'] # <<>> /\ Idx(q)' = Head(entries'[KeyOf(q)'])
  <2>1. entries[KeyOf(q)] # <<>> /\ Idx(q) = Head(entries[KeyOf(q)]) /\ KeyOf(q) \in Key
    BY <1>1, AimedSlot DEF IInv, Aimed
  <2>2. CASE Indexed(p)
    <3>1. KeyOf(p) \in Key /\ Idx(p) \in Indices
      BY <2>2, PublishNext
    <3>2. /\ entries'[KeyOf(q)] # <<>>
          /\ Head(entries'[KeyOf(q)]) = Head(entries[KeyOf(q)])
      BY <2>1, <2>2, <3>1, IndexAdded DEF Indexed, IInv
    <3>3. QED
      BY <1>1, <2>1, <3>2
  <2>3. CASE ~Indexing(p)
    BY <1>1, <2>1, <2>3, MovesOwn DEF Moves, Quiet
  <2>4. QED
    BY <1>1, <2>2, <2>3 DEF Indexing
<1>2. ASSUME NEW q \in Proc \ {p}, Aims(q)'
      PROVE  entries'[KeyOf(q)'] # <<>> /\ Idx(q)' = Head(entries'[KeyOf(q)'])
  <2>1. Aims(q) /\ KeyOf(q)' = KeyOf(q) /\ Idx(q)' = Idx(q)
    BY <1>o, <1>2, Others
  <2>2. ~Unindexed(p)
    <3>1. SUFFICES ASSUME Unindexed(p) PROVE FALSE
      OBVIOUS
    <3>2. pc[q] = "idle"
      BY <3>1, Solo DEF Unindexed, From, IInv
    <3>3. QED
      BY <2>1, <3>2 DEF Aims, Reading, Writing, Freeing, Counting
  <2>3. QED
    BY <1>1, <1>2, <2>1, <2>2
<1>3. ASSUME Aims(p)'
      PROVE  entries'[KeyOf(p)'] # <<>> /\ Idx(p)' = Head(entries'[KeyOf(p)'])
  <2> USE DEF IsOp, Reading, Writing, Freeing, Counting
  <2>t. local[p] \in Locals
    BY DEF IInv, Typing
  <2>1. CASE Hit(p)
    BY <2>t, <2>1 DEF Hit, Keeps, Quiet, Looks, KeyOf, Idx, Locals
  <2>2. CASE ~Hit(p)
    <3>1. ~Began(p) /\ ~Returned(p) /\ ~Skipped(p) /\ ~Rewrote(p)
      BY <1>3 DEF Began, Returned, Skipped, Rewrote, From, Aims
    <3>2. call'[p] = call[p]
      BY <3>1, CallWays
    <3>3. Aims(p) /\ Idx(p)' = Idx(p)
      <4>1. CASE Private(p)
        BY <1>3, <2>t, <2>2, <3>1, <3>2, <4>1 DEF Private, From, Same, Looks, Missed,
           Locked, Unlocked, Aborted, Entered, TookHead, SawLink, Strayed, SawCount,
           SawState, SawSize, SawLo, Passes, Applied, Tested, Stepped, Stopped, Overran,
           SawFirst, Aims, Idx, Locals
      <4>2. CASE Heading(p) \/ Storing(p) \/ Indexing(p)
        BY <1>3, <2>t, <3>1, <3>2, <4>2 DEF Heading, Storing, Indexing, From, Same,
           Looks, Popped, CountedUp, CountedDown, Pushed, WroteState, WroteSize,
           WroteLo, Filled, WroteFree, WroteLink, Indexed, Unindexed, Aims, Idx, Locals
      <4>3. QED
        BY <4>1, <4>2 DEF Moves
    <3>4. KeyOf(p)' = KeyOf(p) /\ ~Unindexed(p)
      BY <1>3, <3>2 DEF KeyOf, Unindexed, From, Aims
    <3>5. QED
      BY <1>1, <1>3, <3>3, <3>4
  <2>3. QED
    BY <2>1, <2>2
<1>4. QED
  BY <1>2, <1>3 DEF Aimed

-----------------------------------------------------------------------------
(* Slots on the free list and off it.                                      *)

(* While somebody puts a slot on the list, nobody has one off it.          *)
LEMMA TakenOrLinked ==
  ASSUME IInv, Workable(scenario), NEW p \in Proc, Linked(p)
  PROVE  \A q \in Proc : /\ ~Taken(q) /\ ~Uncounted(q)
                         /\ Linked(q) \/ Overcounted(q) => q = p
<1>1. ~Taken(p) /\ ~Uncounted(p)
  BY DEF Linked, Taken, Uncounted, IsOp
<1>2. \A q \in Proc \ {p} : pc[q] = "idle"
  BY Solo DEF IInv, Linked, Counting
<1>3. \A q \in Proc \ {p} : ~Taken(q) /\ ~Uncounted(q) /\ ~Linked(q) /\ ~Overcounted(q)
  BY <1>2 DEF Taken, Uncounted, Linked, Overcounted, Counting, Writing
<1>4. QED
  BY <1>1, <1>3

(* Whoever writes a slot has it off the list.                              *)
LEMMA StoringWays ==
  ASSUME IInv, Workable(scenario), NEW p \in Proc \ dead, Storing(p)
  PROVE  /\ Own(p) /\ header' = header /\ entries' = entries
         /\ Idx(p) \in Indices /\ \A i \in Indices \ {Idx(p)} : slot'[i] = slot[i]
         /\ Taken(p) \/ (Aims(p) /\ ~Linked(p))
         /\ Off(Idx(p))
         /\ Idx(p)' = Idx(p)
         /\ \A q \in Proc : /\ Taken(q)' <=> Taken(q)
                            /\ Linked(q)' <=> Linked(q)
                            /\ Uncounted(q)' <=> Uncounted(q)
                            /\ Overcounted(q)' <=> Overcounted(q)
<1>o. Own(p) /\ header' = header /\ entries' = entries
  BY MovesOwn DEF Moves
<1>1. Idx(p) \in Indices /\ \A i \in Indices \ {Idx(p)} : slot'[i] = slot[i]
  BY DEF Storing, Stored, WroteState, WroteSize, WroteLo, Filled, Rewrote, WroteFree,
     WroteLink
<1>t. call[p] \in Requested
  BY DEF IInv, Typing
<1>2. /\ Taken(p) \/ (Aims(p) /\ ~Linked(p))
      /\ Idx(p)' = Idx(p)
      /\ Taken(p)' <=> Taken(p)
      /\ Linked(p)' <=> Linked(p)
      /\ Uncounted(p)' <=> Uncounted(p)
      /\ Overcounted(p)' <=> Overcounted(p)
  BY <1>t DEF Storing, WroteState, WroteSize, WroteLo, Filled, Rewrote, WroteFree,
     WroteLink, Taken, Linked, Uncounted, Overcounted, Aims, IsOp, Idx, Counting,
     Writing, Reading, Freeing, From, Same, Requested
<1>3. Off(Idx(p))
  <2>1. CASE Taken(p)
    BY <2>1 DEF Off
  <2>2. CASE Aims(p) /\ ~Linked(p)
    <3>1. Idx(p) \in Published
      BY <2>2, AimedSlot DEF IInv
    <3>2. ASSUME NEW q \in Proc, Linked(q) PROVE FALSE
      <4>1. pc[p] = "idle"
        BY <2>2, <3>2, Solo DEF IInv, Linked, Counting
      <4>2. QED
        BY <2>2, <4>1 DEF Aims, Reading, Writing, Freeing, Counting
    <3>3. QED
      BY <3>1, <3>2 DEF Off
  <2>3. QED
    BY <1>2, <2>1, <2>2
<1>4. QED
  BY <1>o, <1>1, <1>2, <1>3, Others

(* The steps on the header, as seen by the slots.                          *)
LEMMA HeadingWays ==
  ASSUME IInv, NEW p \in Proc \ dead, Heading(p)
  PROVE  /\ Own(p) /\ slot' = slot /\ entries' = entries /\ Published' = Published
         /\ Idx(p)' = Idx(p)
         /\ ~Popped(p) => Taken(p)' = Taken(p)
         /\ ~Pushed(p) => Linked(p)' = Linked(p)
         /\ Freed(p)' = Freed(p) /\ Rewriting(p)' = Rewriting(p)
<1>1. Own(p) /\ slot' = slot /\ entries' = entries
  BY MovesOwn DEF Moves
<1>2. Published' = Published
  BY <1>1 DEF Published
<1>3. local[p] \in Locals
  BY DEF IInv, Typing
<1>4. QED
  BY <1>1, <1>2, <1>3 DEF Heading, Popped, Pushed, CountedUp, CountedDown, From, Same,
     Looks, Taken, Linked, Freed, Rewriting, IsOp, Idx, Counting, Writing, Locals

(* The slot an insertion takes is nobody's.                                *)
LEMMA NobodysSlot ==
  ASSUME IInv, Workable(scenario), NEW p \in Proc \ dead, Popped(p)
  PROVE  /\ Idx(p) \in Indices /\ Idx(p) \notin Published
         /\ \A q \in Proc : ~(Taken(q) /\ Idx(q) = Idx(p)) /\ ~Linked(q)
<1>1. Idx(p) \in Indices /\ ~Off(Idx(p))
  BY HeadSeen DEF Popped, From
<1>2. \A q \in Proc : ~(Taken(q) /\ Idx(q) = Idx(p))
  BY <1>1 DEF Off
<1>3. ASSUME NEW q \in Proc, Linked(q) PROVE FALSE
  <2>1. p # q
    BY <1>3 DEF Linked, Popped, IsOp
  <2>2. pc[p] = "idle"
    BY <1>3, <2>1, Solo DEF Linked, Counting, IInv
  <2>3. QED
    BY <2>2 DEF Popped, From
<1>4. QED
  BY <1>1, <1>2, <1>3 DEF Off

(* Taken slots stay in one hand each.                                      *)
LEMMA ApartStep ==
  ASSUME IInv, Workable(scenario), NEW p \in Proc \ dead, Moves(p)
  PROVE  Apart'
<1>a. /\ \A q \in Proc : Taken(q) => Idx(q) \in Indices /\ Idx(q) \notin Published
      /\ \A q, r \in Proc : Taken(q) /\ Taken(r) /\ Idx(q) = Idx(r) => q = r
  BY DEF IInv, Apart
<1>o. Own(p)
  BY MovesOwn
<1>1. CASE Private(p)
  <2>1. Published' = Published
    BY <1>1, PrivateWays DEF Quiet, Published
  <2>2. \A q \in Proc : Taken(q)' => Taken(q) /\ Idx(q)' = Idx(q)
    BY <1>1, PrivateWays
  <2>3. QED
    BY <1>a, <2>1, <2>2 DEF Apart
<1>2. CASE Storing(p)
  <2>1. Published' = Published
    BY <1>2, StoringWays DEF Published
  <2>2. \A q \in Proc : Taken(q)' => Taken(q) /\ Idx(q)' = Idx(q)
    BY <1>2, StoringWays, Others
  <2>3. QED
    BY <1>a, <2>1, <2>2 DEF Apart
<1>3. CASE Heading(p)
  <2>1. Published' = Published /\ Idx(p)' = Idx(p)
    BY <1>3, HeadingWays
  <2>2. \A q \in Proc : Idx(q)' = Idx(q)
    BY <1>o, <2>1, Others
  <2>3. CASE Popped(p)
    <3>1. /\ Idx(p) \in Indices /\ Idx(p) \notin Published
          /\ \A q \in Proc : ~(Taken(q) /\ Idx(q) = Idx(p))
      BY <2>3, NobodysSlot
    <3>2. \A q \in Proc \ {p} : Taken(q)' => Taken(q)
      BY <1>o, Others
    <3>3. QED
      BY <1>a, <2>1, <2>2, <3>1, <3>2 DEF Apart
  <2>4. CASE ~Popped(p)
    <3>1. \A q \in Proc : Taken(q)' => Taken(q)
      BY <1>3, <1>o, <2>4, HeadingWays, Others
    <3>2. QED
      BY <1>a, <2>1, <2>2, <3>1 DEF Apart
  <2>5. QED
    BY <2>3, <2>4
<1>4. CASE Indexing(p)
  <2>1. ~Taken(p)'
    BY <1>4 DEF Indexing, Indexed, Unindexed, From, Taken, Counting, Writing
  <2>2. \A q \in Proc \ {p} : Taken(q)' => Taken(q) /\ Idx(q)' = Idx(q)
    BY <1>o, Others
  <2>3. ASSUME NEW q \in Proc \ {p}, Taken(q) PROVE Idx(q) \notin Published'
    <3>1. CASE Indexed(p)
      BY <1>a, <2>3, <3>1, PublishNext
    <3>2. CASE Unindexed(p)
      BY <1>a, <2>3, <3>2, UnpublishNext
    <3>3. QED
      BY <1>4, <3>1, <3>2 DEF Indexing
  <2>4. QED
    BY <1>a, <2>1, <2>2, <2>3 DEF Apart
<1>5. QED
  BY <1>1, <1>2, <1>3, <1>4 DEF Moves

-----------------------------------------------------------------------------
(* The free list and the count.                                            *)

(* Steps that leave the list alone and keep the balance.                   *)
LEMMA ListStays ==
  ASSUME IInv, header'.firstFree = header.firstFree,
         \A i \in Indices : ~Off(i) => slot'[i] = slot[i],
         \A i \in Indices : Off(i)' <=> Off(i),
         \A n \in Nat : Balanced(n) => Balanced(n)'
  PROVE  Listed'
<1>n. PICK n \in Nat : \E order :
        /\ IsList(n, order) /\ Balanced(n)
        /\ \A i \in Indices : Off(i) <=> \A j \in 1 .. n : order[j] # i
  BY PickList
<1>1. PICK order :
        /\ IsList(n, order) /\ Balanced(n)
        /\ \A i \in Indices : Off(i) <=> \A j \in 1 .. n : order[j] # i
  BY <1>n
<1>2. n \in 0 .. Capacity /\ order \in [1 .. n + 1 -> 0 .. Capacity]
  <2>1. n <= Capacity
    BY <1>1, ListShort
  <2>2. QED
    BY <1>1, <2>1, Numbers DEF IsList
<1>3. \A j \in 1 .. n : slot'[order[j]] = slot[order[j]]
  BY <1>1 DEF IsList
<1>4. IsList(n, order)'
  BY <1>1, <1>3 DEF IsList
<1>5. Balanced(n)'
  BY <1>1
<1>6. QED
  BY <1>1, <1>2, <1>4, <1>5 DEF Listed

(* What is off the list stays there if everybody keeps to his slot.        *)
LEMMA OffStays ==
  ASSUME Published' = Published,
         \A q \in Proc : /\ Taken(q)' <=> Taken(q)
                         /\ Linked(q)' <=> Linked(q)
                         /\ Taken(q) \/ Linked(q) => Idx(q)' = Idx(q)
  PROVE  \A i \in Indices : Off(i)' <=> Off(i)
BY DEF Off

(* The balance, if count stays and nobody gets between list and count.     *)
LEMMA BalanceStays ==
  ASSUME Typing, NEW p \in Proc \ dead, Own(p), header' = header,
         \A q \in Proc : /\ Uncounted(q)' <=> Uncounted(q)
                         /\ Overcounted(q)' <=> Overcounted(q)
  PROVE  \A n \in Nat : Balanced(n) => Balanced(n)'
<1>1. Lost => Lost'
  BY DeadStay
<1>2. /\ (\E q \in Proc : Uncounted(q)') <=> \E q \in Proc : Uncounted(q)
      /\ (\E q \in Proc : Overcounted(q)') <=> \E q \in Proc : Overcounted(q)
  OBVIOUS
<1>3. QED
  BY <1>1, <1>2 DEF Balanced, Ticks

(* The insertion under way is the only one that may be uncounted, but for  *)
(* one that died.                                                          *)
LEMMA OthersCounted ==
  ASSUME IInv, NEW p \in Proc \ dead, IsOp(p, "insert"), Holds(p)
  PROVE  Lost \/ \A q \in Proc \ {p} : ~Uncounted(q)
<1>1. SUFFICES ASSUME ~Lost, NEW q \in Proc \ {p}, Uncounted(q) PROVE FALSE
  OBVIOUS
<1>2. q \in Proc \ dead
  BY <1>1 DEF Lost
<1>3. IsOp(q, "insert") /\ Holds(q)
  BY <1>1 DEF Uncounted, Holds
<1>4. QED
  BY <1>1, <1>2, <1>3, OneInserter

(* Counting an insertion.                                                  *)
LEMMA CountedUpListed ==
  ASSUME IInv, Workable(scenario), NEW p \in Proc \ dead, CountedUp(p)
  PROVE  Listed'
<1>o. Own(p) /\ slot' = slot /\ Published' = Published /\ Idx(p)' = Idx(p)
      /\ (Taken(p)' <=> Taken(p)) /\ (Linked(p)' <=> Linked(p))
  BY HeadingWays DEF Heading, CountedUp, Popped, Pushed, From
<1>1. \A i \in Indices : Off(i)' <=> Off(i)
  <2>1. \A q \in Proc : /\ Taken(q)' <=> Taken(q)
                        /\ Linked(q)' <=> Linked(q)
                        /\ Idx(q)' = Idx(q)
    BY <1>o, Others
  <2>2. QED
    BY <1>o, <2>1, OffStays
<1>2. Uncounted(p) /\ ~Uncounted(p)' /\ ~Overcounted(p) /\ ~Overcounted(p)'
  BY DEF CountedUp, From, Looks, Uncounted, Overcounted, Counting, IsOp
<1>3. Lost \/ \A q \in Proc \ {p} : ~Uncounted(q)
  BY OthersCounted DEF CountedUp, From, Holds, Counting
<1>4. header.count \in Nat /\ header'.count = header.count + 1
      /\ header'.firstFree = header.firstFree
  <2>1. local[p].tmp = header.count
    BY DEF CountedUp, From, IInv, Knowledge, Insertion
  <2>2. QED
    BY <2>1, Numbers DEF CountedUp, IInv, Typing
<1>5. ASSUME NEW n \in Nat, Balanced(n) PROVE Balanced(n)'
  <2>1. CASE Lost
    BY <1>o, <2>1, DeadStay DEF Balanced, IInv
  <2>2. CASE ~Lost
    <3>1. (\E q \in Proc : Uncounted(q)) /\ ~(\E q \in Proc : Uncounted(q)')
      BY <1>o, <1>2, <1>3, <2>2, Others
    <3>2. (\E q \in Proc : Overcounted(q)') <=> \E q \in Proc : Overcounted(q)
      BY <1>o, <1>2, Others
    <3>3. PICK t \in Nat : /\ t = Ticks(\E q \in Proc : Overcounted(q))
                           /\ header.count + n + 1 = Capacity + t
      BY <1>5, <2>2, <3>1 DEF Balanced, Ticks
    <3>4. header'.count + n + 0 = Capacity + t
      <4>1. header.count + n + 1 = Capacity + t
        BY <3>3
      <4>2. QED
        BY <1>4, <4>1, Numbers
    <3>5. QED
      BY <3>1, <3>2, <3>3, <3>4 DEF Balanced, Ticks
  <2>3. QED
    BY <2>1, <2>2
<1>6. QED
  BY <1>o, <1>1, <1>4, <1>5, ListStays

(* Counting a removal.                                                     *)
LEMMA CountedDownListed ==
  ASSUME IInv, Workable(scenario), NEW p \in Proc \ dead, CountedDown(p)
  PROVE  Listed'
<1>o. Own(p) /\ slot' = slot /\ Published' = Published /\ Idx(p)' = Idx(p)
      /\ (Taken(p)' <=> Taken(p)) /\ (Linked(p)' <=> Linked(p))
  BY HeadingWays DEF Heading, CountedDown, Popped, Pushed, From
<1>1. \A i \in Indices : Off(i)' <=> Off(i)
  <2>1. \A q \in Proc : /\ Taken(q)' <=> Taken(q)
                        /\ Linked(q)' <=> Linked(q)
                        /\ Idx(q)' = Idx(q)
    BY <1>o, Others
  <2>2. QED
    BY <1>o, <2>1, OffStays
<1>2. Overcounted(p) /\ ~Overcounted(p)' /\ ~Uncounted(p) /\ ~Uncounted(p)' /\ Linked(p)
  BY DEF CountedDown, From, Same, Uncounted, Overcounted, Counting, IsOp, Linked
<1>3. \A q \in Proc : ~Uncounted(q) /\ (Overcounted(q) => q = p)
  BY <1>2, TakenOrLinked
<1>4. /\ header.count \in Nat /\ header'.count = header.count - 1
      /\ header'.firstFree = header.firstFree
  <2>1. local[p].tmp = header.count
    BY DEF CountedDown, From, IInv, Knowledge, Removal
  <2>2. QED
    BY <2>1, Numbers DEF CountedDown, IInv, Typing
<1>5. ASSUME NEW n \in Nat, Balanced(n) PROVE Balanced(n)'
  <2>1. CASE Lost
    BY <1>o, <2>1, DeadStay DEF Balanced, IInv
  <2>2. CASE ~Lost
    <3>1. /\ ~(\E q \in Proc : Uncounted(q)) /\ ~(\E q \in Proc : Uncounted(q)')
          /\ (\E q \in Proc : Overcounted(q)) /\ ~(\E q \in Proc : Overcounted(q)')
      BY <1>o, <1>2, <1>3, Others
    <3>2. header.count + n + 0 = Capacity + 1
      BY <1>5, <2>2, <3>1 DEF Balanced, Ticks
    <3>3. header'.count + n + 0 = Capacity + 0
      BY <1>4, <3>2, Numbers
    <3>4. QED
      BY <3>1, <3>3 DEF Balanced, Ticks
  <2>3. QED
    BY <2>1, <2>2
<1>6. QED
  BY <1>o, <1>1, <1>4, <1>5, ListStays

(* Publishing and unpublishing a slot: the list stays.                     *)
LEMMA IndexingListed ==
  ASSUME IInv, Workable(scenario), NEW p \in Proc \ dead, Indexing(p)
  PROVE  Listed'
<1>o. Own(p) /\ header' = header /\ slot' = slot
  BY MovesOwn DEF Moves
<1>1. /\ ~Uncounted(p) /\ ~Uncounted(p)' /\ ~Overcounted(p) /\ ~Overcounted(p)'
      /\ ~Taken(p)' /\ ~Linked(p)'
  BY DEF Indexing, Indexed, Unindexed, From, Uncounted, Overcounted, Counting, Taken,
     Linked, Writing
<1>2. \A n \in Nat : Balanced(n) => Balanced(n)'
  <2>1. \A q \in Proc : /\ Uncounted(q)' <=> Uncounted(q)
                        /\ Overcounted(q)' <=> Overcounted(q)
    BY <1>o, <1>1, Others
  <2>2. QED
    BY <1>o, <2>1, BalanceStays DEF IInv
<1>3. CASE Indexed(p)
  <2>1. /\ Taken(p) /\ \A i : i \in Published' <=> i \in Published \/ i = Idx(p)
    BY <1>3, PublishNext
  <2>2. ASSUME NEW q \in Proc PROVE ~Linked(q)
    <3>1. pc[p] # "idle"
      BY <1>3 DEF Indexed, From
    <3>2. ~Linked(p)
      BY <1>3 DEF Indexed, Linked, IsOp
    <3>3. QED
      BY <3>1, <3>2, Solo DEF Linked, IInv, Counting
  <2>3. \A i \in Indices : Off(i)' <=> Off(i)
    <3>1. \A q \in Proc \ {p} : /\ Taken(q)' <=> Taken(q)
                                /\ ~Linked(q)'
                                /\ Idx(q)' = Idx(q)
      BY <1>o, <2>2, Others
    <3>2. QED
      BY <1>1, <2>1, <2>2, <3>1 DEF Off
  <2>4. QED
    BY <1>o, <1>2, <2>3, ListStays
<1>4. CASE Unindexed(p)
  <2>1. /\ Linked(p) /\ \A i : i \in Published' <=> i \in Published /\ i # Idx(p)
    BY <1>4, UnpublishNext
  <2>2. \A q \in Proc : ~Taken(q) /\ (Linked(q) => q = p)
    BY <2>1, TakenOrLinked
  <2>3. \A i \in Indices : Off(i)' <=> Off(i)
    <3>1. \A q \in Proc : ~Taken(q)' /\ ~Linked(q)'
      BY <1>o, <1>1, <2>2, Others
    <3>2. QED
      BY <2>1, <2>2, <3>1 DEF Off
  <2>4. QED
    BY <1>o, <1>2, <2>3, ListStays
<1>5. QED
  BY <1>3, <1>4 DEF Indexing

(* Taking the first slot off the list.                                     *)
LEMMA PoppedListed ==
  ASSUME IInv, Workable(scenario), NEW p \in Proc \ dead, Popped(p)
  PROVE  Listed'
<1>o. Own(p) /\ slot' = slot /\ Published' = Published /\ Idx(p)' = Idx(p)
      /\ (Linked(p)' <=> Linked(p))
  BY HeadingWays DEF Heading, Popped, Pushed, From, IsOp
<1>h. /\ Idx(p) = header.firstFree /\ Idx(p) \in Indices
      /\ header'.firstFree = slot[Idx(p)].size /\ header'.count = header.count
      /\ header.count \in Nat
  BY HeadSeen, Numbers DEF Popped, From, IInv, Typing
<1>n. PICK n \in Nat : \E order :
        /\ IsList(n, order) /\ Balanced(n)
        /\ \A i \in Indices : Off(i) <=> \A j \in 1 .. n : order[j] # i
  BY PickList
<1>1. PICK order :
        /\ IsList(n, order) /\ Balanced(n)
        /\ \A i \in Indices : Off(i) <=> \A j \in 1 .. n : order[j] # i
  BY <1>n
<1>2. /\ n >= 1 /\ order[1] = Idx(p) /\ order[2] = header'.firstFree
      /\ n <= Capacity
      /\ order \in [1 .. n + 1 -> 0 .. Capacity] /\ order[n + 1] = Capacity
  <2>1. n >= 1 /\ order[1] = Idx(p) /\ order[2] = header'.firstFree
    BY <1>1, <1>h, HeadOfList DEF IInv
  <2>2. n <= Capacity
    BY <1>1, ListShort
  <2>3. QED
    BY <1>1, <2>1, <2>2 DEF IsList
<1> DEFINE m == n - 1
           rest == [j \in 1 .. m + 1 |-> order[j + 1]]
<1>3. m \in 0 .. Capacity /\ m \in Nat /\ m + 1 = n
  BY <1>2, Numbers
<1>4. \A j \in 1 .. m + 1 : rest[j] = order[j + 1] /\ j + 1 \in 1 .. n + 1
  BY <1>3
<1>5. IsList(m, rest)'
  <2>1. rest \in [1 .. m + 1 -> 0 .. Capacity]
    BY <1>2, <1>4
  <2>2. rest[1] = header'.firstFree /\ rest[m + 1] = Capacity
    BY <1>2, <1>3, <1>4
  <2>3. ASSUME NEW j \in 1 .. m
        PROVE  /\ rest[j] \in Indices /\ slot'[rest[j]].state = "Free"
               /\ slot'[rest[j]].size = rest[j + 1]
    <3>1. /\ j + 1 \in 1 .. n /\ rest[j] = order[j + 1]
          /\ rest[j + 1] = order[(j + 1) + 1]
      BY <1>3, <1>4
    <3>2. /\ order[j + 1] \in Indices /\ slot[order[j + 1]].state = "Free"
          /\ slot[order[j + 1]].size = order[(j + 1) + 1]
      BY <1>1, <3>1 DEF IsList
    <3>3. QED
      BY <1>o, <3>1, <3>2
  <2>4. ASSUME NEW j \in 1 .. m, NEW k \in 1 .. m, rest[j] = rest[k] PROVE j = k
    <3>1. /\ j + 1 \in 1 .. n /\ rest[j] = order[j + 1]
          /\ k + 1 \in 1 .. n /\ rest[k] = order[k + 1]
      BY <1>3, <1>4
    <3>2. j + 1 = k + 1
      BY <1>1, <2>4, <3>1 DEF IsList
    <3>3. QED
      BY <3>2
  <2>5. QED
    <3> HIDE DEF m, rest
    <3>1. QED
      BY <2>1, <2>2, <2>3, <2>4 DEF IsList
<1>6. Balanced(m)'
  <2>1. CASE Lost
    <3>1. Lost'
      BY <1>o, <2>1, DeadStay DEF IInv
    <3>2. QED
      BY <3>1 DEF Balanced
  <2>2. CASE ~Lost
    <3>1. ~Uncounted(p) /\ Uncounted(p)' /\ (Overcounted(p)' <=> Overcounted(p))
      BY DEF Popped, From, Same, Uncounted, Overcounted, Counting, IsOp
    <3>2. \A q \in Proc \ {p} : ~Uncounted(q)
      BY <2>2, OthersCounted DEF Popped, From, Holds
    <3>3. ~(\E q \in Proc : Uncounted(q)) /\ (\E q \in Proc : Uncounted(q)')
      BY <3>1, <3>2
    <3>4. (\E q \in Proc : Overcounted(q)') <=> \E q \in Proc : Overcounted(q)
      BY <1>o, <3>1, Others
    <3>5. PICK t \in Nat : /\ t = Ticks(\E q \in Proc : Overcounted(q))
                           /\ header.count + n + 0 = Capacity + t
      BY <1>1, <2>2, <3>3 DEF Balanced, Ticks
    <3>6. header'.count + m + 1 = Capacity + t
      <4>1. header.count + n + 0 = Capacity + t
        BY <3>5
      <4>2. QED
        BY <1>h, <1>2, <4>1, Numbers
    <3>7. QED
      <4> HIDE DEF m
      <4>1. QED
        BY <3>3, <3>4, <3>5, <3>6 DEF Balanced, Ticks
  <2>3. QED
    BY <2>1, <2>2
<1>7. ASSUME NEW i \in Indices PROVE Off(i)' <=> \A j \in 1 .. m : rest[j] # i
  <2>1. Off(i)' <=> Off(i) \/ i = Idx(p)
    <3>1. \A q \in Proc : Idx(q)' = Idx(q) /\ (Linked(q)' <=> Linked(q))
      BY <1>o, Others
    <3>2. \A q \in Proc \ {p} : Taken(q)' <=> Taken(q)
      BY <1>o, Others
    <3>3. Taken(p)' /\ ~Taken(p)
      BY DEF Popped, From, Same, Taken, Counting, Writing, IsOp
    <3>4. QED
      BY <1>o, <3>1, <3>2, <3>3 DEF Off
  <2>2. (\A j \in 1 .. m : rest[j] # i) <=> (\A j \in 1 .. n : order[j] # i) \/ i = order[1]
    <3>1. ASSUME \A j \in 1 .. m : rest[j] # i, i # order[1], NEW j \in 1 .. n
          PROVE  order[j] # i
      <4>1. CASE j = 1
        BY <3>1, <4>1
      <4>2. CASE j # 1
        <5>1. j - 1 \in 1 .. m /\ (j - 1) + 1 = j
          BY <1>3, <4>2
        <5>2. rest[j - 1] = order[j]
          BY <5>1
        <5>3. QED
          BY <3>1, <5>1, <5>2
      <4>3. QED
        BY <4>1, <4>2
    <3>2. ASSUME NEW j \in 1 .. m, rest[j] = i
          PROVE  i # order[1] /\ \E k \in 1 .. n : order[k] = i
      <4>1. j + 1 \in 1 .. n /\ 1 \in 1 .. n /\ j + 1 # 1 /\ order[j + 1] = i
        BY <1>3, <1>4, <3>2
      <4>2. order[j + 1] # order[1]
        BY <1>1, <4>1 DEF IsList
      <4>3. QED
        BY <4>1, <4>2
    <3>3. QED
      <4> HIDE DEF m, rest
      <4>1. QED
        BY <3>1, <3>2
  <2>3. QED
    BY <1>1, <1>2, <2>1, <2>2
<1>8. QED
  <2>1. rest \in [1 .. m + 1 -> 0 .. Capacity]
    BY <1>2, <1>4
  <2> HIDE DEF m, rest
  <2>2. QED
    BY <1>3, <1>5, <1>6, <1>7, <2>1 DEF Listed

(* Putting a slot in front of the list.                                    *)
LEMMA PushedListed ==
  ASSUME IInv, Workable(scenario), NEW p \in Proc \ dead, Pushed(p)
  PROVE  Listed'
<1>o. Own(p) /\ slot' = slot /\ Published' = Published /\ Idx(p)' = Idx(p)
      /\ (Taken(p)' <=> Taken(p))
  BY HeadingWays DEF Heading, Popped, Pushed, From, IsOp
<1>a. /\ Idx(p) \in Indices /\ Idx(p) \in Published
      /\ slot[Idx(p)].state = "Free" /\ slot[Idx(p)].size = header.firstFree
      /\ header'.firstFree = Idx(p) /\ header'.count = header.count
      /\ header.count \in Nat
  <2>1. Aims(p)
    BY DEF Pushed, From, Aims, Freeing
  <2>2. slot[Idx(p)].state = "Free" /\ slot[Idx(p)].size = header.firstFree
    BY DEF Pushed, From, IInv, Knowledge, Removal
  <2>3. QED
    BY <2>1, <2>2, AimedSlot, Numbers DEF Pushed, IInv, Typing
<1>b. \A q \in Proc : /\ ~Linked(q) /\ ~Overcounted(q)
                      /\ ~Taken(q) /\ ~Uncounted(q)
  <2>1. \A q \in Proc \ {p} : pc[q] = "idle"
    BY Solo DEF IInv, Pushed, From
  <2>2. QED
    BY <2>1 DEF Linked, Overcounted, Taken, Uncounted, Counting, Writing, Pushed, From,
       IsOp
<1>n. PICK n \in Nat : \E order :
        /\ IsList(n, order) /\ Balanced(n)
        /\ \A i \in Indices : Off(i) <=> \A j \in 1 .. n : order[j] # i
  BY PickList
<1>1. PICK order :
        /\ IsList(n, order) /\ Balanced(n)
        /\ \A i \in Indices : Off(i) <=> \A j \in 1 .. n : order[j] # i
  BY <1>n
<1>2. /\ n < Capacity /\ order[1] = header.firstFree
      /\ order \in [1 .. n + 1 -> 0 .. Capacity] /\ order[n + 1] = Capacity
      /\ \A j \in 1 .. n : order[j] # Idx(p)
  <2>1. \A j \in 1 .. n : order[j] # Idx(p)
    BY <1>a, <1>b, <1>1 DEF Off
  <2>2. n < Capacity
    BY <1>a, <1>1, <2>1, ListShort
  <2>3. QED
    BY <1>1, <2>1, <2>2 DEF IsList
<1>p. PICK here \in Indices : here = Idx(p)
  BY <1>a
<1> DEFINE m == n + 1
           longer == [j \in 1 .. m + 1 |-> IF j = 1 THEN here ELSE order[j - 1]]
<1>3. m \in 0 .. Capacity /\ m \in Nat
  BY <1>2, Numbers
<1>4. /\ longer[1] = here
      /\ \A j \in 1 .. m : j + 1 \in 1 .. m + 1 /\ longer[j + 1] = order[j]
      /\ \A j \in 1 .. m : j = 1 \/ (j - 1 \in 1 .. n /\ longer[j] = order[j - 1])
  BY <1>3
<1>l. longer \in [1 .. m + 1 -> 0 .. Capacity]
  <2>1. here \in 0 .. Capacity
    BY Numbers
  <2>2. \A j \in 1 .. m + 1 : j = 1 \/ order[j - 1] \in 0 .. Capacity
    BY <1>2
  <2>3. QED
    BY <2>1, <2>2
<1>5. IsList(m, longer)'
  <2>2. longer[1] = header'.firstFree /\ longer[m + 1] = Capacity
    BY <1>a, <1>p, <1>2, <1>3, <1>4
  <2>3. ASSUME NEW j \in 1 .. m
        PROVE  /\ longer[j] \in Indices /\ slot'[longer[j]].state = "Free"
               /\ slot'[longer[j]].size = longer[j + 1]
    <3>1. CASE j = 1
      <4>1. longer[j] = here /\ longer[j + 1] = order[1]
        BY <1>3, <1>4, <3>1
      <4>2. QED
        BY <1>o, <1>a, <1>p, <1>2, <4>1
    <3>2. CASE j # 1
      <4>1. /\ j - 1 \in 1 .. n /\ longer[j] = order[j - 1]
            /\ longer[j + 1] = order[(j - 1) + 1]
        BY <1>3, <1>4, <3>2
      <4>2. /\ order[j - 1] \in Indices /\ slot[order[j - 1]].state = "Free"
            /\ slot[order[j - 1]].size = order[(j - 1) + 1]
        BY <1>1, <4>1 DEF IsList
      <4>3. QED
        BY <1>o, <4>1, <4>2
    <3>3. QED
      BY <3>1, <3>2
  <2>4. ASSUME NEW j \in 1 .. m, NEW k \in 1 .. m, longer[j] = longer[k] PROVE j = k
    <3>1. CASE j = 1 \/ k = 1
      BY <1>2, <1>4, <1>p, <2>4, <3>1
    <3>2. CASE j # 1 /\ k # 1
      <4>1. /\ j - 1 \in 1 .. n /\ longer[j] = order[j - 1]
            /\ k - 1 \in 1 .. n /\ longer[k] = order[k - 1]
        BY <1>4, <3>2
      <4>2. j - 1 = k - 1
        BY <1>1, <2>4, <4>1 DEF IsList
      <4>3. QED
        BY <4>2
    <3>3. QED
      BY <3>1, <3>2
  <2>5. QED
    <3> HIDE DEF m, longer
    <3>1. QED
      BY <1>l, <2>2, <2>3, <2>4 DEF IsList
<1>6. Balanced(m)'
  <2>1. CASE Lost
    <3>1. Lost'
      BY <1>o, <2>1, DeadStay DEF IInv
    <3>2. QED
      BY <3>1 DEF Balanced
  <2>2. CASE ~Lost
    <3>1. ~Uncounted(p)' /\ Overcounted(p)'
      BY DEF Pushed, From, Same, Uncounted, Overcounted, Counting, IsOp
    <3>2. /\ ~(\E q \in Proc : Uncounted(q)) /\ ~(\E q \in Proc : Uncounted(q)')
          /\ ~(\E q \in Proc : Overcounted(q)) /\ (\E q \in Proc : Overcounted(q)')
      BY <1>o, <1>b, <3>1, Others
    <3>3. header.count + n + 0 = Capacity + 0
      BY <1>1, <2>2, <3>2 DEF Balanced, Ticks
    <3>4. header'.count + m + 0 = Capacity + 1
      BY <1>a, <3>3, Numbers
    <3>5. QED
      <4> HIDE DEF m
      <4>1. QED
        BY <3>2, <3>4 DEF Balanced, Ticks
  <2>3. QED
    BY <2>1, <2>2
<1>7. ASSUME NEW i \in Indices PROVE Off(i)' <=> \A j \in 1 .. m : longer[j] # i
  <2>1. Off(i)' <=> Off(i) /\ i # Idx(p)
    <3>1. Linked(p)'
      BY DEF Pushed, From, Same, Linked, Counting, IsOp
    <3>2. \A q \in Proc : ~Taken(q)' /\ (Linked(q)' <=> q = p)
      BY <1>o, <1>b, <3>1, Others
    <3>3. QED
      BY <1>o, <1>b, <3>2 DEF Off
  <2>2. (\A j \in 1 .. m : longer[j] # i)
          <=> (\A j \in 1 .. n : order[j] # i) /\ i # Idx(p)
    <3>1. 1 \in 1 .. m /\ \A j \in 1 .. n : j + 1 \in 1 .. m /\ longer[j + 1] = order[j]
      BY <1>4
    <3>2. QED
      <4> HIDE DEF m, longer
      <4>1. QED
        BY <1>4, <1>p, <3>1
  <2>3. QED
    BY <1>1, <2>1, <2>2
<1>8. QED
  <2> HIDE DEF m, longer
  <2>1. QED
    BY <1>3, <1>5, <1>6, <1>7, <1>l DEF Listed

(* A step keeps the free list whole, and in balance with count.            *)
LEMMA ListedStep ==
  ASSUME IInv, Workable(scenario), NEW p \in Proc \ dead, Moves(p)
  PROVE  Listed'
<1>1. CASE Private(p)
  <2>1. /\ header' = header /\ slot' = slot /\ Published' = Published /\ Own(p)
    BY <1>1, PrivateWays DEF Quiet, Published
  <2>2. \A n \in Nat : Balanced(n) => Balanced(n)'
    BY <1>1, <2>1, PrivateWays, BalanceStays DEF IInv
  <2>3. \A i \in Indices : Off(i)' <=> Off(i)
    BY <1>1, <2>1, PrivateWays, OffStays
  <2>4. QED
    BY <2>1, <2>2, <2>3, ListStays
<1>2. CASE Storing(p)
  <2>1. /\ Own(p) /\ header' = header /\ Published' = Published
        /\ \A i \in Indices \ {Idx(p)} : slot'[i] = slot[i]
        /\ Off(Idx(p)) /\ Idx(p)' = Idx(p)
        /\ \A q \in Proc : /\ Taken(q)' <=> Taken(q)
                           /\ Linked(q)' <=> Linked(q)
                           /\ Uncounted(q)' <=> Uncounted(q)
                           /\ Overcounted(q)' <=> Overcounted(q)
    BY <1>2, StoringWays DEF Published
  <2>2. \A q \in Proc : Idx(q)' = Idx(q)
    BY <2>1, Others
  <2>3. \A n \in Nat : Balanced(n) => Balanced(n)'
    BY <2>1, BalanceStays DEF IInv
  <2>4. \A i \in Indices : Off(i)' <=> Off(i)
    BY <2>1, <2>2, OffStays
  <2>5. QED
    BY <2>1, <2>3, <2>4, ListStays
<1>3. CASE Heading(p)
  BY <1>3, PoppedListed, PushedListed, CountedUpListed, CountedDownListed DEF Heading
<1>4. QED
  BY <1>1, <1>2, <1>3, IndexingListed DEF Moves

-----------------------------------------------------------------------------
(* The records.                                                            *)

(* Whoever writes a published slot is an update or a removal of its key.   *)
LEMMA WritesItsKey ==
  ASSUME IInv, Workable(scenario), NEW p \in Proc \ dead, Storing(p),
         NEW k \in Key, NEW j \in DOMAIN entries[k], entries[k][j] = Idx(p)
  PROVE  /\ Aims(p) /\ ~Taken(p) /\ k = KeyOf(p)
         /\ \/ IsOp(p, "update") /\ pc[p] \in Writing
            \/ IsOp(p, "remove") /\ pc[p] \in {"rm_state", "rm_size"}
<1>1. Idx(p) \in Published
  BY PublishedSlots DEF IInv
<1>2. ~Taken(p)
  BY <1>1 DEF IInv, Apart
<1>3. Aims(p)
  BY <1>2, StoringWays
<1>4. /\ KeyOf(p) \in Key /\ 1 \in DOMAIN entries[KeyOf(p)]
      /\ entries[KeyOf(p)][1] = Idx(p)
  BY <1>3, AimedSlot DEF IInv
<1>5. k = KeyOf(p)
  BY <1>4 DEF IInv, Distinct
<1>6. \/ IsOp(p, "update") /\ pc[p] \in Writing
      \/ IsOp(p, "remove") /\ pc[p] \in {"rm_state", "rm_size"}
  BY <1>3 DEF Storing, WroteState, WroteSize, WroteLo, Filled, Rewrote, WroteFree,
     WroteLink, Aims, From, Writing, IsOp
<1>7. QED
  BY <1>2, <1>3, <1>5, <1>6

(* A record keeps its key, and whoever leaves it half-written is known.    *)
LEMMA RewritingKeepsRecord ==
  ASSUME IInv, Workable(scenario), NEW p \in Proc \ dead, Storing(p),
         NEW k \in Key, NEW j \in DOMAIN entries[k], entries[k][j] = Idx(p)
  PROVE  Recorded(k, Idx(p))'
<1>a. PICK i \in Indices : i = Idx(p) /\ Idx(p)' = i
  BY StoringWays
<1>o. /\ Own(p) /\ Aims(p) /\ k = KeyOf(p)
      /\ \/ IsOp(p, "update") /\ pc[p] \in Writing
         \/ IsOp(p, "remove") /\ pc[p] \in {"rm_state", "rm_size"}
  BY WritesItsKey, StoringWays
<1>r. Recorded(k, i)
  BY <1>a DEF IInv, Contents
<1>s. slot[i] \in SlotType
  BY DEF IInv, Typing
<1>w. \A q \in Proc \ {p} : /\ Idx(q)' = Idx(q)
                            /\ Freed(q)' <=> Freed(q)
                            /\ Rewriting(q)' <=> Rewriting(q)
  BY <1>o, Others
<1> USE DEF Recorded, Complete
<1>1. CASE WroteState(p)
  <2>1. slot'[i] = [slot[i] EXCEPT !.state = "Occupied"]
    BY <1>1, <1>a DEF WroteState, Stored
  <2>2. /\ slot'[i].state = "Occupied" /\ slot'[i].lo = slot[i].lo
        /\ slot'[i].hi = slot[i].hi /\ slot'[i].size = slot[i].size
    BY <1>s, <2>1 DEF SlotType
  <2>3. ~Rewriting(p)
    BY <1>1 DEF WroteState, From, Rewriting, Freed, IsOp, Counting
  <2>4. Complete(k, i)' \/ \E q \in Proc : Rewriting(q)' /\ Idx(q)' = i
    BY <1>r, <1>w, <2>2, <2>3
  <2>5. QED
    BY <1>a, <1>r, <2>2, <2>4
<1>2. CASE WroteSize(p)
  <2>1. slot'[i] = [slot[i] EXCEPT !.size = LenOf(local[p].lo.val)]
    BY <1>2, <1>a DEF WroteSize, Stored
  <2>2. /\ slot'[i].state = slot[i].state /\ slot'[i].lo = slot[i].lo
        /\ slot'[i].hi = slot[i].hi
    BY <1>s, <2>1 DEF SlotType
  <2>3. Rewriting(p)' /\ ~Freed(p)
    BY <1>2, <1>o DEF WroteSize, From, Same, Rewriting, Freed, IsOp, Counting
  <2>4. QED
    BY <1>a, <1>r, <1>w, <2>2, <2>3
<1>3. CASE WroteLo(p)
  <2>1. slot'[i] = [slot[i] EXCEPT !.lo = local[p].lo]
    BY <1>3, <1>a DEF WroteLo, Stored
  <2>2. /\ slot'[i].state = slot[i].state /\ slot'[i].lo = local[p].lo
        /\ slot'[i].hi = slot[i].hi
    BY <1>s, <2>1 DEF SlotType
  <2>3. Rewriting(p)' /\ ~Freed(p) /\ IsOp(p, "update")
    BY <1>3, <1>o DEF WroteLo, From, Same, Rewriting, Freed, IsOp, Counting
  <2>4. local[p].lo.key = k /\ slot[i].hi.val <= local[p].lo.val
    BY <1>3, <1>a, <1>o, <2>3 DEF WroteLo, From, IInv, Knowledge, Revision, Writing
  <2>5. QED
    BY <1>a, <1>r, <1>w, <2>2, <2>3, <2>4
<1>4. CASE Rewrote(p)
  <2>1. slot'[i] = [slot[i] EXCEPT !.hi = local[p].hi]
    BY <1>4, <1>a DEF Rewrote, Stored
  <2>2. /\ slot'[i].state = slot[i].state /\ slot'[i].lo = slot[i].lo
        /\ slot'[i].hi = local[p].hi /\ slot'[i].size = slot[i].size
    BY <1>s, <2>1 DEF SlotType
  <2>3. IsOp(p, "update") /\ pc[p] = "wr_hi"
    BY <1>4 DEF Rewrote, From
  <2>4. /\ local[p].hi.key = k /\ local[p].hi.val <= local[p].lo.val
        /\ slot[i].lo = local[p].lo /\ slot[i].size = LenOf(local[p].lo.val)
        /\ local[p].lo = local[p].hi \/ Torn(i)
    BY <1>a, <1>o, <2>3 DEF IInv, Knowledge, Revision, Writing
  <2>5. slot[i].state = "Occupied"
    <3>1. SUFFICES ASSUME NEW q \in Proc, Freed(q) PROVE FALSE
      BY <1>r
    <3>2. q # p
      BY <2>3, <3>1 DEF Freed, IsOp
    <3>3. pc[p] = "idle"
      BY <3>1, <3>2, Solo DEF Freed, Counting, IInv
    <3>4. QED
      BY <2>3, <3>3
  <2>6. Complete(k, i)' \/ \E q \in Proc : Rewriting(q)' /\ Idx(q)' = i
    <3>1. CASE local[p].lo = local[p].hi
      BY <1>r, <2>2, <2>4, <2>5, <3>1
    <3>2. CASE Torn(i)
      <4>1. PICK q \in dead : Rewriting(q) /\ Idx(q) = i
        BY <3>2 DEF Torn
      <4>2. q \in Proc \ {p}
        BY DEF IInv, Typing
      <4>3. QED
        BY <1>w, <4>1, <4>2
    <3>3. QED
      BY <2>4, <3>1, <3>2
  <2>7. QED
    BY <1>a, <1>r, <2>2, <2>4, <2>5, <2>6
<1>5. CASE WroteFree(p) \/ WroteLink(p)
  <2>1. \/ slot'[i] = [slot[i] EXCEPT !.state = "Free"]
        \/ slot'[i] = [slot[i] EXCEPT !.size = local[p].tmp]
    BY <1>5, <1>a DEF WroteFree, WroteLink, Stored
  <2>2. slot'[i].lo = slot[i].lo /\ slot'[i].hi = slot[i].hi
    BY <1>s, <2>1 DEF SlotType
  <2>3. Freed(p)' /\ Rewriting(p)'
    BY <1>5 DEF WroteFree, WroteLink, From, Same, Rewriting, Freed, IsOp
  <2>4. QED
    BY <1>a, <1>r, <2>2, <2>3
<1>6. ~Filled(p)
  BY <1>o DEF Filled, IsOp
<1>7. QED
  BY <1>1, <1>2, <1>3, <1>4, <1>5, <1>6 DEF Storing

(* Where nobody writes, a record stays.                                    *)
LEMMA RecordStays ==
  ASSUME NEW k \in Key, NEW i \in Indices, Recorded(k, i), slot'[i] = slot[i],
         \A q \in Proc : Idx(q) = i =>
           /\ Freed(q) => Freed(q)' /\ Idx(q)' = i
           /\ Rewriting(q) => Rewriting(q)' /\ Idx(q)' = i
  PROVE  Recorded(k, i)'
BY DEF Recorded, Complete

(* A step keeps what the index leads to records of their keys.             *)
LEMMA ContentsStep ==
  ASSUME IInv, Workable(scenario), NEW p \in Proc \ dead, Moves(p)
  PROVE  Contents'
<1>o. Own(p)
  BY MovesOwn
<1>e. /\ entries \in [Key -> Seq(Indices)]
      /\ \A k \in Key : \A j \in DOMAIN entries[k] :
           entries[k][j] \in Indices /\ Recorded(k, entries[k][j])
  <2>1. entries \in [Key -> Seq(Indices)]
    BY DEF IInv, Typing
  <2>2. QED
    BY <2>1 DEF IInv, Contents
<1>w. \A q \in Proc \ {p} : /\ Idx(q)' = Idx(q)
                            /\ Freed(q)' <=> Freed(q)
                            /\ Rewriting(q)' <=> Rewriting(q)
  BY <1>o, Others
<1>1. CASE Private(p)
  <2>1. slot' = slot /\ entries' = entries
    BY <1>1, PrivateWays DEF Quiet
  <2>2. \A q \in Proc : /\ Freed(q) => Freed(q)' /\ Idx(q)' = Idx(q)
                        /\ Rewriting(q) => Rewriting(q)' /\ Idx(q)' = Idx(q)
    BY <1>1, PrivateWays
  <2>3. \A k \in Key : \A j \in DOMAIN entries[k] : Recorded(k, entries[k][j])'
    <3>1. SUFFICES ASSUME NEW k \in Key, NEW j \in DOMAIN entries[k]
                   PROVE  Recorded(k, entries[k][j])'
      OBVIOUS
    <3>2. PICK i \in Indices : i = entries[k][j] /\ Recorded(k, i)
      BY <1>e
    <3>3. Recorded(k, i)'
      BY <2>1, <2>2, <3>2, RecordStays
    <3>4. QED
      BY <2>1, <3>2, <3>3
  <2>4. QED
    BY <2>1, <2>3 DEF Contents
<1>2. CASE Heading(p)
  <2>1. slot' = slot /\ entries' = entries
    BY <1>2, HeadingWays
  <2>2. \A q \in Proc : /\ Freed(q) => Freed(q)' /\ Idx(q)' = Idx(q)
                        /\ Rewriting(q) => Rewriting(q)' /\ Idx(q)' = Idx(q)
    BY <1>2, <1>w, HeadingWays
  <2>3. \A k \in Key : \A j \in DOMAIN entries[k] : Recorded(k, entries[k][j])'
    <3>1. SUFFICES ASSUME NEW k \in Key, NEW j \in DOMAIN entries[k]
                   PROVE  Recorded(k, entries[k][j])'
      OBVIOUS
    <3>2. PICK i \in Indices : i = entries[k][j] /\ Recorded(k, i)
      BY <1>e
    <3>3. Recorded(k, i)'
      BY <2>1, <2>2, <3>2, RecordStays
    <3>4. QED
      BY <2>1, <3>2, <3>3
  <2>4. QED
    BY <2>1, <2>3 DEF Contents
<1>3. CASE Storing(p)
  <2>1. entries' = entries /\ Idx(p)' = Idx(p)
        /\ \A i \in Indices \ {Idx(p)} : slot'[i] = slot[i]
    BY <1>3, StoringWays
  <2>2. \A k \in Key : \A j \in DOMAIN entries[k] : Recorded(k, entries[k][j])'
    <3>1. SUFFICES ASSUME NEW k \in Key, NEW j \in DOMAIN entries[k]
                   PROVE  Recorded(k, entries[k][j])'
      OBVIOUS
    <3>2. PICK i \in Indices : i = entries[k][j] /\ Recorded(k, i)
      BY <1>e
    <3>3. CASE i = Idx(p)
      <4>1. Recorded(k, Idx(p))'
        BY <1>3, <3>2, <3>3, RewritingKeepsRecord
      <4>2. QED
        BY <2>1, <3>2, <3>3, <4>1
    <3>4. CASE i # Idx(p)
      <4>1. Recorded(k, i)'
        BY <1>w, <2>1, <3>2, <3>4, RecordStays
      <4>2. QED
        BY <2>1, <3>2, <4>1
    <3>5. QED
      BY <3>3, <3>4
  <2>3. QED
    BY <2>1, <2>2 DEF Contents
<1>4. CASE Indexed(p)
  <2>1. KeyOf(p) \in Key /\ Idx(p) \in Indices /\ slot' = slot /\ Taken(p)
    BY <1>4, PublishNext DEF Indexed
  <2>2. \A l \in Key : \A j \in DOMAIN entries'[l] :
          \/ j \in DOMAIN entries[l] /\ entries'[l][j] = entries[l][j]
          \/ l = KeyOf(p) /\ entries'[l][j] = Idx(p)
    BY <1>4, <2>1, IndexAdded DEF Indexed, IInv
  <2>3. ~Freed(p) /\ ~Rewriting(p)
    BY <2>1 DEF Taken, Freed, Rewriting, IsOp
  <2>4. SUFFICES ASSUME NEW k \in Key, NEW j \in DOMAIN entries'[k]
                 PROVE  Recorded(k, entries[k][j])'
    BY DEF Contents
  <2>5. CASE j \in DOMAIN entries[k] /\ entries'[k][j] = entries[k][j]
    <3>1. PICK i \in Indices : i = entries[k][j] /\ Recorded(k, i)
      BY <1>e, <2>5
    <3>2. Recorded(k, i)'
      BY <1>w, <2>1, <2>3, <3>1, RecordStays
    <3>3. QED
      BY <2>5, <3>1, <3>2
  <2>6. CASE k = KeyOf(p) /\ entries'[k][j] = Idx(p)
    <3>1. PICK i \in Indices : i = Idx(p)
      BY <2>1
    <3>2. /\ slot[i].state = "Occupied" /\ slot[i].lo = local[p].lo
          /\ slot[i].hi = local[p].hi /\ local[p].lo = local[p].hi
          /\ slot[i].size = LenOf(local[p].lo.val) /\ local[p].lo.key = k
      BY <1>4, <2>6, <3>1 DEF Indexed, From, IInv, Knowledge, Insertion
    <3>3. slot[i].lo.val <= slot[i].lo.val
      <4>1. slot[i].lo.val \in Nat
        BY <3>1, Numbers DEF IInv, Typing, SlotType, Words
      <4>2. QED
        BY <4>1
    <3>4. Recorded(k, i)'
      BY <2>1, <3>2, <3>3 DEF Recorded, Complete
    <3>5. QED
      BY <2>6, <3>1, <3>4
  <2>7. QED
    BY <2>2, <2>5, <2>6
<1>5. CASE Unindexed(p)
  <2>1. /\ KeyOf(p) \in Key /\ entries[KeyOf(p)] # <<>> /\ slot' = slot
        /\ \A i : i \in Published' <=> i \in Published /\ i # Idx(p)
    BY <1>5, UnpublishNext DEF Unindexed
  <2>2. /\ \A l \in Key \ {KeyOf(p)} : entries'[l] = entries[l]
        /\ \A j \in DOMAIN entries'[KeyOf(p)] :
             /\ j + 1 \in DOMAIN entries[KeyOf(p)]
             /\ entries'[KeyOf(p)][j] = entries[KeyOf(p)][j + 1]
    BY <1>5, <2>1, IndexDropped DEF Unindexed, IInv
  <2>3. SUFFICES ASSUME NEW k \in Key, NEW j \in DOMAIN entries'[k]
                 PROVE  Recorded(k, entries[k][j])'
    BY DEF Contents
  <2>4. PICK m \in DOMAIN entries[k] : entries'[k][j] = entries[k][m]
    BY <2>2, <2>3
  <2>5. PICK i \in Indices : i = entries[k][m] /\ Recorded(k, i)
    BY <1>e
  <2>6. i \in Published'
    BY <2>4, <2>5 DEF Published
  <2>7. i # Idx(p)
    BY <2>1, <2>6
  <2>8. Recorded(k, i)'
    BY <1>w, <2>1, <2>5, <2>7, RecordStays
  <2>9. QED
    BY <2>4, <2>5, <2>8
<1>6. QED
  BY <1>1, <1>2, <1>3, <1>4, <1>5 DEF Moves, Indexing

-----------------------------------------------------------------------------
(* Insertions and iterations stay inside.                                  *)

(* An insertion that finds no slot has a lost one to blame.                *)
LEMMA StrayedLost ==
  ASSUME IInv, Workable(scenario), NEW p \in Proc \ dead, Strayed(p)
  PROVE  Lost
<1>1. /\ IsOp(p, "insert") /\ pc[p] = "next" /\ Idx(p) = header.firstFree
      /\ header.count < Capacity /\ Idx(p) \notin Indices /\ header.count \in Nat
  BY Numbers DEF Strayed, From, IInv, Knowledge, Insertion, Typing
<1>2. SUFFICES ASSUME ~Lost PROVE FALSE
  OBVIOUS
<1>n. PICK n \in Nat : \E order :
        /\ IsList(n, order) /\ Balanced(n)
        /\ \A i \in Indices : Off(i) <=> \A j \in 1 .. n : order[j] # i
  BY PickList
<1>3. PICK order :
        /\ IsList(n, order) /\ Balanced(n)
        /\ \A i \in Indices : Off(i) <=> \A j \in 1 .. n : order[j] # i
  BY <1>n
<1>4. n = 0
  <2>1. SUFFICES ASSUME n >= 1 PROVE FALSE
    OBVIOUS
  <2>2. 1 \in 1 .. n
    BY <2>1
  <2>3. order[1] \in Indices /\ order[1] = header.firstFree
    BY <1>3, <2>2 DEF IsList
  <2>4. QED
    BY <1>1, <2>3
<1>5. \A q \in Proc : ~Uncounted(q)
  <2>1. \A q \in Proc \ {p} : ~Uncounted(q)
    BY <1>1, <1>2, OthersCounted DEF Holds
  <2>2. ~Uncounted(p)
    BY <1>1 DEF Uncounted, Counting
  <2>3. QED
    BY <2>1, <2>2
<1>6. PICK t \in Nat : header.count + n + 0 = Capacity + t
  BY <1>2, <1>3, <1>5 DEF Balanced, Ticks
<1>7. QED
  <2>1. header.count + n + 0 = Capacity + t
    BY <1>6
  <2>2. QED
    BY <1>1, <1>4, <2>1, Numbers

(* A step follows no link past the end unless a slot is lost.              *)
LEMMA WildnessStep ==
  ASSUME IInv, Workable(scenario), NEW p \in Proc \ dead, Moves(p)
  PROVE  Wildness'
<1>o. Own(p) /\ (Lost' <=> Lost)
  BY MovesOwn, DeadStay DEF IInv
<1>1. ASSUME NEW q \in Proc \ {p}, pc'[q] = "wild" PROVE Lost'
  BY <1>o, <1>1 DEF IInv, Wildness, Own
<1>2. ASSUME pc'[p] = "wild" PROVE Lost'
  <2>1. Strayed(p) \/ Overran(p)
    BY <1>2 DEF Moves, Private, Heading, Storing, Indexing, From, Began, Returned, Hit,
       Missed, Skipped, Locked, Unlocked, Aborted, Entered, TookHead, SawLink, SawCount,
       SawState, SawSize, SawLo, Passes, Applied, Tested, Stepped, Stopped, SawFirst,
       Popped, CountedUp, CountedDown, Pushed, WroteState, WroteSize, WroteLo, Filled,
       Rewrote, WroteFree, WroteLink, Indexed, Unindexed
  <2>2. ~Overran(p)
    BY NoOverrun DEF Overran, From
  <2>3. QED
    BY <1>o, <2>1, <2>2, StrayedLost
<1>3. QED
  BY <1>1, <1>2 DEF Wildness

-----------------------------------------------------------------------------
(* What a call under way knows after a step of its own.                    *)

(* What an insertion knows after its own step.                             *)
LEMMA InsertionOwn ==
  ASSUME IInv, NEW p \in Proc \ dead, Moves(p)
  PROVE  Insertion(p)'
<1>i. Insertion(p) /\ Stands(p)
  BY DEF IInv, Knowledge, Control
<1>t. /\ local[p] \in Locals
      /\ header \in [count : 0 .. Capacity, firstFree : 0 .. Capacity]
      /\ slot \in [Indices -> SlotType]
  BY DEF IInv, Typing
<1> USE DEF Writing, Counting
<1>1. CASE Private(p)
  <2>1. Quiet
    BY <1>1, MovesOwn DEF Moves
  <2>2. CASE \/ Began(p) \/ Returned(p) \/ Hit(p) \/ Missed(p) \/ Skipped(p)
             \/ Locked(p) \/ Unlocked(p) \/ Aborted(p) \/ Strayed(p)
    BY <2>2 DEF Began, Returned, Hit, Missed, Skipped, Locked, Unlocked, Aborted, Strayed,
       From, Same, Looks, Insertion, IsOp
  <2>3. CASE Entered(p) \/ TookHead(p) \/ SawLink(p) \/ SawCount(p)
    BY <1>i, <1>t, <2>1, <2>3 DEF Entered, TookHead, SawLink, SawCount, From, Same,
       Looks, Insertion, IsOp, Quiet, Locals, Idx
  <2>4. CASE \/ SawState(p) \/ SawSize(p) \/ SawLo(p) \/ Passes(p) \/ Applied(p)
             \/ Tested(p) \/ Stepped(p) \/ Stopped(p) \/ Overran(p) \/ SawFirst(p)
    BY <2>4 DEF SawState, SawSize, SawLo, Passes, Applied, Tested, Stepped, Stopped,
       Overran, SawFirst, From, Same, Looks, Insertion, IsOp
  <2>5. QED
    BY <1>1, <2>2, <2>3, <2>4 DEF Private
<1>2. CASE Popped(p)
  <2>1. header'.count = header.count
    BY <1>t, <1>2 DEF Popped
  <2>2. QED
    BY <1>i, <1>2, <2>1 DEF Popped, From, Same, Insertion, IsOp
<1>3. CASE CountedUp(p)
  <2>1. local'[p].lo = local'[p].hi /\ local'[p].lo.key = KeyOf(p)
        /\ KeyOf(p)' = KeyOf(p)
    BY <1>t, <1>3 DEF CountedUp, Looks, Locals, Word, KeyOf
  <2>2. QED
    BY <1>3, <2>1 DEF CountedUp, From, Looks, Insertion
<1>4. CASE CountedDown(p) \/ Pushed(p)
  BY <1>4 DEF CountedDown, Pushed, Same, Insertion, IsOp
<1>5. CASE Storing(p) /\ IsOp(p, "insert")
  <2>1. slot[Idx(p)] \in SlotType
    BY <1>t, <1>5 DEF Storing, Stored, WroteState, WroteSize, WroteLo, Filled, Rewrote,
       WroteFree, WroteLink
  <2>2. QED
    BY <1>i, <1>5, <2>1 DEF Storing, Stored, WroteState, WroteSize, WroteLo, Filled,
       Rewrote, WroteFree, WroteLink, From, Same, Insertion, IsOp, SlotType, Idx, KeyOf
<1>6. CASE Storing(p) /\ ~IsOp(p, "insert")
  <2>1. call[p] \in Requested
    BY DEF IInv, Typing
  <2>2. QED
    BY <1>6, <2>1 DEF Storing, WroteState, WroteSize, WroteLo, Filled, Rewrote,
       WroteFree, WroteLink, Same, Insertion, IsOp, Requested
<1>7. CASE Indexing(p)
  BY <1>7 DEF Indexing, Indexed, Unindexed, From, Insertion
<1>8. QED
  BY <1>1, <1>2, <1>3, <1>4, <1>5, <1>6, <1>7 DEF Moves, Heading

(* What an update has read of a record it may write back.                  *)
LEMMA AppliedRevision ==
  ASSUME IInv, Workable(scenario), NEW p \in Proc \ dead, Applied(p)
  PROVE  Revision(p)'
<1>1. PICK i \in Indices : i = Idx(p)
  BY ReadRecord DEF Applied, From
<1>2. /\ local[p].lo = slot[i].lo /\ local[p].lo.key = KeyOf(p)
      /\ slot[i].hi.key = KeyOf(p) /\ slot[i].hi.val <= local[p].lo.val
      /\ Recorded(KeyOf(p), i)
  BY <1>1, ReadRecord DEF Applied, From
<1>t. local[p] \in Locals /\ slot[i].hi.val \in Nat /\ local[p].lo.val \in Nat
  <2>1. local[p] \in Locals /\ slot[i] \in SlotType
    BY DEF IInv, Typing
  <2>2. QED
    BY <2>1, Numbers DEF Locals, SlotType, Words
<1>3. /\ local'[p].lo = Word(local[p].lo.key, local[p].lo.val + 1)
      /\ local'[p].hi = Word(slot[i].hi.key, slot[i].hi.val + 1)
      /\ local'[p].idx = i /\ call'[p] = call[p] /\ pc'[p] = "wr_state" /\ slot' = slot
  BY <1>1, <1>t DEF Applied, Looks, From, Keeps, Quiet, Locals, Idx
<1>4. slot[i].lo = slot[i].hi \/ Torn(i)
  <2>1. SUFFICES ASSUME slot[i].lo # slot[i].hi PROVE Torn(i)
    OBVIOUS
  <2>2. PICK q \in Proc : Rewriting(q) /\ Idx(q) = i
    BY <1>2, <2>1 DEF Recorded, Complete
  <2>3. q # p
    BY <2>2 DEF Rewriting, Freed, IsOp, Applied, From
  <2>4. ~IsOp(q, "remove")
    <3>1. SUFFICES ASSUME IsOp(q, "remove") PROVE FALSE
      OBVIOUS
    <3>2. pc[p] = "idle"
      BY <2>2, <2>3, <3>1, Solo DEF IInv, Rewriting, Freed, Counting
    <3>3. QED
      BY <3>2 DEF Applied, From
  <2>5. IsOp(q, "update") /\ pc[q] \in {"wr_lo", "wr_hi"}
    BY <2>2, <2>4 DEF Rewriting, Freed
  <2>6. q \in dead
    <3>1. SUFFICES ASSUME q \in Proc \ dead PROVE FALSE
      OBVIOUS
    <3>2. Holds(q) /\ Holds(p)
      BY <2>5 DEF Holds, Writing, Reading, Applied, From
    <3>3. Sem(q) = Sem(p)
      BY <1>1, <2>2, <2>5 DEF Sem, Applied, IsOp
    <3>4. QED
      BY <2>3, <3>1, <3>2, <3>3, OneHolder
  <2>7. QED
    BY <2>2, <2>6 DEF Torn
<1>5. Torn(i)' <=> Torn(i)
  BY DeadStay DEF Applied, Keeps, IInv
<1>6. /\ local'[p].lo.key = KeyOf(p) /\ local'[p].hi.key = KeyOf(p)
      /\ local'[p].lo.val = local[p].lo.val + 1
      /\ local'[p].hi.val = slot[i].hi.val + 1
  BY <1>2, <1>3 DEF Word
<1>7. local'[p].hi.val <= local'[p].lo.val /\ slot'[i].hi.val <= local'[p].lo.val
  BY <1>2, <1>3, <1>6, <1>t
<1>8. local'[p].lo = local'[p].hi \/ Torn(i)'
  BY <1>2, <1>3, <1>4, <1>5
<1>9. KeyOf(p)' = KeyOf(p) /\ Idx(p)' = i
  BY <1>3 DEF KeyOf, Idx
<1>10. local'[p].lo = local'[p].hi \/ Torn(Idx(p))'
  BY <1>8, <1>9 DEF Torn
<1>11. QED
  BY <1>3, <1>6, <1>7, <1>9, <1>10 DEF Revision, IsOp

(* What an update knows after its own step.                                *)
LEMMA RevisionOwn ==
  ASSUME IInv, Workable(scenario), NEW p \in Proc \ dead, Moves(p)
  PROVE  Revision(p)'
<1>i. Revision(p) /\ Stands(p)
  BY DEF IInv, Knowledge, Control
<1>t. local[p] \in Locals /\ call[p] \in Requested /\ slot \in [Indices -> SlotType]
  BY DEF IInv, Typing
<1> USE DEF Writing
<1>1. CASE Private(p)
  <2>1. CASE \/ Began(p) \/ Returned(p) \/ Hit(p) \/ Missed(p) \/ Skipped(p)
             \/ Locked(p) \/ Unlocked(p) \/ Aborted(p)
    BY <2>1 DEF Began, Returned, Hit, Missed, Skipped, Locked, Unlocked, Aborted,
       From, Same, Looks, Revision, IsOp
  <2>2. CASE Entered(p) \/ TookHead(p) \/ SawLink(p) \/ SawCount(p) \/ Strayed(p)
    BY <2>2 DEF Entered, TookHead, SawLink, SawCount, Strayed, From, Same, Looks,
       Revision
  <2>3. CASE \/ SawState(p) \/ SawSize(p) \/ Passes(p)
             \/ Tested(p) \/ Stepped(p) \/ Stopped(p) \/ Overran(p) \/ SawFirst(p)
    BY <2>3 DEF SawState, SawSize, Passes, Tested, Stepped, Stopped,
       Overran, SawFirst, From, Same, Looks, Revision
  <2>4. CASE SawLo(p)
    <3>1. local'[p].lo = slot[Idx(p)].lo /\ Idx(p)' = Idx(p) /\ slot' = slot
      BY <1>t, <2>4 DEF SawLo, Looks, Locals, Idx, Keeps, Quiet
    <3>2. QED
      BY <2>4, <3>1 DEF SawLo, From, Revision
  <2>5. QED
    BY <1>1, <2>1, <2>2, <2>3, <2>4, AppliedRevision DEF Private
<1>2. CASE Heading(p) \/ Indexing(p)
  BY <1>2 DEF Heading, Popped, CountedUp, CountedDown, Pushed, Indexing, Indexed,
     Unindexed, From, Same, Looks, Revision, IsOp
<1>3. CASE Storing(p) /\ IsOp(p, "update")
  <2>1. PICK i \in Indices : i = Idx(p)
    BY <1>3, StoringWays
  <2>2. slot[i] \in SlotType
    BY <1>t
  <2>3. CASE Rewrote(p)
    BY <2>3 DEF Rewrote, From, Revision
  <2>4. CASE ~Rewrote(p)
    <3>1. /\ call'[p] = call[p] /\ local'[p] = local[p] /\ KeyOf(p)' = KeyOf(p)
          /\ Idx(p)' = i /\ pc[p] \in Writing
      BY <1>3, <2>1, <2>4 DEF Storing, WroteState, WroteSize, WroteLo, Filled,
         WroteFree, WroteLink, From, Same, KeyOf, Idx, IsOp
    <3>2. /\ local[p].lo.key = KeyOf(p) /\ local[p].hi.key = KeyOf(p)
          /\ local[p].hi.val <= local[p].lo.val
          /\ local[p].lo = local[p].hi \/ Torn(i)
          /\ slot[i].hi.val <= local[p].lo.val
          /\ pc[p] \in {"wr_lo", "wr_hi"} => slot[i].size = LenOf(local[p].lo.val)
      BY <1>i, <1>3, <2>1, <3>1 DEF Revision
    <3>3. Torn(i) => Torn(i)'
      BY <1>3, DeadStay, StoringWays DEF IInv
    <3>4. Torn(i)' => Torn(Idx(p))'
      BY <3>1 DEF Torn
    <3>5. /\ slot'[i].hi = slot[i].hi
          /\ pc'[p] \in {"wr_lo", "wr_hi"} => slot'[i].size = LenOf(local[p].lo.val)
          /\ pc'[p] = "wr_hi" => slot'[i].lo = local[p].lo
      BY <1>3, <2>1, <2>2, <2>4, <3>2 DEF Storing, Stored, WroteState, WroteSize,
         WroteLo, Filled, WroteFree, WroteLink, From, Same, SlotType, IsOp
    <3>6. pc'[p] # "rd_hi"
      BY <1>3, <2>4 DEF Storing, WroteState, WroteSize, WroteLo, Filled, WroteFree,
         WroteLink, From
    <3>7. QED
      BY <3>1, <3>2, <3>3, <3>4, <3>5, <3>6 DEF Revision
  <2>5. QED
    BY <2>3, <2>4
<1>4. CASE Storing(p) /\ ~IsOp(p, "update")
  BY <1>4 DEF Storing, WroteState, WroteSize, WroteLo, Filled, Rewrote,
     WroteFree, WroteLink, Same, Revision, IsOp
<1>5. QED
  BY <1>1, <1>2, <1>3, <1>4 DEF Moves

(* What a removal knows after its own step.                                *)
LEMMA RemovalOwn ==
  ASSUME IInv, NEW p \in Proc \ dead, Moves(p)
  PROVE  Removal(p)'
<1>i. Removal(p) /\ Stands(p)
  BY DEF IInv, Knowledge, Control
<1>t. /\ local[p] \in Locals /\ call[p] \in Requested
      /\ header \in [count : 0 .. Capacity, firstFree : 0 .. Capacity]
      /\ slot \in [Indices -> SlotType]
  BY DEF IInv, Typing
<1>1. CASE Private(p)
  <2>1. CASE \/ Began(p) \/ Returned(p) \/ Hit(p) \/ Missed(p) \/ Skipped(p)
             \/ Locked(p) \/ Unlocked(p) \/ Aborted(p)
    BY <2>1 DEF Began, Returned, Hit, Missed, Skipped, Locked, Unlocked, Aborted,
       From, Same, Looks, Removal, IsOp
  <2>2. CASE Entered(p) \/ TookHead(p) \/ SawLink(p) \/ Strayed(p)
    BY <2>2 DEF Entered, TookHead, SawLink, Strayed, From, Same, Looks, Removal, IsOp
  <2>3. CASE SawCount(p) \/ SawFirst(p)
    BY <1>t, <2>3 DEF SawCount, SawFirst, From, Looks, Removal, Keeps, Quiet, Locals
  <2>4. CASE \/ SawState(p) \/ SawSize(p) \/ SawLo(p) \/ Passes(p) \/ Applied(p)
             \/ Tested(p) \/ Stepped(p) \/ Stopped(p) \/ Overran(p)
    BY <2>4 DEF SawState, SawSize, SawLo, Passes, Applied, Tested, Stepped, Stopped,
       Overran, From, Same, Looks, Removal
  <2>5. QED
    BY <1>1, <2>1, <2>2, <2>3, <2>4 DEF Private
<1>2. CASE Heading(p) \/ Indexing(p)
  BY <1>2 DEF Heading, Popped, CountedUp, CountedDown, Pushed, Indexing, Indexed,
     Unindexed, From, Same, Looks, Removal, IsOp
<1>3. CASE WroteFree(p) \/ WroteLink(p)
  <2>1. Idx(p) \in Indices /\ slot[Idx(p)] \in SlotType
    BY <1>t, <1>3 DEF WroteFree, WroteLink, Stored
  <2>2. QED
    BY <1>i, <1>3, <2>1 DEF WroteFree, WroteLink, Stored, From, Same, Removal, IsOp, Idx,
       SlotType
<1>4. CASE WroteState(p) \/ WroteSize(p) \/ WroteLo(p) \/ Filled(p) \/ Rewrote(p)
  BY <1>t, <1>4 DEF WroteState, WroteSize, WroteLo, Filled, Rewrote, From, Same, Removal
<1>5. QED
  BY <1>1, <1>2, <1>3, <1>4 DEF Moves, Storing

(* Passing a slot passes its record, if it holds one.                      *)
LEMMA PassedNext ==
  ASSUME NEW i \in Indices
  PROVE  /\ Cardinality(Passed(i)) \in Nat
         /\ slot[i].state # "Occupied" => Passed(i + 1) = Passed(i)
         /\ slot[i].state = "Occupied"
              => Cardinality(Passed(i + 1)) = Cardinality(Passed(i)) + 1
<1>1. \A j \in Indices : j < i + 1 <=> j < i \/ j = i
  BY Numbers DEF Indices
<1>2. IsFiniteSet(Passed(i)) /\ i \notin Passed(i)
  <2>1. Passed(i) \subseteq Indices
    BY DEF Passed
  <2>2. ~(i < i)
    BY Numbers DEF Indices
  <2>3. QED
    BY <2>1, <2>2, Numbers, FS_Subset DEF Passed
<1>3. slot[i].state # "Occupied" => Passed(i + 1) = Passed(i)
  BY <1>1 DEF Passed
<1>4. slot[i].state = "Occupied" => Passed(i + 1) = Passed(i) \cup {i}
  BY <1>1 DEF Passed
<1>5. QED
  BY <1>2, <1>3, <1>4, FS_AddElement, FS_CardinalityType

(* While an iteration is under way, every occupied slot is a record.       *)
LEMMA IterationAlone ==
  ASSUME IInv, Workable(scenario), NEW p \in Proc, IsOp(p, "iter"), pc[p] # "idle",
         NEW i \in Indices, slot[i].state = "Occupied"
  PROVE  slot[i].lo.key \in Key
<1>1. \A q \in Proc : ~Taken(q) /\ ~Freed(q)
  <2>1. ~Taken(p) /\ ~Freed(p)
    BY DEF Taken, Freed, IsOp
  <2>2. \A q \in Proc \ {p} : pc[q] = "idle"
    BY Solo DEF IInv
  <2>3. \A q \in Proc \ {p} : ~Taken(q) /\ ~Freed(q)
    BY <2>2 DEF Taken, Freed, Counting, Writing
  <2>4. QED
    BY <2>1, <2>3
<1>2. i \in Published
  BY <1>1, Settled
<1>3. PICK k \in Key : \E j \in DOMAIN entries[k] : entries[k][j] = i
  BY <1>2, PublishedSlots DEF IInv
<1>4. Recorded(k, i)
  BY <1>3 DEF IInv, Contents
<1>5. QED
  BY <1>4 DEF Recorded

(* What an iteration knows after its own step.                             *)
LEMMA IterationOwn ==
  ASSUME IInv, Workable(scenario), NEW p \in Proc \ dead, Moves(p)
  PROVE  Iteration(p)'
<1>i. Iteration(p) /\ Stands(p) /\ Fresh(p)
  BY DEF IInv, Knowledge, Control
<1>t. /\ local[p] \in Locals /\ call[p] \in Requested /\ slot \in [Indices -> SlotType]
  BY DEF IInv, Typing
<1> USE DEF Reading
<1>1. CASE Began(p)
  <2>1. local'[p] = NoLocals /\ pc'[p] \notin {"it_skip"} \cup Reading
    BY <1>1, <1>i DEF Began, Fresh
  <2>2. Len(local'[p].seen) = 0 /\ Idx(p)' = 0
    BY <2>1 DEF NoLocals, Idx
  <2>3. Passed(Idx(p))' = {}
    BY <2>2, Numbers DEF Passed, Indices
  <2>4. Cardinality(Passed(Idx(p)))' = 0
    BY <2>3, FS_EmptySet
  <2>5. QED
    BY <2>1, <2>2, <2>4 DEF Iteration
<1>2. CASE ~Began(p) /\ ~IsOp(p, "iter")
  <2>1. call'[p].op = call[p].op
    BY <1>2, <1>t, CallWays DEF Returned, Skipped, Rewrote, Requested
  <2>2. QED
    BY <1>2, <2>1 DEF Iteration, IsOp
<1>3. CASE ~Began(p) /\ IsOp(p, "iter")
  <2>1. Private(p) /\ ~Locked(p) /\ ~Unlocked(p) /\ ~Hit(p) /\ ~Missed(p) /\ ~Skipped(p)
    BY <1>3, <1>i DEF Moves, Heading, Storing, Indexing, Popped, CountedUp, CountedDown,
       Pushed, WroteState, WroteSize, WroteLo, Filled, Rewrote, WroteFree, WroteLink,
       Indexed, Unindexed, Locked, Unlocked, Hit, Missed, Skipped, From, IsOp, Stands
  <2>2. Quiet
    BY <2>1, MovesOwn DEF Moves
  <2>3. pc[p] # "idle"
    BY <1>3, <2>1 DEF Private, Returned, Aborted, Entered, TookHead, SawLink, Strayed,
       SawCount, SawState, SawSize, SawLo, Passes, Applied, Tested, Stepped, Stopped,
       Overran, SawFirst, From
  <2>4. Len(local[p].seen) = Cardinality(Passed(Idx(p)))
    BY <1>3, <1>i, <2>3 DEF Iteration
  <2>5. ASSUME Idx(p)' = Idx(p) PROVE Passed(Idx(p))' = Passed(Idx(p))
    BY <2>2, <2>5 DEF Passed, Quiet
  <2>6. CASE Returned(p)
    BY <2>6 DEF Returned, Iteration
  <2>7. CASE Tested(p) \/ Stopped(p) \/ SawState(p)
    <3>1. local'[p] = local[p] /\ Idx(p)' = Idx(p) /\ slot' = slot /\ header' = header
      BY <2>2, <2>7 DEF Tested, Stopped, SawState, Same, Idx, Quiet
    <3>2. Len(local'[p].seen) = Cardinality(Passed(Idx(p)))'
      BY <2>4, <2>5, <3>1
    <3>3. pc'[p] = "it_skip" => Len(local'[p].seen) < header'.count
      BY <2>7, <3>1 DEF Tested, Stopped, SawState, From
    <3>4. pc'[p] \in Reading => Idx(p) \in Indices /\ slot[Idx(p)].state = "Occupied"
      <4>1. CASE Stopped(p)
        BY <1>t, <4>1 DEF Stopped, SlotType
      <4>2. CASE SawState(p)
        BY <1>3, <1>i, <4>2 DEF SawState, From, Iteration
      <4>3. CASE Tested(p)
        BY <4>3 DEF Tested, From
      <4>4. QED
        BY <2>7, <4>1, <4>2, <4>3
    <3>5. pc'[p] # "rd_hi"
      BY <2>7 DEF Tested, Stopped, SawState, From
    <3>6. QED
      BY <3>1, <3>2, <3>3, <3>4, <3>5 DEF Iteration
  <2>8. CASE SawSize(p) \/ SawLo(p)
    <3>1. /\ local'[p].seen = local[p].seen /\ Idx(p)' = Idx(p) /\ slot' = slot
          /\ SawLo(p) => local'[p].lo = slot[Idx(p)].lo
      BY <1>t, <2>2, <2>8 DEF SawSize, SawLo, Looks, Locals, Idx, Quiet
    <3>2. Len(local'[p].seen) = Cardinality(Passed(Idx(p)))'
      BY <2>4, <2>5, <3>1
    <3>3. /\ pc'[p] # "it_skip" /\ pc[p] \in Reading
          /\ pc'[p] = "rd_hi" => SawLo(p)
      BY <2>8 DEF SawSize, SawLo, From
    <3>4. Idx(p) \in Indices /\ slot[Idx(p)].state = "Occupied"
      BY <1>3, <1>i, <3>3 DEF Iteration
    <3>5. slot[Idx(p)].lo.key \in Key
      BY <1>3, <2>3, <3>4, IterationAlone
    <3>6. QED
      BY <3>1, <3>2, <3>3, <3>4, <3>5 DEF Iteration
  <2>9. CASE Passes(p)
    <3>1. Idx(p) \in Indices /\ slot[Idx(p)].state = "Occupied"
      BY <1>3, <1>i, <2>9 DEF Passes, From, Iteration
    <3>2. /\ local'[p].seen = Append(local[p].seen, local[p].lo.key)
          /\ Idx(p)' = Idx(p) + 1 /\ slot' = slot
      BY <1>t, <2>2, <2>9 DEF Passes, Looks, Locals, Idx, Quiet
    <3>3. Len(local'[p].seen) = Len(local[p].seen) + 1
      <4>1. local[p].seen \in Seq(Key) /\ local[p].lo.key \in Key
        BY <1>3, <1>i, <1>t, <2>9 DEF Passes, From, Iteration, Locals
      <4>2. QED
        BY <3>2, <4>1
    <3>4. Passed(Idx(p))' = Passed(Idx(p) + 1)
      BY <3>2 DEF Passed
    <3>5. Cardinality(Passed(Idx(p) + 1)) = Cardinality(Passed(Idx(p))) + 1
      BY <3>1, PassedNext
    <3>6. QED
      BY <2>4, <2>9, <3>3, <3>4, <3>5 DEF Iteration, Passes, From
  <2>10. CASE Stepped(p)
    <3>1. Idx(p) \in Indices /\ slot[Idx(p)].state # "Occupied"
      BY <2>10 DEF Stepped
    <3>2. /\ local'[p].seen = local[p].seen /\ Idx(p)' = Idx(p) + 1 /\ slot' = slot
          /\ header' = header
      BY <1>t, <2>2, <2>10 DEF Stepped, Looks, Locals, Idx, Quiet
    <3>3. Passed(Idx(p))' = Passed(Idx(p))
      <4>1. Passed(Idx(p))' = Passed(Idx(p) + 1)
        BY <3>2 DEF Passed
      <4>2. Passed(Idx(p) + 1) = Passed(Idx(p))
        BY <3>1, PassedNext
      <4>3. QED
        BY <4>1, <4>2
    <3>4. Len(local[p].seen) < header.count
      BY <1>3, <1>i, <2>10 DEF Stepped, From, Iteration
    <3>5. QED
      BY <2>4, <2>10, <3>2, <3>3, <3>4 DEF Iteration, Stepped, From
  <2>11. ~Overran(p)
    BY NoOverrun DEF Overran, From
  <2>12. QED
    BY <1>3, <2>1, <2>6, <2>7, <2>8, <2>9, <2>10, <2>11 DEF Private, Aborted, Entered,
       TookHead, SawLink, Strayed, SawCount, Applied, SawFirst, IsOp
<1>4. QED
  BY <1>1, <1>2, <1>3

-----------------------------------------------------------------------------
(* What a call under way knows is not disturbed by the others.             *)

(* Nobody moves beside a removal or an iteration but to begin a call.      *)
LEMMA BesideSolo ==
  ASSUME IInv, Workable(scenario), NEW p \in Proc \ dead, Moves(p),
         NEW q \in Proc \ {p}, pc[q] # "idle", IsOp(q, "remove") \/ IsOp(q, "iter")
  PROVE  header' = header /\ slot' = slot
<1>1. pc[p] = "idle"
  BY Solo DEF IInv
<1>2. Private(p)
  BY <1>1, IdleBegins
<1>3. QED
  BY <1>2, MovesOwn DEF Quiet

(* Nor does anybody change the header during an insertion.                 *)
LEMMA HeaderStays ==
  ASSUME IInv, Workable(scenario), NEW p \in Proc \ dead, Moves(p),
         NEW q \in Proc \ dead, q # p, IsOp(q, "insert"), Holds(q)
  PROVE  header' = header
<1>1. SUFFICES ASSUME Heading(p) PROVE FALSE
  BY MovesOwn DEF Moves, Quiet
<1>2. CASE Popped(p) \/ CountedUp(p)
  <2>1. IsOp(p, "insert") /\ Holds(p)
    BY <1>2 DEF Popped, CountedUp, From, Holds, Counting
  <2>2. QED
    BY <2>1, OneInserter
<1>3. CASE CountedDown(p) \/ Pushed(p)
  <2>1. pc[q] = "idle"
    BY <1>3, Solo DEF CountedDown, Pushed, From, IInv
  <2>2. QED
    BY <2>1 DEF Holds, Counting, Writing, Reading, Freeing
<1>4. QED
  BY <1>1, <1>2, <1>3 DEF Heading

(* Nor does anybody write the slot that another has taken, locked or       *)
(* found at the head of the list.                                          *)
LEMMA SlotStays ==
  ASSUME IInv, Workable(scenario), NEW p \in Proc \ dead, Moves(p),
         NEW q \in Proc \ dead, q # p,
         \/ IsOp(q, "insert") /\ pc[q] = "setfirst"
         \/ Taken(q)
         \/ IsOp(q, "update") /\ pc[q] \in Reading \cup Writing
  PROVE  Idx(q) \in Indices /\ slot'[Idx(q)] = slot[Idx(q)]
<1>1. Idx(q) \in Indices
  <2>1. CASE IsOp(q, "insert") /\ pc[q] = "setfirst"
    BY <2>1, HeadSeen
  <2>2. CASE Taken(q)
    BY <2>2 DEF IInv, Apart
  <2>3. CASE IsOp(q, "update") /\ pc[q] \in Reading \cup Writing
    BY <2>3, AimedSlot DEF IInv, Aims
  <2>4. QED
    BY <2>1, <2>2, <2>3
<1>2. CASE ~Storing(p)
  <2>1. slot' = slot
    BY <1>2, MovesOwn DEF Moves, Quiet
  <2>2. QED
    BY <1>1, <2>1
<1>3. CASE Storing(p)
  <2>1. SUFFICES ASSUME Idx(p) = Idx(q) PROVE FALSE
    BY <1>1, <1>3, StoringWays
  <2>2. Off(Idx(q)) /\ (Taken(p) \/ Aims(p))
    BY <1>3, <2>1, StoringWays
  <2>3. CASE IsOp(q, "insert") /\ pc[q] = "setfirst"
    BY <2>2, <2>3, HeadSeen
  <2>4. CASE Taken(q)
    <3>1. Idx(q) \notin Published
      BY <2>4 DEF IInv, Apart
    <3>2. ~Aims(p)
      BY <2>1, <3>1, AimedSlot DEF IInv
    <3>3. QED
      BY <2>1, <2>2, <2>4, <3>2 DEF IInv, Apart
  <2>5. CASE IsOp(q, "update") /\ pc[q] \in Reading \cup Writing
    <3>1. Aims(q) /\ Holds(q)
      BY <2>5 DEF Aims, Holds
    <3>2. Idx(q) \in Published /\ KeyOf(q) \in Key /\ 1 \in DOMAIN entries[KeyOf(q)]
          /\ entries[KeyOf(q)][1] = Idx(q)
      BY <3>1, AimedSlot DEF IInv
    <3>3. \/ IsOp(p, "update") /\ pc[p] \in Writing
          \/ IsOp(p, "remove") /\ pc[p] \in {"rm_state", "rm_size"}
      BY <1>3, <2>1, <3>2, WritesItsKey
    <3>4. ~IsOp(p, "remove")
      <4>1. SUFFICES ASSUME IsOp(p, "remove") PROVE FALSE
        OBVIOUS
      <4>2. pc[q] = "idle"
        BY <3>3, <4>1, Solo DEF IInv, Writing
      <4>3. QED
        BY <2>5, <4>2 DEF Reading, Writing
    <3>5. Holds(p) /\ Sem(p) = Sem(q)
      BY <2>1, <2>5, <3>3, <3>4 DEF Holds, Sem, IsOp
    <3>6. QED
      BY <3>1, <3>5, OneHolder
  <2>6. QED
    BY <2>3, <2>4, <2>5
<1>4. QED
  BY <1>1, <1>2, <1>3

(* What a call under way knows after the step of another process.          *)
LEMMA KnowledgeOther ==
  ASSUME IInv, Workable(scenario), NEW p \in Proc \ dead, Moves(p),
         NEW q \in Proc \ dead, q # p
  PROVE  (Insertion(q) /\ Revision(q) /\ Removal(q) /\ Iteration(q))'
<1>o. Own(p)
  BY MovesOwn
<1>s. /\ pc'[q] = pc[q] /\ call'[q] = call[q] /\ local'[q] = local[q]
      /\ Idx(q)' = Idx(q) /\ KeyOf(q)' = KeyOf(q)
  BY <1>o, Others
<1>k. Insertion(q) /\ Revision(q) /\ Removal(q) /\ Iteration(q) /\ Stands(q)
  BY DEF IInv, Knowledge, Control
<1> USE DEF Writing, Counting
<1>1. Insertion(q)'
  <2>1. SUFFICES ASSUME IsOp(q, "insert") PROVE Insertion(q)'
    BY <1>s DEF Insertion, IsOp
  <2>2. pc[q] \in {"first", "next", "setfirst"} \cup Counting => header' = header
    <3>1. pc[q] \in {"first", "next", "setfirst"} \cup Counting => Holds(q)
      BY <2>1 DEF Holds
    <3>2. QED
      BY <2>1, <3>1, HeaderStays
  <2>3. pc[q] \in {"setfirst", "index"} \cup Writing
          => slot'[Idx(q)] = slot[Idx(q)]
    <3>1. pc[q] \in {"index"} \cup Writing => Taken(q)
      BY <2>1 DEF Taken
    <3>2. QED
      BY <2>1, <3>1, SlotStays
  <2>4. QED
    BY <1>s, <1>k, <2>1, <2>2, <2>3 DEF Insertion, IsOp
<1>2. Revision(q)'
  <2>1. SUFFICES ASSUME IsOp(q, "update"), pc[q] \in {"rd_hi"} \cup Writing
                 PROVE  Revision(q)'
    BY <1>s DEF Revision, IsOp
  <2>2. slot'[Idx(q)] = slot[Idx(q)]
    BY <2>1, SlotStays DEF Reading
  <2>3. Torn(Idx(q)) => Torn(Idx(q))'
    <3>1. PICK i : i = Idx(q)
      OBVIOUS
    <3>2. Torn(i)' <=> Torn(i)
      BY <1>o, DeadStay DEF IInv
    <3>3. Torn(i)' => Torn(Idx(q))'
      BY <1>s, <3>1 DEF Torn
    <3>4. QED
      BY <3>1, <3>2, <3>3
  <2>4. QED
    BY <1>s, <1>k, <2>1, <2>2, <2>3 DEF Revision, IsOp
<1>3. Removal(q)'
  <2>1. SUFFICES ASSUME IsOp(q, "remove"), pc[q] # "idle" PROVE Removal(q)'
    BY <1>s DEF Removal, IsOp
  <2>2. header' = header /\ slot' = slot
    BY <2>1, BesideSolo
  <2>3. QED
    BY <1>s, <1>k, <2>1, <2>2 DEF Removal, IsOp
<1>4. Iteration(q)'
  <2>1. SUFFICES ASSUME IsOp(q, "iter"), pc[q] # "idle" PROVE Iteration(q)'
    BY <1>s DEF Iteration, IsOp, Reading
  <2>2. header' = header /\ slot' = slot
    BY <2>1, BesideSolo
  <2>3. Passed(Idx(q))' = Passed(Idx(q))
    BY <1>s, <2>2 DEF Passed
  <2>4. QED
    BY <1>s, <1>k, <2>1, <2>2, <2>3 DEF Iteration, IsOp
<1>5. QED
  BY <1>1, <1>2, <1>3, <1>4

(* A step keeps what all calls know.                                       *)
LEMMA KnowledgeStep ==
  ASSUME IInv, Workable(scenario), NEW p \in Proc \ dead, Moves(p)
  PROVE  Knowledge'
<1>1. dead' = dead
  BY MovesOwn DEF Own
<1>2. (Insertion(p) /\ Revision(p) /\ Removal(p) /\ Iteration(p))'
  BY InsertionOwn, RevisionOwn, RemovalOwn, IterationOwn
<1>3. \A q \in Proc \ dead :
        q # p => (Insertion(q) /\ Revision(q) /\ Removal(q) /\ Iteration(q))'
  BY KnowledgeOther
<1>4. QED
  BY <1>1, <1>2, <1>3 DEF Knowledge

-----------------------------------------------------------------------------
(* The invariant.                                                          *)

(* A step of a process keeps the invariant.                                *)
LEMMA MovesInvariant ==
  ASSUME IInv, Workable(scenario), NEW p \in Proc \ dead, Moves(p)
  PROVE  IInv'
BY TypingStep, ControlStep, LocksStep, DistinctStep, AimedStep, ApartStep, ListedStep,
   ContentsStep, KnowledgeStep, WildnessStep DEF IInv

(* A stuttering step keeps the invariant.                                  *)
LEMMA NothingMoves ==
  ASSUME IInv, UNCHANGED vars
  PROVE  IInv'
<1>u. /\ header' = header /\ slot' = slot /\ entries' = entries /\ scenario' = scenario
      /\ pc' = pc /\ call' = call /\ local' = local /\ out' = out
      /\ dead' = dead /\ owner' = owner
  BY DEF vars
<1>1. Typing'
  BY <1>u DEF IInv, Typing
<1>2. Control'
  BY <1>u DEF IInv, Control, Stands, Asked, Keyed, Fresh, IsOp
<1>3. Locks'
  BY <1>u DEF IInv, Locks, Holds, Sem, Idx, IsOp, TableSem
<1>4. \A q \in Proc : /\ Taken(q)' <=> Taken(q)
                      /\ Linked(q)' <=> Linked(q)
                      /\ Uncounted(q)' <=> Uncounted(q)
                      /\ Overcounted(q)' <=> Overcounted(q)
                      /\ Freed(q)' <=> Freed(q)
                      /\ Rewriting(q)' <=> Rewriting(q)
                      /\ Aims(q)' <=> Aims(q)
                      /\ Idx(q)' = Idx(q) /\ KeyOf(q)' = KeyOf(q)
  BY <1>u DEF Taken, Linked, Uncounted, Overcounted, Freed, Rewriting, Aims, IsOp, Idx,
     KeyOf
<1>5. (Lost <=> Lost') /\ (\A i : Torn(i) <=> Torn(i)') /\ Published' = Published
  <2>1. dead \subseteq Proc
    BY DEF IInv, Typing
  <2>2. QED
    BY <1>u, <1>4, <2>1 DEF Lost, Torn, Published
<1>6. Distinct' /\ Aimed' /\ Apart'
  BY <1>u, <1>4, <1>5 DEF IInv, Distinct, Aimed, Apart
<1>7. Listed'
  <2>1. \A i \in Indices : Off(i)' <=> Off(i)
    BY <1>4, <1>5, OffStays
  <2>2. \A n \in Nat : Balanced(n) => Balanced(n)'
    BY <1>u, <1>4, <1>5 DEF Balanced
  <2>3. QED
    BY <1>u, <2>1, <2>2, ListStays
<1>8. Contents'
  BY <1>u, <1>4 DEF IInv, Contents, Recorded, Complete
<1>9. Knowledge'
  <2>1. \A q \in Proc \ dead : Insertion(q) => Insertion(q)'
    BY <1>u DEF Insertion, IsOp, Idx, KeyOf
  <2>2. \A q \in Proc \ dead : Revision(q) => Revision(q)'
    BY <1>u, <1>4, <1>5 DEF Revision, IsOp
  <2>3. \A q \in Proc \ dead : Removal(q) => Removal(q)'
    BY <1>u DEF Removal, IsOp, Idx
  <2>4. \A q \in Proc \ dead : Iteration(q) => Iteration(q)'
    BY <1>u, <1>4 DEF Iteration, IsOp, Passed
  <2>5. QED
    BY <1>u, <2>1, <2>2, <2>3, <2>4 DEF IInv, Knowledge
<1>10. Wildness'
  BY <1>u, <1>5 DEF IInv, Wildness
<1>11. QED
  BY <1>1, <1>2, <1>3, <1>6, <1>7, <1>8, <1>9, <1>10 DEF IInv

(* The keys of Preload are in the index, in the order of the slots.        *)
LEMMA InitEntries ==
  ASSUME Init
  PROVE  LET n == Len(Preload) IN
         /\ n \in 0 .. Capacity /\ \A i \in 1 .. n : Preload[i] \in Key
         /\ entries \in [Key -> Seq(Indices)]
         /\ \A k \in Key : \A j \in DOMAIN entries[k] :
              j = 1 /\ \E i \in 1 .. n : Preload[i] = k /\ entries[k][j] = i - 1
         /\ \A i \in Indices : i \in Published <=> i < n
<1> DEFINE n == Len(Preload)
           at(k) == {i \in 1 .. n : Preload[i] = k}
<1>1. /\ n \in Nat /\ n <= Capacity /\ DOMAIN Preload = 1 .. n
      /\ \A i \in 1 .. n : Preload[i] \in Key
      /\ \A i, j \in 1 .. n : Preload[i] = Preload[j] => i = j
  BY TableAssumption
<1>2. entries = [k \in Key |->
        IF at(k) = {} THEN <<>> ELSE <<(CHOOSE i \in at(k) : TRUE) - 1>>]
  BY DEF Init
<1>3. ASSUME NEW k \in Key
      PROVE  \/ at(k) = {} /\ entries[k] = <<>>
             \/ \E i \in 1 .. n : Preload[i] = k /\ entries[k] = <<i - 1>>
  <2>1. CASE at(k) = {}
    BY <1>2, <2>1
  <2>2. CASE at(k) # {}
    <3>1. PICK i \in 1 .. n : i = (CHOOSE j \in at(k) : TRUE) /\ i \in at(k)
      BY <2>2
    <3>2. Preload[i] = k /\ entries[k] = <<i - 1>>
      BY <1>2, <2>2, <3>1
    <3>3. QED
      BY <3>2
  <2>3. QED
    BY <2>1, <2>2
<1>4. \A i \in 1 .. n : i - 1 \in Indices
  BY <1>1, Numbers DEF Indices
<1>5. \A k \in Key : entries[k] \in Seq(Indices)
  <2>1. SUFFICES ASSUME NEW k \in Key PROVE entries[k] \in Seq(Indices)
    OBVIOUS
  <2>2. <<>> \in Seq(Indices) /\ \A i \in Indices : <<i>> \in Seq(Indices)
    OBVIOUS
  <2>3. QED
    BY <1>3, <1>4, <2>2
<1>6. entries \in [Key -> Seq(Indices)]
  BY <1>2, <1>5
<1>7. ASSUME NEW k \in Key, NEW j \in DOMAIN entries[k]
      PROVE  j = 1 /\ \E i \in 1 .. n : Preload[i] = k /\ entries[k][j] = i - 1
  <2>1. entries[k] # <<>>
    BY <1>7
  <2>2. PICK i \in 1 .. n : Preload[i] = k /\ entries[k] = <<i - 1>>
    BY <1>3, <2>1
  <2>3. j = 1 /\ entries[k][j] = i - 1
    BY <1>7, <2>2
  <2>4. QED
    BY <2>2, <2>3
<1>8. ASSUME NEW i \in Indices, i < n PROVE i \in Published
  <2>1. i + 1 \in 1 .. n /\ i \in Nat
    BY <1>1, <1>8 DEF Indices
  <2>2. Preload[i + 1] \in Key /\ i + 1 \in at(Preload[i + 1])
    BY <1>1, <2>1
  <2>3. PICK j \in 1 .. n : Preload[j] = Preload[i + 1]
                            /\ entries[Preload[i + 1]] = <<j - 1>>
    BY <1>3, <2>2
  <2>4. j = i + 1
    BY <1>1, <2>1, <2>3
  <2>5. 1 \in DOMAIN entries[Preload[i + 1]] /\ entries[Preload[i + 1]][1] = i
    BY <2>1, <2>3, <2>4
  <2>6. QED
    BY <2>2, <2>5 DEF Published
<1>9. ASSUME NEW i \in Published PROVE i < n
  <2>1. PICK k \in Key : \E j \in DOMAIN entries[k] : entries[k][j] = i
    BY <1>9 DEF Published
  <2>2. PICK j \in 1 .. n : i = j - 1
    BY <1>7, <2>1
  <2>3. QED
    BY <1>1, <2>2
<1>10. QED
  BY <1>1, <1>6, <1>7, <1>8, <1>9

(* A new table with its preloaded records satisfies the invariant.         *)
LEMMA InitIInv ==
  ASSUME Init
  PROVE  IInv
<1>p. PICK n \in 0 .. Capacity : n = Len(Preload)
  BY InitEntries
<1>e. /\ \A i \in 1 .. n : Preload[i] \in Key
      /\ entries \in [Key -> Seq(Indices)]
      /\ \A k \in Key : \A j \in DOMAIN entries[k] :
           j = 1 /\ \E i \in 1 .. n : Preload[i] = k /\ entries[k][j] = i - 1
      /\ \A i \in Indices : i \in Published <=> i < n
  BY <1>p, InitEntries
<1>i. /\ dead = {} /\ \A p \in Proc : pc[p] = "idle" /\ local[p] = NoLocals
      /\ header = [count |-> n, firstFree |-> n]
      /\ \A s \in Sems : owner[s] = NoProc
  BY <1>p DEF Init
<1>s. /\ slot = [i \in Indices |->
           IF i < n
           THEN [state |-> "Occupied", size |-> LenOf(0),
                 lo |-> Word(Preload[i + 1], 0), hi |-> Word(Preload[i + 1], 0)]
           ELSE [state |-> "Free", size |-> i + 1, lo |-> Zero, hi |-> Zero]]
  BY <1>p DEF Init
<1>1. Typing
  <2>1. scenario \in Scenarios /\ header \in [count : 0 .. Capacity, firstFree : 0 .. Capacity]
    BY <1>i DEF Init
  <2>2. slot \in [Indices -> SlotType]
    <3>1. Zero \in Words /\ LenOf(0) \in Nat
      BY Numbers DEF Zero, Words, Word, LenOf
    <3>2. ASSUME NEW i \in Indices, i < n PROVE Word(Preload[i + 1], 0) \in Words
      <4>1. i + 1 \in 1 .. n
        BY <3>2, Numbers DEF Indices
      <4>2. QED
        BY <1>e, <4>1, Numbers DEF Words, Word
    <3>3. \A i \in Indices : i + 1 \in Nat
      BY Numbers DEF Indices
    <3>4. ASSUME NEW i \in Indices PROVE slot[i] \in SlotType
      <4>1. CASE i < n
        <5>1. slot[i] = [state |-> "Occupied", size |-> LenOf(0),
                         lo |-> Word(Preload[i + 1], 0), hi |-> Word(Preload[i + 1], 0)]
          BY <1>s, <4>1
        <5>2. QED
          BY <3>1, <3>2, <4>1, <5>1 DEF SlotType
      <4>2. CASE ~(i < n)
        <5>1. slot[i] = [state |-> "Free", size |-> i + 1, lo |-> Zero, hi |-> Zero]
          BY <1>s, <4>2
        <5>2. QED
          BY <3>1, <3>3, <5>1 DEF SlotType
      <4>3. QED
        BY <4>1, <4>2
    <3>5. QED
      BY <1>s, <3>4
  <2>3. owner \in [Sems -> Proc \cup {NoProc}] /\ dead \subseteq Proc
    BY DEF Init
  <2>4. pc \in [Proc -> PCs]
    BY DEF Init, PCs
  <2>5. call \in [Proc -> Requested]
    <3>1. [op |-> "none", keys |-> <<>>, val |-> 0, found |-> 0] \in Requested
      BY DEF Requested, Ops
    <3>2. QED
      BY <3>1 DEF Init
  <2>6. local \in [Proc -> Locals]
    <3>1. NoLocals \in Locals
      BY Numbers DEF NoLocals, Locals, Words, Zero, Word
    <3>2. QED
      BY <3>1 DEF Init
  <2>7. out = [p \in Proc |-> out[p]]
    BY DEF Init
  <2>8. QED
    BY <1>e, <2>1, <2>2, <2>3, <2>4, <2>5, <2>6, <2>7 DEF Typing
<1>2. Control
  BY <1>i DEF Control, Stands, Asked, Keyed, Fresh
<1>3. \A p \in Proc : /\ ~Taken(p) /\ ~Linked(p) /\ ~Uncounted(p) /\ ~Overcounted(p)
                      /\ ~Freed(p) /\ ~Rewriting(p) /\ ~Aims(p) /\ ~Holds(p)
  BY <1>i DEF Taken, Linked, Uncounted, Overcounted, Freed, Rewriting, Aims, Holds,
     Counting, Writing, Reading, Freeing
<1>4. Locks /\ Aimed /\ Apart
  BY <1>i, <1>3 DEF Locks, Aimed, Apart
<1>5. Distinct
  <2>1. SUFFICES ASSUME NEW k \in Key, NEW l \in Key, NEW i \in DOMAIN entries[k],
                        NEW j \in DOMAIN entries[l], entries[k][i] = entries[l][j]
                 PROVE  k = l /\ i = j
    BY DEF Distinct
  <2>2. PICK a \in 1 .. n : Preload[a] = k /\ entries[k][i] = a - 1
    BY <1>e
  <2>3. PICK b \in 1 .. n : Preload[b] = l /\ entries[l][j] = b - 1
    BY <1>e
  <2>4. a = b
    <3>1. a - 1 = b - 1
      BY <2>1, <2>2, <2>3
    <3>2. a \in Int /\ b \in Int
      OBVIOUS
    <3>3. QED
      BY <3>1, <3>2
  <2>5. i = 1 /\ j = 1
    BY <1>e
  <2>6. QED
    BY <2>2, <2>3, <2>4, <2>5
<1>6. Listed
  <2> DEFINE m == Capacity - n
             order == [j \in 1 .. m + 1 |-> n + j - 1]
  <2>1. m \in 0 .. Capacity /\ n + m = Capacity /\ m \in Nat /\ n \in Nat
    BY Numbers
  <2>2. order \in [1 .. m + 1 -> 0 .. Capacity]
    BY <2>1
  <2>3. \A j \in 1 .. m : /\ order[j] \in Indices /\ order[j] = n + j - 1
                          /\ order[j + 1] = order[j] + 1 /\ ~(order[j] < n)
    BY <2>1, Numbers DEF Indices
  <2>4. order[1] = header.firstFree /\ order[m + 1] = Capacity
    BY <1>i, <2>1
  <2>5. ASSUME NEW i \in Indices, ~(i < n)
        PROVE  slot[i].state = "Free" /\ slot[i].size = i + 1
    BY <1>s, <2>5
  <2>6. IsList(m, order)
    <3> HIDE DEF m, order
    <3>1. \A j \in 1 .. m : slot[order[j]].state = "Free"
                            /\ slot[order[j]].size = order[j + 1]
      BY <2>3, <2>5
    <3>2. \A j, k \in 1 .. m : order[j] = order[k] => j = k
      BY <2>1, <2>3
    <3>3. QED
      BY <2>2, <2>3, <2>4, <3>1, <3>2 DEF IsList
  <2>7. Balanced(m)
    <3>1. header.count = n
      BY <1>i
    <3>2. header.count + m + 0 = Capacity + 0
      BY <2>1, <3>1
    <3> HIDE DEF m
    <3>3. QED
      BY <1>3, <3>2 DEF Balanced, Ticks
  <2>8. ASSUME NEW i \in Indices PROVE Off(i) <=> \A j \in 1 .. m : order[j] # i
    <3>1. Off(i) <=> i < n
      BY <1>e, <1>3 DEF Off
    <3>2. ASSUME i < n, NEW j \in 1 .. m PROVE order[j] # i
      BY <2>3, <3>2
    <3>3. ASSUME ~(i < n) PROVE \E j \in 1 .. m : order[j] = i
      <4>1. i - n + 1 \in 1 .. m /\ n + (i - n + 1) - 1 = i
        BY <2>1, <3>3, Numbers DEF Indices
      <4>2. QED
        BY <2>3, <4>1
    <3>4. QED
      BY <3>1, <3>2, <3>3
  <2>9. QED
    <3> HIDE DEF m, order
    <3>1. QED
      BY <2>1, <2>2, <2>6, <2>7, <2>8 DEF Listed
<1>7. Contents
  <2>1. SUFFICES ASSUME NEW k \in Key, NEW j \in DOMAIN entries[k]
                 PROVE  Recorded(k, entries[k][j])
    BY DEF Contents
  <2>2. PICK a \in 1 .. n : Preload[a] = k /\ entries[k][j] = a - 1
    BY <1>e
  <2>3. PICK i \in Indices : i = a - 1 /\ i < n /\ i + 1 = a
    <3>1. a - 1 \in Indices /\ a - 1 < n /\ (a - 1) + 1 = a
      BY Numbers DEF Indices
    <3>2. QED
      BY <3>1
  <2>4. slot[i] = [state |-> "Occupied", size |-> LenOf(0),
                   lo |-> Word(k, 0), hi |-> Word(k, 0)]
    BY <1>s, <2>2, <2>3
  <2>5. Recorded(k, i)
    BY <2>4 DEF Recorded, Complete, Word
  <2>6. QED
    BY <2>2, <2>3, <2>5
<1>8. Knowledge
  BY <1>i DEF Knowledge, Insertion, Revision, Removal, Iteration, Counting, Writing,
     Reading
<1>9. Wildness
  BY <1>i DEF Wildness
<1>10. QED
  BY <1>1, <1>2, <1>4, <1>5, <1>6, <1>7, <1>8, <1>9 DEF IInv

(* The invariant holds in workable scenarios.                              *)
THEOREM Invariance ==
  ASSUME \A s \in Scenarios : Workable(s)
  PROVE  Spec => []IInv
<1>1. Init => IInv
  BY InitIInv
<1>2. IInv /\ [Next]_vars => IInv'
  <2>1. SUFFICES ASSUME IInv, [Next]_vars PROVE IInv'
    OBVIOUS
  <2>2. Workable(scenario)
    BY <2>1 DEF IInv, Typing
  <2>3. CASE \E p \in Proc \ dead : Moves(p) \/ Crashed(p)
    <3>1. PICK p \in Proc \ dead : Moves(p) \/ Crashed(p)
      BY <2>3
    <3>2. QED
      BY <2>1, <2>2, <3>1, MovesInvariant, CrashStep
  <2>4. CASE UNCHANGED vars
    BY <2>1, <2>4, NothingMoves
  <2>5. QED
    BY <2>1, <2>2, <2>3, <2>4, NextSteps
<1>3. QED
  BY <1>1, <1>2, PTL DEF Spec

-----------------------------------------------------------------------------
(* What follows from the invariant at once.                                *)

(* Every variable keeps its type; no index leads out of the table          *)
(* (slot.rs:149, addresses are computed unchecked).                        *)
THEOREM TypeCorrect ==
  ASSUME \A s \in Scenarios : Workable(s)
  PROVE  Spec => []TypeOK
<1>1. IInv => TypeOK
  <2>1. SUFFICES ASSUME IInv PROVE TypeOK
    OBVIOUS
  <2>2. header \in [count : 0 .. WordMax, firstFree : 0 .. Capacity]
    <3>1. 0 .. Capacity \subseteq 0 .. WordMax
      BY Numbers
    <3>2. QED
      BY <2>1, <3>1 DEF IInv, Typing
  <2>3. QED
    BY <2>1, <2>2 DEF IInv, Typing, TypeOK, SlotType, Locals
<1>2. QED
  BY <1>1, Invariance, PTL

(* No insertion follows the free list past its end and no iteration runs   *)
(* past the last slot, but for a slot lost to a death (slot.rs:104, 204).  *)
THEOREM StaysInside ==
  ASSUME \A s \in Scenarios : Workable(s)
  PROVE  Spec => []NeverWild
<1>1. IInv => NeverWild
  BY DEF IInv, Wildness, NeverWild, Lost, Uncounted, Counting
<1>2. QED
  BY <1>1, Invariance, PTL

(* What the index leads to is a whole record of that key, but for a holder *)
(* of its lock and for one that died rewriting it (table.rs:543 and 546).  *)
THEOREM RecordsComplete ==
  ASSUME \A s \in Scenarios : Workable(s)
  PROVE  Spec => []PublishedComplete
<1>1. ASSUME IInv PROVE PublishedComplete
  <2>1. SUFFICES ASSUME NEW k \in Key, NEW j \in DOMAIN entries[k],
                        ~Complete(k, entries[k][j])
                 PROVE  \E p \in Proc : /\ Idx(p) = entries[k][j] /\ ~IsOp(p, "insert")
                                        /\ owner[entries[k][j]] = p \/ p \in dead
    BY DEF PublishedComplete, Complete
  <2>2. PICK p \in Proc : Rewriting(p) /\ Idx(p) = entries[k][j]
    BY <1>1, <2>1 DEF IInv, Contents, Recorded
  <2>3. ~IsOp(p, "insert") /\ Holds(p)
    BY <2>2 DEF Rewriting, Freed, Holds, IsOp, Counting, Freeing, Writing
  <2>4. p \in dead \/ owner[Sem(p)] = p
    BY <1>1, <2>3 DEF IInv, Locks
  <2>5. QED
    BY <2>2, <2>3, <2>4 DEF Sem
<1>2. IInv => PublishedComplete
  BY <1>1
<1>3. QED
  BY <1>2, Invariance, PTL

(* Nobody else works on the slot a process is rewriting, although insert   *)
(* and update hold different semaphores (table.rs:477 and 538).            *)
THEOREM WritersApart ==
  ASSUME \A s \in Scenarios : Workable(s)
  PROVE  Spec => []WritersExclusive
<1> DEFINE working(p) == Updating(p) \/ Removing(p) \/ Unpublished(p)
<1>1. ASSUME IInv PROVE WritersExclusive
  <2>1. SUFFICES ASSUME NEW p \in Proc \ dead, NEW q \in Proc \ dead,
                        working(p), working(q), Idx(p) = Idx(q)
                 PROVE  p = q
    BY DEF WritersExclusive
  <2>2. \A r \in Proc : working(r) => \/ Taken(r)
                                      \/ Aims(r) /\ Holds(r) /\ ~IsOp(r, "insert")
    BY DEF Updating, Removing, Unpublished, Inserting, Taken, Aims, Holds, IsOp,
       Counting, Writing, Reading, Freeing
  <2>3. \A r \in Proc : /\ Taken(r) => Idx(r) \notin Published
                        /\ Aims(r) => Idx(r) \in Published
    BY <1>1, AimedSlot DEF IInv, Apart
  <2>4. CASE Taken(p) /\ Taken(q)
    BY <1>1, <2>1, <2>4 DEF IInv, Apart
  <2>5. CASE /\ Aims(p) /\ Holds(p) /\ ~IsOp(p, "insert")
             /\ Aims(q) /\ Holds(q) /\ ~IsOp(q, "insert")
    <3>1. Sem(p) = Sem(q)
      BY <2>1, <2>5 DEF Sem
    <3>2. QED
      BY <1>1, <2>5, <3>1, OneHolder
  <2>6. QED
    BY <2>1, <2>2, <2>3, <2>4, <2>5
<1>2. IInv => WritersExclusive
  BY <1>1
<1>3. QED
  BY <1>2, Invariance, PTL

(* Whenever nobody inserts or removes, the free list is intact, count is   *)
(* the number of records, and the occupied slots are those the index leads *)
(* to (table.rs, insert and remove change the two in separate calls).      *)
THEOREM RestIsIntact ==
  ASSUME \A s \in Scenarios : Workable(s)
  PROVE  Spec => []SettledIntact
<1>1. ASSUME IInv PROVE SettledIntact
  <2>1. SUFFICES ASSUME \A p \in Proc : ~Inserting(p) /\ ~Removing(p)
                 PROVE  Area!FreeListIntact /\ Area!HeldIsOccupied
    BY DEF SettledIntact
  <2>2. \A p \in Proc : ~Taken(p) /\ ~Freed(p)
    BY <2>1 DEF Inserting, Removing, Taken, Freed, IsOp, Counting, Writing
  <2>n. PICK n \in Nat : \E order :
          /\ IsList(n, order)
          /\ header.count + n = Capacity
          /\ \A i \in Indices : /\ slot[i].state = "Free"
                                  <=> \E j \in 1 .. n : order[j] = i
                                /\ slot[i].state = "Occupied" <=> i \in Published
          /\ Cardinality(Published) = header.count
    BY <1>1, <2>2, Settled
  <2>3. PICK order :
          /\ IsList(n, order)
          /\ header.count + n = Capacity
          /\ \A i \in Indices : /\ slot[i].state = "Free"
                                  <=> \E j \in 1 .. n : order[j] = i
                                /\ slot[i].state = "Occupied" <=> i \in Published
          /\ Cardinality(Published) = header.count
    BY <2>n
  <2> DEFINE s == [count |-> header.count, firstFree |-> header.firstFree,
                   slot |-> slot]
  <2>4. header.count \in Nat /\ header.count <= Capacity /\ Capacity - header.count = n
    BY <1>1, <2>3, Numbers DEF IInv, Typing
  <2>5. Area!FreeSlots(s) = {i \in Indices : slot[i].state = "Free"}
    BY DEF Area!FreeSlots, Area!Indices, Indices
  <2>6. Area!IsFreeList(s, order)
    <3>1. /\ order \in [1 .. n + 1 -> 0 .. Capacity] /\ order[1] = header.firstFree
          /\ order[n + 1] = Capacity
          /\ \A j, k \in 1 .. n : order[j] = order[k] => j = k
      BY <2>3 DEF IsList
    <3>2. \A j \in 1 .. n : /\ order[j] \in Area!FreeSlots(s)
                            /\ slot[order[j]].size = order[j + 1]
      BY <2>3, <2>5 DEF IsList
    <3>3. \A i \in Area!FreeSlots(s) : \E j \in 1 .. n : order[j] = i
      BY <2>3, <2>5
    <3>4. QED
      BY <2>4, <3>1, <3>2, <3>3 DEF Area!IsFreeList
  <2>7. Area!FreeListIntact
    <3>1. order \in [1 .. Capacity - header.count + 1 -> 0 .. Capacity]
      BY <2>3, <2>4 DEF IsList
    <3>2. QED
      BY <2>4, <2>6, <3>1 DEF Area!FreeListIntact
  <2>8. Area!HeldIsOccupied
    <3>1. \A i \in Indices : slot[i].state = "Free" <=> slot[i].state # "Occupied"
      BY <1>1 DEF IInv, Typing, SlotType
    <3>2. Published \subseteq Indices
      BY <1>1, PublishedSlots DEF IInv
    <3>3. Published = Indices \ Area!FreeSlots(s)
      BY <2>3, <2>5, <3>1, <3>2
    <3>4. Area!Cardinality(Published) = header.count
      BY <2>3 DEF Area!Cardinality, Cardinality
    <3>5. QED
      BY <3>3, <3>4 DEF Area!HeldIsOccupied, Area!Indices, Indices
  <2>9. QED
    BY <2>7, <2>8
<1>2. IInv => SettledIntact
  BY <1>1
<1>3. QED
  BY <1>2, Invariance, PTL

-----------------------------------------------------------------------------
(* Finding records beside insertions and updates of others.                *)

Answers == {"pending", "none", "some"}

(* What a find under way knows, and what one may return.                   *)
Finding(p) ==
  IsOp(p, "find") =>
  /\ out[p].kind \in Answers
  /\ p \notin dead => /\ pc[p] = "rd_lo" => local[p].tmp = slot[Idx(p)].size
                      /\ pc[p] = "rd_hi" => local[p].lo = slot[Idx(p)].lo

Finds == \A p \in Proc : Finding(p)

(* Nobody rewrites or frees a record that another process looks for.       *)
LEMMA UntouchedWhileRead ==
  ASSUME IInv, Workable(scenario), ReadersApart(scenario),
         NEW p \in Proc, IsOp(p, "find"), pc[p] \in Reading,
         NEW q \in Proc \ {p}, IsOp(q, "update") \/ IsOp(q, "remove"), pc[q] # "idle",
         call[q].keys # <<>>
  PROVE  KeyOf(q) # KeyOf(p)
<1>1. ~IsOp(q, "remove")
  <2>1. SUFFICES ASSUME IsOp(q, "remove") PROVE FALSE
    OBVIOUS
  <2>2. pc[p] = "idle"
    BY <2>1, Solo DEF IInv
  <2>3. QED
    BY <2>2 DEF Reading
<1>2. PICK c \in scenario.calls[p] :
        /\ c.op = "find"
        /\ \A i \in DOMAIN call[p].keys : \E j \in DOMAIN c.keys :
             c.keys[j] = call[p].keys[i]
  BY DEF IInv, Control, Asked, Reading, IsOp
<1>3. PICK d \in scenario.calls[q] :
        /\ d.op = "update"
        /\ \A i \in DOMAIN call[q].keys : \E j \in DOMAIN d.keys :
             d.keys[j] = call[q].keys[i]
  BY <1>1 DEF IInv, Control, Asked, IsOp
<1>4. call[p].keys # <<>>
  BY DEF IInv, Control, Keyed, Reading
<1>5. /\ 1 \in DOMAIN call[p].keys /\ KeyOf(p) = call[p].keys[1]
      /\ 1 \in DOMAIN call[q].keys /\ KeyOf(q) = call[q].keys[1]
  BY <1>4, KeyOfKey DEF IInv
<1>6. c.keys \in Seq(Key) /\ Len(c.keys) = 1
  <2>1. IsRequest(c)
    BY TableAssumption DEF IInv, Typing
  <2>2. QED
    BY <1>2, <2>1 DEF IsRequest
<1>7. KeyOf(p) = Head(c.keys)
  <2>1. PICK j \in DOMAIN c.keys : c.keys[j] = KeyOf(p)
    BY <1>2, <1>5
  <2>2. j = 1
    BY <1>6
  <2>3. QED
    BY <1>6, <2>1, <2>2
<1>8. PICK j \in DOMAIN d.keys : d.keys[j] = KeyOf(q)
  BY <1>3, <1>5
<1>9. QED
  BY <1>2, <1>3, <1>7, <1>8 DEF ReadersApart

(* What a find reads is whole.                                             *)
LEMMA WholeWhileRead ==
  ASSUME IInv, Workable(scenario), ReadersApart(scenario),
         NEW p \in Proc, IsOp(p, "find"), pc[p] \in Reading
  PROVE  Idx(p) \in Indices /\ KeyOf(p) \in Key /\ Complete(KeyOf(p), Idx(p))
<1>1. Aims(p)
  BY DEF Aims
<1>2. /\ KeyOf(p) \in Key /\ 1 \in DOMAIN entries[KeyOf(p)]
      /\ entries[KeyOf(p)][1] = Idx(p) /\ Idx(p) \in Indices
  BY <1>1, AimedSlot DEF IInv
<1>3. Recorded(KeyOf(p), Idx(p))
  BY <1>2 DEF IInv, Contents
<1>4. ASSUME NEW q \in Proc, Rewriting(q), Idx(q) = Idx(p) PROVE FALSE
  <2>1. q # p /\ Aims(q) /\ (IsOp(q, "update") \/ IsOp(q, "remove")) /\ pc[q] # "idle"
    BY <1>4 DEF Rewriting, Freed, Aims, IsOp, Counting, Freeing, Writing, Reading
  <2>2. /\ KeyOf(q) \in Key /\ 1 \in DOMAIN entries[KeyOf(q)]
        /\ entries[KeyOf(q)][1] = Idx(q)
    BY <2>1, AimedSlot DEF IInv
  <2>3. KeyOf(q) = KeyOf(p)
    <3>1. entries[KeyOf(q)][1] = entries[KeyOf(p)][1]
      BY <1>2, <1>4, <2>2
    <3>2. QED
      BY <1>2, <2>2, <3>1 DEF IInv, Distinct
  <2>4. call[q].keys # <<>>
    BY <1>4 DEF IInv, Control, Keyed, Rewriting, Freed, Counting
  <2>5. QED
    BY <2>1, <2>3, <2>4, UntouchedWhileRead
<1>5. QED
  BY <1>2, <1>3, <1>4 DEF Recorded

(* Nobody writes a record while another process reads it to find it.       *)
LEMMA UnwrittenWhileRead ==
  ASSUME IInv, Workable(scenario), ReadersApart(scenario),
         NEW p \in Proc, IsOp(p, "find"), pc[p] \in Reading,
         NEW q \in Proc \ dead, q # p, Moves(q)
  PROVE  slot'[Idx(p)] = slot[Idx(p)]
<1>1. CASE ~Storing(q)
  BY <1>1, MovesOwn DEF Moves, Quiet
<1>2. CASE Storing(q)
  <2>1. Aims(p)
    BY DEF Aims
  <2>2. /\ KeyOf(p) \in Key /\ 1 \in DOMAIN entries[KeyOf(p)]
        /\ entries[KeyOf(p)][1] = Idx(p) /\ Idx(p) \in Indices
    BY <2>1, AimedSlot DEF IInv
  <2>3. SUFFICES ASSUME Idx(q) = Idx(p) PROVE FALSE
    BY <1>2, <2>2, StoringWays
  <2>4. /\ KeyOf(p) = KeyOf(q) /\ (IsOp(q, "update") \/ IsOp(q, "remove"))
        /\ pc[q] \in Writing \cup {"rm_state", "rm_size"}
    BY <1>2, <2>2, <2>3, WritesItsKey
  <2>5. call[q].keys # <<>> /\ pc[q] # "idle"
    BY <2>4 DEF IInv, Control, Keyed, Writing
  <2>6. QED
    BY <1>2, <2>2, <2>3, <2>5, WritesItsKey, UntouchedWhileRead
<1>3. QED
  BY <1>1, <1>2

(* What a find returns.                                                    *)
LEMMA FindAnswers ==
  ASSUME IInv, Workable(scenario), ReadersApart(scenario), Finds,
         NEW p \in Proc \ dead, Begin(p) \/ Step(p) \/ LockInterrupted(p),
         UNCHANGED <<scenario, dead>>, IsOp(p, "find")'
  PROVE  out'[p].kind \in Answers
<1>t. /\ out = [q \in Proc |-> out[q]] /\ call \in [Proc -> Requested]
      /\ local \in [Proc -> Locals] /\ pc \in [Proc -> PCs] /\ p \in Proc
      /\ slot \in [Indices -> SlotType]
  BY DEF IInv, Typing
<1>1. CASE Begin(p)
  BY <1>1, <1>t DEF Begin, Finish, Pending, Store!Pending, Answers
<1>2. CASE ~Begin(p)
  <2>1. IsOp(p, "find")
    <3>1. Moves(p)
      BY <1>2, CallSteps, InsertSteps, WriteSteps, ReadSteps, OtherSteps
      DEF IInv, Step, Moves, Private, Heading, Storing, Indexing
    <3>2. \/ Began(p)
          \/ call'[p].op = call[p].op
      BY <1>t, <3>1, CallWays DEF Returned, Skipped, Rewrote, Requested
    <3>3. ~Began(p)
      <4>1. pc[p] # "idle"
        BY <1>2 DEF Step, LockInterrupted, LookupHit, LookupMiss, Lock, Unlock, InsFull,
           InsFirst, InsNext, InsSetFirst, LoadCount, StoreCount, WrState, WrSize,
           WrLo, WrHi, Index, RdState, RdSize, RdLo, RdHi, ReadCount, IterTest,
           IterSkip, RmFirst, RmState, RmSize, RmSetFirst, Goto
      <4>2. QED
        BY <4>1 DEF Began
    <3>4. QED
      BY <3>2, <3>3 DEF IsOp
  <2>2. Finding(p) /\ out[p].kind \in Answers
    BY <2>1 DEF Finds, Finding
  <2>3. pc[p] \in {"idle", "lookup"} \cup Reading
    BY <2>1 DEF IInv, Control, Stands, IsOp
  <2>4. CASE LookupHit(p)
    BY <2>1, <2>2, <2>4 DEF LookupHit, RefusesDuplicate, IsOp
  <2>5. CASE LookupMiss(p)
    <3>1. out' = [out EXCEPT ![p] = Store!NotFound]
      BY <2>1, <2>5 DEF LookupMiss, IsOp, Return, Finish
    <3>2. QED
      BY <1>t, <3>1 DEF Store!NotFound, Answers
  <2>6. CASE RdState(p) \/ RdSize(p) \/ RdLo(p) \/ RdHi(p)
    <3>1. pc[p] \in Reading
      BY <2>6 DEF RdState, RdSize, RdLo, RdHi, Goto, Reading
    <3>2. Idx(p) \in Indices /\ Complete(KeyOf(p), Idx(p))
      BY <2>1, <3>1, WholeWhileRead
    <3>3. CASE RdState(p)
      BY <2>2, <3>2, <3>3 DEF RdState, Complete
    <3>4. CASE RdSize(p)
      BY <2>2, <3>4 DEF RdSize
    <3>5. CASE RdLo(p)
      <4>1. local[p].tmp = LenOf(slot[Idx(p)].lo.val)
        BY <2>1, <2>2, <3>2, <3>5 DEF RdLo, Finding, Complete
      <4>2. LenOf(slot[Idx(p)].lo.val) \in Nat
        BY <1>t, <3>2, Numbers DEF SlotType, Words, LenOf
      <4>3. ~(local[p].tmp < LenOf(slot[Idx(p)].lo.val))
        BY <4>1, <4>2
      <4>4. QED
        BY <2>2, <3>5, <4>3 DEF RdLo
    <3>6. CASE RdHi(p)
      <4>1. local[p].lo = slot[Idx(p)].hi /\ local[p].lo.key = KeyOf(p)
        BY <2>1, <2>2, <3>2, <3>6 DEF RdHi, Finding, Complete
      <4>2. out' = [out EXCEPT ![p] = Store!Found(local[p].lo.val)]
        BY <2>1, <3>6, <4>1 DEF RdHi, Return, Finish
      <4>3. QED
        BY <1>t, <4>2 DEF Store!Found, Answers
    <3>7. QED
      BY <2>6, <3>3, <3>4, <3>5, <3>6
  <2>7. LookupHit(p) \/ LookupMiss(p) \/ RdState(p) \/ RdSize(p) \/ RdLo(p) \/ RdHi(p)
    BY <1>2, <2>3 DEF Step, LockInterrupted, Lock, Unlock, InsFull, InsFirst, InsNext,
       InsSetFirst, LoadCount, StoreCount, WrState, WrSize, WrLo, WrHi, Index,
       ReadCount, IterTest, IterSkip, RmFirst, RmState, RmSize, RmSetFirst, Goto, Reading
  <2>8. QED
    BY <2>4, <2>5, <2>6, <2>7
<1>3. QED
  BY <1>1, <1>2

(* A step keeps what the finds under way know.                             *)
LEMMA FindsStep ==
  ASSUME IInv, Workable(scenario), ReadersApart(scenario), Finds, [Next]_vars
  PROVE  Finds'
<1>1. CASE UNCHANGED vars
  BY <1>1 DEF vars, Finds, Finding, IsOp, Idx
<1>2. CASE Next
  <2>1. PICK p \in Proc \ dead :
          \/ (Begin(p) \/ Step(p) \/ LockInterrupted(p)) /\ UNCHANGED <<scenario, dead>>
          \/ Crash(p)
    BY <1>2 DEF Next
  <2>2. CASE Crash(p)
    <3>1. /\ slot' = slot /\ pc' = pc /\ call' = call /\ local' = local /\ out' = out
          /\ dead' = dead \cup {p}
      BY <2>2 DEF Crash, Shared
    <3>2. QED
      BY <3>1 DEF Finds, Finding, IsOp, Idx
  <2>3. CASE (Begin(p) \/ Step(p) \/ LockInterrupted(p)) /\ UNCHANGED <<scenario, dead>>
    <3>1. Moves(p)
      BY <2>3, CallSteps, InsertSteps, WriteSteps, ReadSteps, OtherSteps
      DEF IInv, Step, Moves, Private, Heading, Storing, Indexing
    <3>o. Own(p) /\ dead' = dead
      BY <3>1, MovesOwn DEF Own
    <3>2. ASSUME NEW q \in Proc, q # p PROVE Finding(q)'
      <4>1. /\ pc'[q] = pc[q] /\ call'[q] = call[q] /\ local'[q] = local[q]
            /\ out'[q] = out[q] /\ Idx(q)' = Idx(q)
        BY <3>o, <3>2 DEF Own, Idx
      <4>2. IsOp(q, "find") /\ pc[q] \in Reading => slot'[Idx(q)] = slot[Idx(q)]
        BY <3>1, <3>2, UnwrittenWhileRead
      <4>3. Finding(q)
        BY DEF Finds
      <4>4. QED
        BY <3>o, <4>1, <4>2, <4>3 DEF Finding, IsOp, Reading
    <3>3. Finding(p)'
      <4>1. SUFFICES ASSUME IsOp(p, "find")' PROVE Finding(p)'
        BY DEF Finding
      <4>2. out'[p].kind \in Answers
        BY <2>3, <4>1, FindAnswers
      <4>3. local[p] \in Locals
        BY DEF IInv, Typing
      <4>4. pc'[p] = "rd_lo" => local'[p].tmp = slot[Idx(p)].size /\ Idx(p)' = Idx(p)
                                /\ slot' = slot
        <5>1. pc'[p] = "rd_lo" => SawSize(p)
          BY <3>1 DEF Moves, Private, Heading, Storing, Indexing, From, Began, Returned,
             Hit, Missed, Skipped, Locked, Unlocked, Aborted, Entered, TookHead, SawLink,
             Strayed, SawCount, SawState, SawLo, Passes, Applied, Tested, Stepped,
             Stopped, Overran, SawFirst, Popped, CountedUp, CountedDown, Pushed,
             WroteState, WroteSize, WroteLo, Filled, Rewrote, WroteFree, WroteLink,
             Indexed, Unindexed
        <5>2. QED
          BY <4>3, <5>1 DEF SawSize, Looks, Keeps, Quiet, Idx, Locals
      <4>5. pc'[p] = "rd_hi" => local'[p].lo = slot[Idx(p)].lo /\ Idx(p)' = Idx(p)
                                /\ slot' = slot
        <5>1. pc'[p] = "rd_hi" => SawLo(p)
          BY <3>1 DEF Moves, Private, Heading, Storing, Indexing, From, Began, Returned,
             Hit, Missed, Skipped, Locked, Unlocked, Aborted, Entered, TookHead, SawLink,
             Strayed, SawCount, SawState, SawSize, Passes, Applied, Tested, Stepped,
             Stopped, Overran, SawFirst, Popped, CountedUp, CountedDown, Pushed,
             WroteState, WroteSize, WroteLo, Filled, Rewrote, WroteFree, WroteLink,
             Indexed, Unindexed
        <5>2. QED
          BY <4>3, <5>1 DEF SawLo, Looks, Keeps, Quiet, Idx, Locals
      <4>6. QED
        BY <4>2, <4>4, <4>5 DEF Finding
    <3>4. QED
      BY <3>2, <3>3 DEF Finds
  <2>4. QED
    BY <2>1, <2>2, <2>3
<1>3. QED
  BY <1>1, <1>2

(* find returns a whole record of the key it was asked for, or nothing, as *)
(* long as nobody updates what it looks for (table.rs:69, "`find`,         *)
(* `count`, and `capacity` are safe concurrent readers").                  *)
THEOREM FindsWholeRecords ==
  ASSUME \A s \in Scenarios : Workable(s) /\ ReadersApart(s)
  PROVE  Spec => []FindWhole
<1>1. Init => Finds
  BY DEF Init, Finds, Finding, IsOp
<1>2. IInv /\ Finds /\ [Next]_vars => Finds'
  <2>1. IInv => Workable(scenario) /\ ReadersApart(scenario)
    BY DEF IInv, Typing
  <2>2. QED
    BY <2>1, FindsStep
<1>3. Finds => FindWhole
  BY DEF Finds, Finding, FindWhole, Answers
<1>4. Spec => []IInv
  BY Invariance
<1>5. QED
  BY <1>1, <1>2, <1>3, <1>4, PTL DEF Spec
=============================================================================
