------------------------------ MODULE KVStore ------------------------------
(***************************************************************************)
(* What the documentation of src/table.rs promises: a store with unique    *)
(* keys on which every insert, find, update and remove takes effect at one *)
(* instant between its call and its return.  A value is a number the       *)
(* caller's closure increments; update_many takes effect key by key.       *)
(***************************************************************************)
EXTENDS Integers, Sequences, FiniteSets

CONSTANTS
  Proc,
  Key,
  Capacity,  \* how many keys the table holds
  MaxFit,    \* the largest value whose record fits a slot
  Calls,     \* Calls[p]: the calls process p makes
  Preload    \* the keys inserted before, in order, with value 0

VARIABLES
  store,     \* store[k]: the value of k, or Absent
  lost,      \* processes that died inserting and took a record's room along
  call,      \* call[p]: the call p makes or made last, with what is left of it
  out        \* out[p]: Pending until the call took effect, then its result

vars == <<store, lost, call, out>>

Absent == -1
Pending == [kind |-> "pending"]
Ok == [kind |-> "ok"]
Error == [kind |-> "error"]
RecordDuplicated == [kind |-> "duplicated"]
TableFull == [kind |-> "full"]
RecordSizeTooBig == [kind |-> "toobig"]
NotFound == [kind |-> "none"]
Found(v) == [kind |-> "some", val |-> v]
Updated(n) == [kind |-> "updated", count |-> n]
Counted(n) == [kind |-> "counted", count |-> n]
Yielded(keys, n) == [kind |-> "yielded", keys |-> keys, count |-> n]

Present == {k \in Key : store[k] # Absent}

Init ==
  /\ store = [k \in Key |-> IF \E i \in DOMAIN Preload : Preload[i] = k
                            THEN 0 ELSE Absent]
  /\ lost = {}
  /\ call = [p \in Proc |-> [op |-> "none", keys |-> <<>>, val |-> 0, found |-> 0]]
  /\ out = [p \in Proc |-> Ok]

Begin(p) == \E c \in Calls[p] :
  /\ out[p] # Pending
  /\ call' = [call EXCEPT ![p] = c]
  /\ out' = [out EXCEPT ![p] = Pending]
  /\ UNCHANGED <<store, lost>>

Running(p, op) == out[p] = Pending /\ call[p].op = op

Finish(p, r) == out' = [out EXCEPT ![p] = r]

Insert(p) ==
  LET k == Head(call[p].keys) v == call[p].val IN
  /\ Running(p, "insert")
  /\ UNCHANGED <<lost, call>>
  /\ \/ /\ store[k] # Absent
        /\ Finish(p, RecordDuplicated)
        /\ UNCHANGED store
     \/ /\ store[k] = Absent
        /\ Cardinality(Present) + Cardinality(lost) >= Capacity
        /\ Finish(p, TableFull)
        /\ UNCHANGED store
     \/ /\ store[k] = Absent
        /\ Cardinality(Present) < Capacity
        /\ v > MaxFit
        /\ Finish(p, RecordSizeTooBig)
        /\ UNCHANGED store
     \/ /\ store[k] = Absent
        /\ Cardinality(Present) < Capacity
        /\ v <= MaxFit
        /\ Finish(p, Ok)
        /\ store' = [store EXCEPT ![k] = v]

Find(p) ==
  LET k == Head(call[p].keys) IN
  /\ Running(p, "find")
  /\ Finish(p, IF store[k] = Absent THEN NotFound ELSE Found(store[k]))
  /\ UNCHANGED <<store, lost, call>>

Count(p) ==
  /\ Running(p, "count")
  /\ Finish(p, Counted(Cardinality(Present)))
  /\ UNCHANGED <<store, lost, call>>

(* An iterator, used up at once: every record, and each of them once.      *)
Iterate(p) ==
  /\ Running(p, "iter")
  /\ Finish(p, Yielded(Present, Cardinality(Present)))
  /\ UNCHANGED <<store, lost, call>>

Remove(p) ==
  /\ Running(p, "remove")
  /\ store' = [store EXCEPT ![Head(call[p].keys)] = Absent]
  /\ Finish(p, Ok)
  /\ UNCHANGED <<lost, call>>

(* One key of an update: the last one ends the call, as does a record that *)
(* grew too big for its slot; earlier keys keep their new values.          *)
Update(p) ==
  LET k == Head(call[p].keys)
      left == Tail(call[p].keys)
      hit == store[k] # Absent
      n == call[p].found + IF hit THEN 1 ELSE 0
  IN
  /\ Running(p, "update")
  /\ UNCHANGED lost
  /\ \/ /\ hit /\ store[k] >= MaxFit
        /\ Finish(p, RecordSizeTooBig)
        /\ UNCHANGED <<store, call>>
     \/ /\ hit => store[k] < MaxFit
        /\ store' = IF hit THEN [store EXCEPT ![k] = @ + 1] ELSE store
        /\ call' = [call EXCEPT ![p].keys = left, ![p].found = n]
        /\ IF left = <<>> THEN Finish(p, Updated(n)) ELSE UNCHANGED out

(* A call that waits for a semaphore may be interrupted and give up.       *)
Fail(p) ==
  /\ out[p] = Pending /\ call[p].op # "find"
  /\ Finish(p, Error)
  /\ UNCHANGED <<store, lost, call>>

(* A process that dies while it inserts costs at most the room of that one *)
(* record.                                                                 *)
Die(p) ==
  /\ Running(p, "insert") /\ p \notin lost
  /\ lost' = lost \cup {p}
  /\ UNCHANGED <<store, call, out>>

Next == \E p \in Proc :
  \/ Begin(p) \/ Insert(p) \/ Find(p) \/ Count(p) \/ Iterate(p)
  \/ Remove(p) \/ Update(p) \/ Fail(p) \/ Die(p)

Spec == Init /\ [][Next]_vars
=============================================================================
