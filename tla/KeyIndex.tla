------------------------------ MODULE KeyIndex ------------------------------
(***************************************************************************)
(* What an Index promises a Table (src/internal/index.rs), without buckets *)
(* and nodes: a multimap from keys to record positions, each call of which *)
(* takes effect at one instant between its start and its return.  It does  *)
(* not check for duplicates: insert puts a second entry behind the first,  *)
(* get and remove see the oldest one.  Module HashIndex refines it; module *)
(* Table uses its operators for its primary-key index.                     *)
(***************************************************************************)
EXTENDS Integers, Sequences, FiniteSets

CONSTANTS
  Proc,
  Key,
  Position,
  Capacity,  \* number of entries there is room for
  Calls      \* Calls[p]: the calls process p makes

VARIABLES
  entries,   \* entries[k]: the positions of key k, oldest first
  lost,      \* processes that died and took the room of an entry with them
  call,      \* call[p]: the call p makes, or NoCall
  out        \* out[p]: Pending until the call took effect, then its result

vars == <<entries, lost, call, out>>

Total(e) == Cardinality(UNION {{k} \X DOMAIN e[k] : k \in DOMAIN e})

Has(e, k) == e[k] # <<>>

Added(e, k, p) == [e EXCEPT ![k] = Append(@, p)]

Dropped(e, k) == IF Has(e, k) THEN [e EXCEPT ![k] = Tail(@)] ELSE e

NoCall == [op |-> "none"]

Pending == [kind |-> "pending"]
Ok == [kind |-> "ok"]
TableFull == [kind |-> "full"]
NotFound == [kind |-> "none"]
Found(p) == [kind |-> "some", position |-> p]
Yielded(keys, n) == [kind |-> "yielded", keys |-> keys, count |-> n]

Init ==
  /\ entries = [k \in Key |-> <<>>]
  /\ lost = {}
  /\ call = [p \in Proc |-> NoCall]
  /\ out = [p \in Proc |-> Ok]

Begin(p) == \E c \in Calls[p] :
  /\ call[p] = NoCall
  /\ call' = [call EXCEPT ![p] = c]
  /\ out' = [out EXCEPT ![p] = Pending]
  /\ UNCHANGED <<entries, lost>>

Running(p, op) == out[p] = Pending /\ call[p].op = op

Finish(p, r) == out' = [out EXCEPT ![p] = r] /\ UNCHANGED <<lost, call>>

Insert(p) ==
  /\ Running(p, "insert")
  /\ \/ /\ Total(entries) < Capacity
        /\ entries' = Added(entries, call[p].key, call[p].position)
        /\ Finish(p, Ok)
     \/ /\ Total(entries) + Cardinality(lost) >= Capacity
        /\ Finish(p, TableFull)
        /\ UNCHANGED entries

Get(p) ==
  LET k == call[p].key IN
  /\ Running(p, "get")
  /\ Finish(p, IF Has(entries, k) THEN Found(Head(entries[k])) ELSE NotFound)
  /\ UNCHANGED entries

Remove(p) ==
  /\ Running(p, "remove")
  /\ entries' = Dropped(entries, call[p].key)
  /\ Finish(p, Ok)

(* keys, used up at once. *)
Iterate(p) ==
  /\ Running(p, "keys")
  /\ Finish(p, Yielded({k \in Key : Has(entries, k)}, Total(entries)))
  /\ UNCHANGED entries

Return(p) ==
  /\ out[p] # Pending
  /\ call' = [call EXCEPT ![p] = NoCall]
  /\ out' = [out EXCEPT ![p] = Ok]
  /\ UNCHANGED <<entries, lost>>

(* A process that dies while it inserts or removes costs at most the room  *)
(* of that one entry.                                                      *)
Die(p) ==
  /\ call[p].op \in {"insert", "remove"} /\ p \notin lost
  /\ lost' = lost \cup {p}
  /\ UNCHANGED <<entries, call, out>>

Next == \E p \in Proc :
  \/ Begin(p) \/ Insert(p) \/ Get(p) \/ Remove(p) \/ Iterate(p)
  \/ Return(p) \/ Die(p)

Spec == Init /\ [][Next]_vars
=============================================================================
