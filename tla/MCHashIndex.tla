---------------------------- MODULE MCHashIndex ----------------------------
(* Workloads for HashIndex.  k1 and k2 share a bucket, k3 is alone in      *)
(* another.                                                                *)
EXTENDS HashIndex

MCKey == {"k1", "k2", "k3"}
MCHashOf == [k \in MCKey |-> CASE k = "k1" -> 1 [] k = "k2" -> 4 [] k = "k3" -> 2]

Call(op, k, pos) == [op |-> op, key |-> k, position |-> pos]
Insert(k, pos) == Call("insert", k, pos)
Get(k) == Call("get", k, 0)
Remove(k) == Call("remove", k, 0)
Keys == Call("keys", "k1", 0)

Proc2(c1, c2) == [p \in Proc |-> IF p = "p1" THEN c1 ELSE c2]

(* One process, every call, on chains of every shape.                      *)
Sequential ==
  [calls |-> Proc2({Insert("k1", 0), Insert("k1", 1), Insert("k2", 0), Insert("k3", 0)}
                     \cup {Get(k) : k \in Key} \cup {Remove(k) : k \in Key}
                     \cup {Keys}, {}),
   signals |-> FALSE, mortal |-> {}]

(* Insertions, removals and a look-up in one bucket, more than there are   *)
(* nodes for; p1 may die anywhere.                                         *)
Deaths ==
  [calls |-> Proc2({Insert("k1", 0), Remove("k2")},
                   {Insert("k2", 0), Remove("k1"), Get("k2")}),
   signals |-> FALSE, mortal |-> {"p1"}]

(* Look-ups without the lock beside the insertions of one process: what    *)
(* interrupted waits leave sound.                                          *)
LookUps ==
  [calls |-> Proc2({Insert("k1", 0), Insert("k2", 0), Insert("k3", 0)},
                   {Get("k2"), Get("k3")}),
   signals |-> TRUE, mortal |-> {}]

MCScenarios == {Sequential, Deaths, LookUps}
ASSUME \A s \in MCScenarios : Workable(s)

(* An insertion beside a removal of another key, and waits that a signal   *)
(* interrupts.  Table::insert and Table::remove hold different semaphores  *)
(* of the table while they are in the index, table.rs:538 and 639: only    *)
(* that of the index keeps these two apart.                                *)
Interrupted ==
  {[calls |-> Proc2({Insert("k1", 0), Insert("k2", 1)}, {Remove("k1")}),
    signals |-> TRUE, mortal |-> {}]}

(* What a table asks of its index: to insert a key that it has not found   *)
(* there and to remove one that it has (table.rs:535 and 638).             *)
Present(k) == \E i \in InChain(Hash(k)) : ReadNode(i) # NoNode /\ ReadNode(i).key = k

Asked == \A p \in Proc : pc[p] = "lock" => (Present(call[p].key) <=> IsOp(p, "remove"))
=============================================================================
