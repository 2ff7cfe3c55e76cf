------------------------------ MODULE MCTable ------------------------------
(* Workloads for Table: which process may make which calls.                *)
EXTENDS Table

Call(op, keys, val) == [op |-> op, keys |-> keys, val |-> val, found |-> 0]
Insert(k) == Call("insert", <<k>>, 0)
Find(k) == Call("find", <<k>>, 0)
Remove(k) == Call("remove", <<k>>, 0)
Update(k) == Call("update", <<k>>, 0)
UpdateMany(s) == Call("update", s, 0)

Count == Call("count", <<>>, 0)
Iter == Call("iter", <<>>, 0)

Peaceful(calls) == [calls |-> calls, signals |-> FALSE, mortal |-> {}]

(* One process, every call, and a record that does not fit.                *)
Sequential == Peaceful([p \in Proc |->
  IF p # "p1" THEN {}
  ELSE {Insert("k1"), Insert("k2"), Insert("k4"), Find("k1"),
        Remove("k1"), Remove("k3"), UpdateMany(<<"k1", "k3">>),
        Call("insert", <<"k3">>, MaxFit + 1), Count, Iter}])

(* Insertions of a key each and updates, of a shared key too, whose waits  *)
(* are interrupted: four keys compete for three slots, one of them is      *)
(* taken from the start.                                                   *)
Writers ==
  [calls |-> [p \in Proc |->
     CASE p = "p1" -> {Insert("k1")}
       [] p = "p2" -> {Insert("k2"), UpdateMany(<<"k4", "k3">>)}
       [] p = "p3" -> {Insert("k4"), Update("k3")}],
   signals |-> TRUE, mortal |-> {}]

(* p1 may die anywhere; what it dies updating is its own record, and what  *)
(* is looked for is never updated.                                         *)
Deaths ==
  [calls |-> [p \in Proc |->
     CASE p = "p1" -> {Insert("k1"), Update("k1")}
       [] p = "p2" -> {Insert("k2")}
       [] p = "p3" -> {Insert("k4"), Find("k2")}],
   signals |-> FALSE, mortal |-> {"p1"}]

MCScenarios == {Sequential, Writers, Deaths}

(* What the theorems about Table ask of a scenario.                        *)
ASSUME \A s \in MCScenarios : Workable(s) /\ ReadersApart(s) /\ Orderly(s)

OneRecord == <<"k3">>
TwoRecords == <<"k3", "k2">>

(* One call per process, for the runs that refute a claim.                 *)
RemoveTwice == {Peaceful([p \in Proc |-> {Remove("k3")}])}
SameInsert == {Peaceful([p \in Proc |-> {Insert("k1")}])}
FindBesideUpdate ==
  {Peaceful([p \in Proc |-> IF p = "p1" THEN {Find("k3")} ELSE {Update("k3")}])}
UpdateBesideReuse ==
  {Peaceful([p \in Proc |-> IF p = "p1" THEN {Update("k3")}
                            ELSE {Remove("k3"), Insert("k1")}])}
=============================================================================
