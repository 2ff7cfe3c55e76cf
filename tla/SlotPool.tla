------------------------------ MODULE SlotPool ------------------------------
(***************************************************************************)
(* What the slot array of src/internal/slot.rs promises its two callers    *)
(* (the record area of a Table and the node area of an Index), without the *)
(* free list, the counter or the link stored in a free slot: a pool of     *)
(* Capacity cells, an insertion takes some vacant cell, and it is refused  *)
(* for lack of room only when there is none.  Module Slots refines it.     *)
(***************************************************************************)
EXTENDS Integers

CONSTANTS
  Capacity,  \* number of cells
  Payload,   \* what a caller stores
  Vacant     \* content of a cell that holds nothing

VARIABLES
  content,   \* content[i]: the payload stored in cell i, or Vacant
  ret        \* what the last call returned

vars == <<content, ret>>

Cells == 0 .. Capacity - 1

Init ==
  /\ content = [i \in Cells |-> Vacant]
  /\ ret = [kind |-> "none"]

(* The cell is any vacant one: the caller learns which from the result. *)
Store(d) == \E i \in Cells :
  /\ content[i] = Vacant
  /\ content' = [content EXCEPT ![i] = d]
  /\ ret' = [kind |-> "index", index |-> i]

Refuse ==
  /\ \A i \in Cells : content[i] # Vacant
  /\ ret' = [kind |-> "TableFull"]
  /\ UNCHANGED content

(* A payload may be refused for its size, whatever the pool holds. *)
TooBig ==
  /\ ret' = [kind |-> "RecordSizeTooBig"]
  /\ UNCHANGED content

Overwrite(i, d) ==
  /\ content[i] # Vacant
  /\ content' = [content EXCEPT ![i] = d]
  /\ ret' = [kind |-> "unit"]

Release(i) ==
  /\ content[i] # Vacant
  /\ content' = [content EXCEPT ![i] = Vacant]
  /\ ret' = [kind |-> "unit"]

Fetch(i) ==
  /\ ret' = [kind |-> "data", data |-> content[i]]
  /\ UNCHANGED content

Next ==
  \/ \E d \in Payload : Store(d)
  \/ Refuse
  \/ TooBig
  \/ \E i \in Cells, d \in Payload : Overwrite(i, d)
  \/ \E i \in Cells : Release(i)
  \/ \E i \in Cells : Fetch(i)

Spec == Init /\ [][Next]_vars
=============================================================================
