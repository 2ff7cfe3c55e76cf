------------------------------ MODULE MCSlots ------------------------------
(* A small slot array: payloads of two lengths that fit and one that does  *)
(* not.                                                                    *)
EXTENDS Slots

MCPayload == {"a", "b", "big"}
MCSizeOf == [d \in MCPayload |-> CASE d = "a" -> 1 [] d = "b" -> 2 [] d = "big" -> 3]
=============================================================================
