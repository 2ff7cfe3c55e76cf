--------------------------- MODULE MCSemaphoreSet ---------------------------
(* Three processes over the set of a large table, of which the records at  *)
(* both ends of the first stripe and the first of the second are locked:   *)
(* two share a semaphore, one has another, and the table's is missing.     *)
EXTENDS SemaphoreSet

StripeEnds == {0, StripeSize - 1, StripeSize}
=============================================================================
