------------------------------ MODULE MCLayout ------------------------------
(* Tables of the default record size, 2 KiB.                               *)
EXTENDS Layout

MCCapacities == 1 .. 200
MCRecordSizes == {2048}
=============================================================================
