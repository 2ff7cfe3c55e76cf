---------------------------- MODULE MCLifecycle ----------------------------
(* Processes are interchangeable.                                          *)
EXTENDS Lifecycle, TLC

Symmetry == Permutations(Proc)
=============================================================================
