---------------------------- MODULE MCScratchPool ----------------------------
(* ScratchPool with two goroutines.                                         *)
EXTENDS ScratchPool, TLC

Goroutines == Permutations(Callers)
=============================================================================
