------------------------------- MODULE MCProc -------------------------------
(* Proc for TLC: all slots but the first process's are interchangeable.    *)
EXTENDS Proc, TLC

Symmetry == Permutations(Slots \ {initproc})
=============================================================================
