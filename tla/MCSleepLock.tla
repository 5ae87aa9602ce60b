---------------------------- MODULE MCSleepLock ----------------------------
(* SleepLock for TLC: CPUs are interchangeable, processes are not (the     *)
(* process table is scanned in order).                                     *)
EXTENDS SleepLock, TLC

Symmetry == Permutations(CPUs)
=============================================================================
