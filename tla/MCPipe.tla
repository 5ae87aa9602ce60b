------------------------------- MODULE MCPipe -------------------------------
(* Pipe for TLC: readers are interchangeable, and so are writers.          *)
EXTENDS Pipe, TLC

Symmetry == Permutations(Readers) \cup Permutations(Writers)
=============================================================================
