----------------------------- MODULE MCFdTable ------------------------------
(* Small instances of FdTable for TLC. *)
EXTENDS FdTable, TLC

CONSTANTS t1, t2, t3

ThreadSymmetry == Permutations(Threads)
=============================================================================
