----------------------------- MODULE MCFdEvents -----------------------------
(* Small instances of FdEvents for TLC. *)
EXTENDS FdEvents, TLC

CONSTANTS d1, d2, p1, p2, c1, c2

\* Descriptors, pollers and clients are interchangeable.
FdSymmetry ==
  Permutations(Fds) \cup Permutations(Pollers) \cup Permutations(Clients)
=============================================================================
