--------------------------- MODULE MCTimerManager ---------------------------
(* A small instance of TimerManager for TLC. *)
EXTENDS TimerManager

CONSTANTS p1, p2
=============================================================================
