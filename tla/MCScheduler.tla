---------------------------- MODULE MCScheduler ----------------------------
(* Small instances of Scheduler for TLC. *)
EXTENDS Scheduler

CONSTANTS t1, t2, f1, f2, f3, f4, j1, j2, j3

MCAnyPin == [j \in Jobs |-> AnyThread]
MCPinJ1  == [j \in Jobs |-> IF j = j1 THEN t1 ELSE AnyThread]

\* The fibers are interchangeable; threads and jobs are not (Pin, Root).
FiberSymmetry == Permutations(Fibers)
============================================================================
