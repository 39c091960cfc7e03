---------------------------- MODULE MCIOScheduler ----------------------------
(* Small instances of IOScheduler for TLC. *)
EXTENDS IOScheduler

CONSTANTS w1, w2, j1, j2, j3

\* j1 is scheduled for w1, the others for any worker.
MCPin  == [j \in Jobs |-> IF j = j1 THEN w1 ELSE Owner]
MCOnce == [j \in Jobs |-> IF j \in Spawned THEN 0 ELSE 1]
MCTwice == [j \in Jobs |-> 2]
=============================================================================
