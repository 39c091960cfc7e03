------------------------------ MODULE TaskPool ------------------------------
(***************************************************************************)
(* What a user of the scheduler relies on: a job handed to it is run, in   *)
(* slices, by one worker at a time, and run to its end once; when stop()   *)
(* returns, nothing that was handed in is left.                            *)
(***************************************************************************)
CONSTANTS Threads, Jobs, NoJob

VARIABLES jobState,  \* "new", "ready", "running", "over"
          worker,    \* worker[t]: the job t is executing a slice of
          stopped    \* stop() has returned

poolVars == <<jobState, worker, stopped>>

PoolInit ==
  /\ jobState = [j \in Jobs |-> "new"]
  /\ worker = [t \in Threads |-> NoJob]
  /\ stopped = FALSE

Accept(j) ==
  /\ ~stopped
  /\ jobState[j] = "new"
  /\ jobState' = [jobState EXCEPT ![j] = "ready"]
  /\ UNCHANGED <<worker, stopped>>

Begin(t, j) ==
  /\ jobState[j] = "ready"
  /\ worker[t] = NoJob
  /\ jobState' = [jobState EXCEPT ![j] = "running"]
  /\ worker' = [worker EXCEPT ![t] = j]
  /\ UNCHANGED stopped

\* The slice ends: the job suspends itself or is over.
End(t, s) ==
  /\ worker[t] # NoJob
  /\ jobState' = [jobState EXCEPT ![worker[t]] = s]
  /\ worker' = [worker EXCEPT ![t] = NoJob]
  /\ UNCHANGED stopped

StopReturn ==
  /\ ~stopped
  /\ \A j \in Jobs : jobState[j] \in {"new", "over"}
  /\ stopped' = TRUE
  /\ UNCHANGED <<jobState, worker>>

PoolNext ==
  \/ \E j \in Jobs : Accept(j) \/ \E t \in Threads : Begin(t, j)
  \/ \E t \in Threads, s \in {"ready", "over"} : End(t, s)
  \/ StopReturn

PoolSpec == PoolInit /\ [][PoolNext]_poolVars
=============================================================================
