-------------------------- MODULE IOSchedulerProofs --------------------------
(***************************************************************************)
(* stop() leaves no job behind, although canStopNow reads the timers, the  *)
(* pending events and the mission list one after the other: for any number *)
(* of workers and jobs, if jobs wait once (OneWait).                       *)
(*                                                                         *)
(* The argument (Seen): whoever moves a job to another place has not begun *)
(* its own three reads yet, so for each job that waits there is a worker   *)
(* that has still to read the place where it is.  It fails when the mover  *)
(* has decided to leave already, hence Spent.                              *)
(***************************************************************************)
EXTENDS IOScheduler, TLAPS, FiniteSetTheorems

Types ==
  /\ place \in [Jobs -> Places] /\ waits \in [Jobs -> Nat]
  /\ pc \in [Workers -> Pcs] /\ job \in [Workers -> Jobs \cup {NoJob}]
  /\ hand \in [Workers -> SUBSET Jobs] /\ snap \in [Workers -> SUBSET Jobs]
  /\ idleTerm \subseteq Workers

\* Where workers that have decided to leave may be.
Leavers ==
  /\ idleTerm # {} => stopping
  /\ main = "running" => ~stopping
  /\ main = "stopped" => \A w \in Workers : pc[w] = "done"
  /\ \A w \in Workers :
       /\ w \in idleTerm => pc[w] \in {"out", "take", "run", "leave", "back", "done"}
       /\ pc[w] = "done" => w \in idleTerm

\* What a worker holds is where the worker believes it to be.
Holds(w) ==
  /\ pc[w] \in {"run", "leave", "back"} => job[w] \in Jobs
  /\ pc[w] = "run" => place[job[w]] = "run"
  /\ pc[w] = "back" => place[job[w]] = "ready"
  /\ pc[w] = "leave" => place[job[w]] = "over" \/ waits[job[w]] = 0
  /\ hand[w] # {} => pc[w] = "cbs"
  /\ \A j \in hand[w] : place[j] = "hand"
  /\ \A j \in snap[w] : place[j] = "snap"

Apart(w, v) ==
  /\ hand[w] \cap hand[v] = {} /\ snap[w] \cap snap[v] = {}
  /\ pc[w] = "run" /\ pc[v] = "run" => job[w] # job[v]
  /\ /\ pc[w] \in {"run", "leave", "back"} /\ pc[v] \in {"run", "leave", "back"}
     /\ job[w] = job[v]
     => waits[job[w]] = 0 /\ place[job[w]] # "ready"

Holders ==
  /\ \A w \in Workers : Holds(w)
  /\ \A w, v \in Workers : w # v => Apart(w, v)

\* Suspensions are counted, and every job that is not in a shared place is with
\* a worker.
Known(j) ==
  /\ waits[j] <= Waits[j]
  /\ place[j] = "new" => waits[j] = Waits[j]
  /\ place[j] \in Registered \cup InSet \cup {"hand", "ready"} =>
       waits[j] = 0 /\ Waits[j] = 1
  /\ place[j] = "run" => \E w \in Workers : pc[w] = "run" /\ job[w] = j
  /\ place[j] = "ready" => \E w \in Workers : pc[w] \in {"leave", "back"} /\ job[w] = j
  /\ place[j] = "hand" => \E w \in Workers : j \in hand[w]

\* Once a worker has decided to leave, no job can wait again.
Spent(j) == idleTerm # {} /\ place[j] \notin {"new", "over"} => waits[j] = 0

\* Somebody has still to read the place where the job is.
Seen(j) ==
  /\ place[j] \in InSet =>
       \E w \in Workers \ idleTerm : pc[w] \notin {"pending", "missons"}
  /\ place[j] \in Registered => \E w \in Workers \ idleTerm : pc[w] # "missons"
  /\ place[j] = "list" =>
       \E w \in Workers : w \notin idleTerm \/ (pc[w] # "done" /\ Eligible(w, j))

Inv ==
  /\ Types /\ Leavers /\ Holders
  /\ \A j \in Jobs : Known(j) /\ Spent(j) /\ Seen(j)

\* The jobs of the theorem: they wait once, and those that jobs spawn may be
\* taken by any worker.
Modest == OneWait /\ \A j \in Spawned : Pin[j] = Owner

LEMMA ModestJobs ==
  ASSUME Modest, NEW j \in Jobs
  PROVE  Waits[j] \in Nat /\ Waits[j] <= 1 /\ (j \in Spawned => Waits[j] = 0 /\ Pin[j] = Owner)
BY IOSchedulerAssumption DEF Modest, OneWait

LEMMA InitInv == Modest /\ Init => Inv
<1> SUFFICES ASSUME Modest, Init PROVE Inv OBVIOUS
<1> USE DEF Init
<1>1. Types
  BY IOSchedulerAssumption DEF Types, Places, Pcs
<1>2. Leavers BY DEF Leavers
<1>3. Holders BY DEF Holders, Holds, Apart
<1>4. \A j \in Jobs : Known(j) /\ Spent(j) /\ Seen(j)
  BY IOSchedulerAssumption DEF Known, Spent, Seen, Registered, InSet
<1>5. QED BY <1>1, <1>2, <1>3, <1>4 DEF Inv

\* Steps that touch neither places nor decisions.
LEMMA Aside ==
  ASSUME Inv, UNCHANGED <<place, waits, job, hand, snap, idleTerm>>,
         main' = main \/ (main = "running" /\ main' = "stopping")
           \/ (main' = "stopped" /\ \A w \in Workers : pc[w] = "done"),
         stopping' = stopping \/ (main' = "stopping" /\ stopping' = TRUE),
         pc' = pc
           \/ \E w \in Workers : \E l \in Pcs :
                /\ pc' = [pc EXCEPT ![w] = l]
                /\ w \notin idleTerm \/ pc[w] = "out"
                /\ pc[w] \notin {"done", "run", "leave", "back", "cbs"}
                /\ l \notin {"done", "run", "leave", "back", "cbs"}
                /\ pc[w] = "out" => l = "take"
                /\ l = "pending" => pc[w] = "timers" /\ Timers = {}
                /\ l = "missons" => pc[w] = "pending" /\ \A j \in Jobs : place[j] \notin Registered
         PROVE Inv'
<1> USE DEF Inv
<1>1. Types' BY DEF Types
<1>2. Leavers' BY DEF Types, Leavers
<1>3. Holders'
  <2>1. ASSUME NEW w \in Workers PROVE Holds(w)'
    BY DEF Types, Holders, Holds
  <2>2. ASSUME NEW w \in Workers, NEW v \in Workers, w # v PROVE Apart(w, v)'
    BY <2>2 DEF Types, Holders, Apart
  <2>3. QED BY <2>1, <2>2 DEF Holders
<1>4. ASSUME NEW j \in Jobs PROVE Known(j)' /\ Spent(j)' /\ Seen(j)'
  <2>1. Known(j)' BY DEF Types, Known
  <2>2. Spent(j)' BY DEF Spent
  <2>3. Seen(j)' BY DEF Types, Seen, Timers, Eligible, Leavers
  <2>4. QED BY <2>1, <2>2, <2>3
<1>5. QED BY <1>1, <1>2, <1>3, <1>4

\* The case of one worker that goes on to the label l.
LEMMA AsideGoto ==
  ASSUME Inv, NEW w \in Workers, NEW l \in Pcs, Goto(w, l),
         UNCHANGED <<place, waits, job, hand, snap, idleTerm, main, stopping>>,
         w \notin idleTerm \/ pc[w] = "out",
         pc[w] \notin {"done", "run", "leave", "back", "cbs"},
         l \notin {"done", "run", "leave", "back", "cbs"},
         pc[w] = "out" => l = "take",
         l = "pending" => pc[w] = "timers" /\ Timers = {},
         l = "missons" => pc[w] = "pending" /\ \A j \in Jobs : place[j] \notin Registered
  PROVE  Inv'
BY Aside DEF Goto

\* Before stop() nobody has decided to leave.
LEMMA SubmitInv ==
  ASSUME Modest, Inv, NEW j \in Jobs, Submit(j)
  PROVE  Inv'
<1> USE DEF Inv
<1>1. Types' BY DEF Types, Goto, Is, Submit, Schedule, idleVars, Places, Pcs, InIdle, Active, Reading, Registered, InSet, At
<1>2. Leavers' BY DEF Types, Leavers, ownerVars, Goto, Is, Submit, Schedule, idleVars
<1>3. Holders'
  <2>1. ASSUME NEW v \in Workers PROVE Holds(v)'
    BY DEF Types, Holders, Holds, Apart, Leavers, Goto, Is, Submit, Schedule, idleVars, At
  <2>2. ASSUME NEW u \in Workers, NEW v \in Workers, u # v PROVE Apart(u, v)'
    BY <2>2 DEF Types, Holders, Holds, Apart, Goto, Is, Submit, Schedule, idleVars, At
  <2>3. QED BY <2>1, <2>2 DEF Holders
<1>4. ASSUME NEW i \in Jobs PROVE Known(i)' /\ Spent(i)' /\ Seen(i)'
  <2> USE ModestJobs
  <2>1. Known(i)' BY DEF Types, Known, Holders, Holds, Goto, Is, Submit, Schedule, idleVars, Registered, InSet, At
  <2>2. Spent(i)' BY DEF Types, Known, Spent, Holders, Holds, Leavers, Goto, Is, Submit, Schedule, idleVars, Registered, InSet, At
  <2>3. Seen(i)' BY IOSchedulerAssumption DEF Types, Known, Seen, Spent, Holders, Holds, Leavers, Goto, Is, Submit, Schedule, idleVars, Registered, InSet, Eligible, Missons, At
  <2>4. QED BY <2>1, <2>2, <2>3
<1>5. QED BY <1>1, <1>2, <1>3, <1>4

\* A worker that takes a job holds it; whoever still holds it too, on its way
\* back from the slice that ended in a wait, will find it spent.
LEMMA TakeInv ==
  ASSUME Modest, Inv, NEW w \in Workers, NEW j \in Jobs, Take(w, j)
  PROVE  Inv'
<1> USE DEF Inv
<1>1. Types' BY DEF Types, Goto, Is, Take, idleVars, Missons, Places, Pcs, InIdle, Active, Reading, Registered, InSet, At
<1>2. Leavers' BY DEF Types, Leavers, ownerVars, Goto, Is, Take, idleVars, Missons
<1>3. Holders'
  <2>1. ASSUME NEW v \in Workers PROVE Holds(v)'
    BY DEF Types, Holders, Holds, Apart, Leavers, Goto, Is, Take, idleVars, Missons, At
  <2>2. ASSUME NEW u \in Workers, NEW v \in Workers, u # v PROVE Apart(u, v)'
    BY <2>2 DEF Types, Holders, Holds, Apart, Goto, Is, Take, idleVars, Missons, At
  <2>3. QED BY <2>1, <2>2 DEF Holders
<1>4. ASSUME NEW i \in Jobs PROVE Known(i)' /\ Spent(i)' /\ Seen(i)'
  <2> USE ModestJobs
  <2>1. Known(i)' BY DEF Types, Known, Holders, Holds, Goto, Is, Take, idleVars, Missons, Registered, InSet, At
  <2>2. Spent(i)' BY DEF Types, Known, Spent, Holders, Holds, Leavers, Goto, Is, Take, idleVars, Missons, Registered, InSet, At
  <2>3. Seen(i)' BY DEF Types, Known, Seen, Spent, Holders, Holds, Leavers, Goto, Is, Take, idleVars, Missons, Registered, InSet, Eligible, Missons, At
  <2>4. QED BY <2>1, <2>2, <2>3
<1>5. QED BY <1>1, <1>2, <1>3, <1>4

\* A worker leaves run() only if no mission is left that it may take.
LEMMA TakeNothingInv ==
  ASSUME Modest, Inv, NEW w \in Workers, TakeNothing(w)
  PROVE  Inv'
<1> USE DEF Inv
<1>1. Types' BY DEF Types, Goto, Is, TakeNothing, idleVars, Missons, Eligible, Places, Pcs, InIdle, Active, Reading, Registered, InSet, At
<1>2. Leavers' BY DEF Types, Leavers, ownerVars, Goto, Is, TakeNothing, idleVars, Missons, Eligible
<1>3. Holders'
  <2>1. ASSUME NEW v \in Workers PROVE Holds(v)'
    BY DEF Types, Holders, Holds, Apart, Leavers, Goto, Is, TakeNothing, idleVars, Missons, Eligible, At
  <2>2. ASSUME NEW u \in Workers, NEW v \in Workers, u # v PROVE Apart(u, v)'
    BY <2>2 DEF Types, Holders, Holds, Apart, Goto, Is, TakeNothing, idleVars, Missons, Eligible, At
  <2>3. QED BY <2>1, <2>2 DEF Holders
<1>4. ASSUME NEW i \in Jobs PROVE Known(i)' /\ Spent(i)' /\ Seen(i)'
  <2> USE ModestJobs
  <2>1. Known(i)' BY DEF Types, Known, Holders, Holds, Goto, Is, TakeNothing, idleVars, Missons, Eligible, Registered, InSet, At
  <2>2. Spent(i)' BY DEF Types, Known, Spent, Holders, Holds, Leavers, Goto, Is, TakeNothing, idleVars, Missons, Eligible, Registered, InSet, At
  <2>3. Seen(i)' BY DEF Types, Known, Seen, Spent, Holders, Holds, Leavers, Goto, Is, TakeNothing, idleVars, Missons, Eligible, Registered, InSet, Eligible, Missons, At
  <2>4. QED BY <2>1, <2>2, <2>3
<1>5. QED BY <1>1, <1>2, <1>3, <1>4

\* The worker whose job begins to wait has its three reads before it: had it
\* decided to leave, the job would be spent.
LEMMA SliceInv ==
  ASSUME Modest, Inv, NEW w \in Workers, NEW p \in {"over", "ready", "event", "timer"}, Slice(w, p)
  PROVE  Inv'
<1> USE DEF Inv
<1>0. /\ job[w] \in Jobs /\ pc[w] = "run" /\ place[job[w]] = "run"
      /\ waits[job[w]] \in {0, 1}
      /\ p # "over" => waits[job[w]] = 1 /\ Waits[job[w]] = 1
      /\ waits' = [waits EXCEPT ![job[w]] = IF p = "over" THEN waits[job[w]] ELSE 0]
  <2>1. job[w] \in Jobs /\ pc[w] = "run" /\ place[job[w]] = "run"
    BY DEF Slice, Is, Holders, Holds
  <2>2. waits[job[w]] \in Nat /\ waits[job[w]] <= Waits[job[w]]
        /\ Waits[job[w]] \in Nat /\ Waits[job[w]] <= 1
    BY <2>1, ModestJobs DEF Types, Known
  <2>3. p # "over" => waits[job[w]] > 0 BY DEF Slice
  <2>4. waits' = [waits EXCEPT ![job[w]] = IF p = "over" THEN @ ELSE @ - 1]
    BY DEF Slice
  <2>5. CASE p = "over" BY <2>1, <2>2, <2>4, <2>5
  <2>6. CASE p # "over"
    <3>1. waits[job[w]] = 1 /\ Waits[job[w]] = 1 BY <2>2, <2>3, <2>6
    <3>2. waits' = [waits EXCEPT ![job[w]] = 0] BY <2>4, <2>6, <3>1
    <3>3. QED BY <2>1, <2>6, <3>1, <3>2
  <2>7. QED BY <2>5, <2>6
<1>1. Types' BY <1>0 DEF Types, Goto, Is, Slice, idleVars, Places, Pcs, InIdle, Active, Reading, Registered, InSet, At
<1>2. Leavers' BY DEF Types, Leavers, ownerVars, Goto, Is, Slice, idleVars
<1>3. Holders'
  <2>1. ASSUME NEW v \in Workers PROVE Holds(v)'
    <3>1. Holds(v) BY DEF Holders
    <3>2. CASE v = w BY <1>0, <3>1, <3>2 DEF Types, Holds, Goto, Slice, idleVars
    <3>3. CASE v # w
      <4>1. pc[v] \in {"run", "leave", "back"} /\ job[v] = job[w] =>
              waits[job[w]] = 0 /\ pc[v] = "leave" /\ p = "over"
        BY <1>0, <3>1, <3>3 DEF Holders, Apart, Holds
      <4>2. pc'[v] = pc[v] /\ job'[v] = job[v] /\ hand'[v] = hand[v] /\ snap'[v] = snap[v]
        BY <3>3 DEF Types, Goto, Slice, idleVars
      <4>3. \A j \in Jobs : j # job[w] => place'[j] = place[j] /\ waits'[j] = waits[j]
        BY <1>0 DEF Types, Slice
      <4>4. place'[job[w]] = p /\ (p = "over" => waits'[job[w]] = waits[job[w]])
        BY <1>0 DEF Types, Slice
      <4>5. QED BY <1>0, <3>1, <4>1, <4>2, <4>3, <4>4 DEF Types, Holds
    <3>4. QED BY <3>2, <3>3
  <2>2. ASSUME NEW u \in Workers, NEW v \in Workers, u # v PROVE Apart(u, v)'
    BY <1>0, <2>2 DEF Types, Holders, Holds, Apart, Goto, Is, Slice, idleVars, At
  <2>3. QED BY <2>1, <2>2 DEF Holders
<1>4. ASSUME NEW i \in Jobs PROVE Known(i)' /\ Spent(i)' /\ Seen(i)'
  <2> USE ModestJobs
  <2>1. Known(i)' BY <1>0 DEF Types, Known, Holders, Holds, Goto, Is, Slice, idleVars, Registered, InSet, At
  <2>2. Spent(i)' BY <1>0 DEF Types, Known, Spent, Holders, Holds, Leavers, Goto, Is, Slice, idleVars, Registered, InSet, At
  <2>3. Seen(i)' BY <1>0 DEF Types, Known, Seen, Spent, Holders, Holds, Leavers, Goto, Is, Slice, idleVars, Registered, InSet, Eligible, Missons, At
  <2>4. QED BY <2>1, <2>2, <2>3
<1>5. QED BY <1>1, <1>2, <1>3, <1>4

\* A spawned job is for any worker, so also for the one that spawned it.
LEMMA SpawnInv ==
  ASSUME Modest, Inv, NEW w \in Workers, NEW j \in Jobs, Spawn(w, j)
  PROVE  Inv'
<1> USE DEF Inv
<1>1. Types' BY DEF Types, Goto, Is, Spawn, Schedule, idleVars, Places, Pcs, InIdle, Active, Reading, Registered, InSet, At
<1>2. Leavers' BY DEF Types, Leavers, ownerVars, Goto, Is, Spawn, Schedule, idleVars
<1>3. Holders'
  <2>1. ASSUME NEW v \in Workers PROVE Holds(v)'
    BY DEF Types, Holders, Holds, Apart, Leavers, Goto, Is, Spawn, Schedule, idleVars, At
  <2>2. ASSUME NEW u \in Workers, NEW v \in Workers, u # v PROVE Apart(u, v)'
    BY <2>2 DEF Types, Holders, Holds, Apart, Goto, Is, Spawn, Schedule, idleVars, At
  <2>3. QED BY <2>1, <2>2 DEF Holders
<1>4. ASSUME NEW i \in Jobs PROVE Known(i)' /\ Spent(i)' /\ Seen(i)'
  <2> USE ModestJobs
  <2>1. Known(i)' BY DEF Types, Known, Holders, Holds, Goto, Is, Spawn, Schedule, idleVars, Registered, InSet, At
  <2>2. Spent(i)' BY DEF Types, Known, Spent, Holders, Holds, Leavers, Goto, Is, Spawn, Schedule, idleVars, Registered, InSet, At
  <2>3. Seen(i)' BY DEF Types, Known, Seen, Spent, Holders, Holds, Leavers, Goto, Is, Spawn, Schedule, idleVars, Registered, InSet, Eligible, Missons, At
  <2>4. QED BY <2>1, <2>2, <2>3
<1>5. QED BY <1>1, <1>2, <1>3, <1>4

\* m_activeThreadCount-- and the look at the fiber's state.
LEMMA LeaveInv ==
  ASSUME Modest, Inv, NEW w \in Workers, Leave(w)
  PROVE  Inv'
<1> USE DEF Inv
<1>1. Types' BY DEF Types, Goto, Is, Leave, idleVars, Places, Pcs, InIdle, Active, Reading, Registered, InSet, At
<1>2. Leavers' BY DEF Types, Leavers, ownerVars, Goto, Is, Leave, idleVars
<1>3. Holders'
  <2>1. ASSUME NEW v \in Workers PROVE Holds(v)'
    BY DEF Types, Holders, Holds, Apart, Leavers, Goto, Is, Leave, idleVars, At
  <2>2. ASSUME NEW u \in Workers, NEW v \in Workers, u # v PROVE Apart(u, v)'
    BY <2>2 DEF Types, Holders, Holds, Apart, Goto, Is, Leave, idleVars, At
  <2>3. QED BY <2>1, <2>2 DEF Holders
<1>4. ASSUME NEW i \in Jobs PROVE Known(i)' /\ Spent(i)' /\ Seen(i)'
  <2> USE ModestJobs
  <2>1. Known(i)' BY DEF Types, Known, Holders, Holds, Goto, Is, Leave, idleVars, Registered, InSet, At
  <2>2. Spent(i)' BY DEF Types, Known, Spent, Holders, Holds, Leavers, Goto, Is, Leave, idleVars, Registered, InSet, At
  <2>3. Seen(i)' BY DEF Types, Known, Seen, Spent, Holders, Holds, Leavers, Goto, Is, Leave, idleVars, Registered, InSet, Eligible, Missons, At
  <2>4. QED BY <2>1, <2>2, <2>3
<1>5. QED BY <1>1, <1>2, <1>3, <1>4

\* A READY fiber goes back into the list and this worker back to take.
LEMMA RequeueInv ==
  ASSUME Modest, Inv, NEW w \in Workers, Requeue(w)
  PROVE  Inv'
<1> USE DEF Inv
<1>1. Types' BY DEF Types, Goto, Is, Requeue, Schedule, idleVars, Places, Pcs, InIdle, Active, Reading, Registered, InSet, At
<1>2. Leavers' BY DEF Types, Leavers, ownerVars, Goto, Is, Requeue, Schedule, idleVars
<1>3. Holders'
  <2>1. ASSUME NEW v \in Workers PROVE Holds(v)'
    BY DEF Types, Holders, Holds, Apart, Leavers, Goto, Is, Requeue, Schedule, idleVars, At
  <2>2. ASSUME NEW u \in Workers, NEW v \in Workers, u # v PROVE Apart(u, v)'
    BY <2>2 DEF Types, Holders, Holds, Apart, Goto, Is, Requeue, Schedule, idleVars, At
  <2>3. QED BY <2>1, <2>2 DEF Holders
<1>4. ASSUME NEW i \in Jobs PROVE Known(i)' /\ Spent(i)' /\ Seen(i)'
  <2> USE ModestJobs
  <2>1. Known(i)' BY DEF Types, Known, Holders, Holds, Goto, Is, Requeue, Schedule, idleVars, Registered, InSet, At
  <2>2. Spent(i)' BY DEF Types, Known, Spent, Holders, Holds, Leavers, Goto, Is, Requeue, Schedule, idleVars, Registered, InSet, At
  <2>3. Seen(i)' BY DEF Types, Known, Seen, Spent, Holders, Holds, Leavers, Goto, Is, Requeue, Schedule, idleVars, Registered, InSet, Eligible, Missons, At
  <2>4. QED BY <2>1, <2>2, <2>3
<1>5. QED BY <1>1, <1>2, <1>3, <1>4

\* The decision to leave: no mission, no active thread, so every job that is
\* not over has waited; and the worker that sees the rest is another one.
LEMMA ReadMissonsInv ==
  ASSUME Modest, Inv, NEW w \in Workers, ReadMissons(w)
  PROVE  Inv'
<1> USE DEF Inv
<1>0. idleTerm' # idleTerm =>
        /\ stopping /\ \A j \in Jobs : place[j] # "list"
        /\ \A v \in Workers : pc[v] \notin {"run", "leave"}
  <2> SUFFICES ASSUME idleTerm' # idleTerm, NEW v \in Workers, pc[v] \in Active
               PROVE  FALSE
    BY DEF ReadMissons, Missons, At, Active
  <2>1. {u \in Workers : pc[u] \in Active} = {}
    <3>1. IsFiniteSet({u \in Workers : pc[u] \in Active})
      BY IOSchedulerAssumption, FS_Subset
    <3>2. Cardinality({u \in Workers : pc[u] \in Active}) = 0
      BY DEF ReadMissons, ActiveThreadCount
    <3>3. QED BY <3>1, <3>2, FS_EmptySet
  <2>2. QED BY <2>1
<1>1. Types' BY DEF Types, Goto, Is, ReadMissons, Missons, Places, Pcs, InIdle, Active, Reading, Registered, InSet, At
<1>2. Leavers' BY DEF Types, Leavers, ownerVars, Goto, Is, ReadMissons, Missons
<1>3. Holders'
  <2>1. ASSUME NEW v \in Workers PROVE Holds(v)'
    BY DEF Types, Holders, Holds, Apart, Leavers, Goto, Is, ReadMissons, Missons, At
  <2>2. ASSUME NEW u \in Workers, NEW v \in Workers, u # v PROVE Apart(u, v)'
    BY <2>2 DEF Types, Holders, Holds, Apart, Goto, Is, ReadMissons, Missons, At
  <2>3. QED BY <2>1, <2>2 DEF Holders
<1>4. ASSUME NEW i \in Jobs PROVE Known(i)' /\ Spent(i)' /\ Seen(i)'
  <2> USE ModestJobs
  <2>1. Known(i)' BY DEF Types, Known, Holders, Holds, Goto, Is, ReadMissons, Missons, Registered, InSet, At
  <2>2. Spent(i)'
    <3>1. CASE idleTerm' = idleTerm BY <3>1 DEF Spent, ReadMissons
    <3>2. CASE idleTerm' # idleTerm
      <4>1. place[i] \in Places /\ Known(i) /\ place[i] # "list" BY <1>0, <3>2 DEF Types
      <4>2. place[i] # "run" BY <1>0, <3>2, <4>1 DEF Known
      <4>3. place[i] \notin {"new", "over"} => waits[i] = 0
        BY <4>1, <4>2 DEF Known, Places
      <4>4. QED BY <4>3 DEF Spent, ReadMissons
    <3>3. QED BY <3>1, <3>2
  <2>3. Seen(i)' BY DEF Types, Known, Seen, Spent, Holders, Holds, Leavers, Goto, Is, ReadMissons, Missons, Registered, InSet, Eligible, Missons, At
  <2>4. QED BY <2>1, <2>2, <2>3
<1>5. QED BY <1>1, <1>2, <1>3, <1>4

\* epoll_wait only marks events as harvested.
LEMMA EpollWaitInv ==
  ASSUME Modest, Inv, NEW w \in Workers, EpollWait(w)
  PROVE  Inv'
<1> USE DEF Inv
<1>1. Types' BY DEF Types, Goto, Is, EpollWait, Places, Pcs, InIdle, Active, Reading, Registered, InSet, At
<1>2. Leavers' BY DEF Types, Leavers, ownerVars, Goto, Is, EpollWait
<1>3. Holders'
  <2>1. ASSUME NEW v \in Workers PROVE Holds(v)'
    BY DEF Types, Holders, Holds, Apart, Leavers, Goto, Is, EpollWait, At
  <2>2. ASSUME NEW u \in Workers, NEW v \in Workers, u # v PROVE Apart(u, v)'
    BY <2>2 DEF Types, Holders, Holds, Apart, Goto, Is, EpollWait, At
  <2>3. QED BY <2>1, <2>2 DEF Holders
<1>4. ASSUME NEW i \in Jobs PROVE Known(i)' /\ Spent(i)' /\ Seen(i)'
  <2> USE ModestJobs
  <2>1. Known(i)' BY DEF Types, Known, Holders, Holds, Goto, Is, EpollWait, Registered, InSet, At
  <2>2. Spent(i)' BY DEF Types, Known, Spent, Holders, Holds, Leavers, Goto, Is, EpollWait, Registered, InSet, At
  <2>3. Seen(i)' BY DEF Types, Known, Seen, Spent, Holders, Holds, Leavers, Goto, Is, EpollWait, Registered, InSet, Eligible, Missons, At
  <2>4. QED BY <2>1, <2>2, <2>3
<1>5. QED BY <1>1, <1>2, <1>3, <1>4

\* The expired timers' jobs are in the hands of a worker that has not decided.
LEMMA ListExpiredInv ==
  ASSUME Modest, Inv, NEW w \in Workers, ListExpired(w)
  PROVE  Inv'
<1> USE DEF Inv
<1>1. Types' BY DEF Types, Goto, Is, ListExpired, Places, Pcs, InIdle, Active, Reading, Registered, InSet, At
<1>2. Leavers' BY DEF Types, Leavers, ownerVars, Goto, Is, ListExpired
<1>3. Holders'
  <2>1. ASSUME NEW v \in Workers PROVE Holds(v)'
    BY DEF Types, Holders, Holds, Apart, Leavers, Goto, Is, ListExpired, At
  <2>2. ASSUME NEW u \in Workers, NEW v \in Workers, u # v PROVE Apart(u, v)'
    BY <2>2 DEF Types, Holders, Holds, Apart, Goto, Is, ListExpired, At
  <2>3. QED BY <2>1, <2>2 DEF Holders
<1>4. ASSUME NEW i \in Jobs PROVE Known(i)' /\ Spent(i)' /\ Seen(i)'
  <2> USE ModestJobs
  <2>1. Known(i)' BY DEF Types, Known, Holders, Holds, Goto, Is, ListExpired, Registered, InSet, At
  <2>2. Spent(i)' BY DEF Types, Known, Spent, Holders, Holds, Leavers, Goto, Is, ListExpired, Registered, InSet, At
  <2>3. Seen(i)' BY DEF Types, Known, Seen, Spent, Holders, Holds, Leavers, Goto, Is, ListExpired, Registered, InSet, Eligible, Missons, At
  <2>4. QED BY <2>1, <2>2, <2>3
<1>5. QED BY <1>1, <1>2, <1>3, <1>4

\* They go to the list, before its own reads.
LEMMA ScheduleCbsInv ==
  ASSUME Modest, Inv, NEW w \in Workers, ScheduleCbs(w)
  PROVE  Inv'
<1> USE DEF Inv
<1>1. Types' BY DEF Types, Goto, Is, ScheduleCbs, Schedule, Places, Pcs, InIdle, Active, Reading, Registered, InSet, At
<1>2. Leavers' BY DEF Types, Leavers, ownerVars, Goto, Is, ScheduleCbs, Schedule
<1>3. Holders'
  <2>1. ASSUME NEW v \in Workers PROVE Holds(v)'
    BY DEF Types, Holders, Holds, Apart, Leavers, Goto, Is, ScheduleCbs, Schedule, At
  <2>2. ASSUME NEW u \in Workers, NEW v \in Workers, u # v PROVE Apart(u, v)'
    BY <2>2 DEF Types, Holders, Holds, Apart, Goto, Is, ScheduleCbs, Schedule, At
  <2>3. QED BY <2>1, <2>2 DEF Holders
<1>4. ASSUME NEW i \in Jobs PROVE Known(i)' /\ Spent(i)' /\ Seen(i)'
  <2> USE ModestJobs
  <2>1. Known(i)' BY DEF Types, Known, Holders, Holds, Goto, Is, ScheduleCbs, Schedule, Registered, InSet, At
  <2>2. Spent(i)' BY DEF Types, Known, Spent, Holders, Holds, Leavers, Goto, Is, ScheduleCbs, Schedule, Registered, InSet, At
  <2>3. Seen(i)' BY DEF Types, Known, Seen, Spent, Holders, Holds, Leavers, Goto, Is, ScheduleCbs, Schedule, Registered, InSet, Eligible, Missons, At
  <2>4. QED BY <2>1, <2>2, <2>3
<1>5. QED BY <1>1, <1>2, <1>3, <1>4

\* So does the job of an event.
LEMMA TriggerInv ==
  ASSUME Modest, Inv, NEW w \in Workers, NEW j \in Jobs, Trigger(w, j)
  PROVE  Inv'
<1> USE DEF Inv
<1>1. Types' BY DEF Types, Goto, Is, Trigger, Schedule, Places, Pcs, InIdle, Active, Reading, Registered, InSet, At
<1>2. Leavers' BY DEF Types, Leavers, ownerVars, Goto, Is, Trigger, Schedule
<1>3. Holders'
  <2>1. ASSUME NEW v \in Workers PROVE Holds(v)'
    BY DEF Types, Holders, Holds, Apart, Leavers, Goto, Is, Trigger, Schedule, At
  <2>2. ASSUME NEW u \in Workers, NEW v \in Workers, u # v PROVE Apart(u, v)'
    BY <2>2 DEF Types, Holders, Holds, Apart, Goto, Is, Trigger, Schedule, At
  <2>3. QED BY <2>1, <2>2 DEF Holders
<1>4. ASSUME NEW i \in Jobs PROVE Known(i)' /\ Spent(i)' /\ Seen(i)'
  <2> USE ModestJobs
  <2>1. Known(i)' BY DEF Types, Known, Holders, Holds, Goto, Is, Trigger, Schedule, Registered, InSet, At
  <2>2. Spent(i)' BY DEF Types, Known, Spent, Holders, Holds, Leavers, Goto, Is, Trigger, Schedule, Registered, InSet, At
  <2>3. Seen(i)' BY DEF Types, Known, Seen, Spent, Holders, Holds, Leavers, Goto, Is, Trigger, Schedule, Registered, InSet, Eligible, Missons, At
  <2>4. QED BY <2>1, <2>2, <2>3
<1>5. QED BY <1>1, <1>2, <1>3, <1>4

\* What is waited for happens where it is.
LEMMA HappenInv ==
  ASSUME Modest, Inv, NEW j \in Jobs, Happen(j)
  PROVE  Inv'
<1> USE DEF Inv
<1>1. Types' BY DEF Types, Goto, Is, Happen, idleVars, Places, Pcs, InIdle, Active, Reading, Registered, InSet, At
<1>2. Leavers' BY DEF Types, Leavers, ownerVars, Goto, Is, Happen, idleVars
<1>3. Holders'
  <2>1. ASSUME NEW v \in Workers PROVE Holds(v)'
    BY DEF Types, Holders, Holds, Apart, Leavers, Goto, Is, Happen, idleVars, At
  <2>2. ASSUME NEW u \in Workers, NEW v \in Workers, u # v PROVE Apart(u, v)'
    BY <2>2 DEF Types, Holders, Holds, Apart, Goto, Is, Happen, idleVars, At
  <2>3. QED BY <2>1, <2>2 DEF Holders
<1>4. ASSUME NEW i \in Jobs PROVE Known(i)' /\ Spent(i)' /\ Seen(i)'
  <2> USE ModestJobs
  <2>1. Known(i)' BY DEF Types, Known, Holders, Holds, Goto, Is, Happen, idleVars, Registered, InSet, At
  <2>2. Spent(i)' BY DEF Types, Known, Spent, Holders, Holds, Leavers, Goto, Is, Happen, idleVars, Registered, InSet, At
  <2>3. Seen(i)' BY DEF Types, Known, Seen, Spent, Holders, Holds, Leavers, Goto, Is, Happen, idleVars, Registered, InSet, Eligible, Missons, At
  <2>4. QED BY <2>1, <2>2, <2>3
<1>5. QED BY <1>1, <1>2, <1>3, <1>4

\* The steps of a worker that moves no job are those of Aside.
LEMMA ReadPendingMeans ==
  ASSUME NEW w \in Workers, ReadPending(w)
  PROVE  \/ pc' = [pc EXCEPT ![w] = "wait"]
         \/ /\ pc' = [pc EXCEPT ![w] = "missons"]
            /\ \A j \in Jobs : place[j] \notin Registered
<1>1. CASE PendingEventCount > 0 BY <1>1 DEF ReadPending, Goto
<1>2. CASE ~(PendingEventCount > 0)
  <2> DEFINE R == {j \in Jobs : place[j] \in Registered}
             T == {u \in Workers : pc[u] = "triggered"}
  <2>1. IsFiniteSet(R) /\ IsFiniteSet(T) BY IOSchedulerAssumption, FS_Subset
  <2>2. Cardinality(R) \in Nat /\ Cardinality(T) \in Nat BY <2>1, FS_CardinalityType
  <2>3. Cardinality(R) + Cardinality(T) = PendingEventCount BY DEF PendingEventCount
  <2>4. Cardinality(R) = 0 BY <1>2, <2>2, <2>3
  <2>5. R = {} BY <2>1, <2>4, FS_EmptySet
  <2>6. QED BY <1>2, <2>5 DEF ReadPending, Goto
<1>3. QED BY <1>1, <1>2

LEMMA StepInv == Modest /\ Inv /\ [Next]_vars => Inv'
<1> SUFFICES ASSUME Modest, Inv, [Next]_vars PROVE Inv' OBVIOUS
<1> USE DEF idleVars, pipeVars, ownerVars
<1>1. CASE UNCHANGED vars
  BY <1>1, Aside DEF vars
<1>2. CASE \E j \in Jobs : Submit(j) \/ Happen(j) \/ \E w \in Workers : Spawn(w, j)
  BY <1>2, SubmitInv, HappenInv, SpawnInv
<1>3. CASE Stop \/ StopTickle \/ Join
  BY <1>3, Aside DEF Stop, StopTickle, Join
<1>4. CASE \E t \in Workers \cup {Owner} : Tickle(t)
  BY <1>4, Aside DEF Tickle
<1>5. ASSUME NEW w \in Workers, Worker(w) PROVE Inv'
  <2>1. CASE \E j \in Jobs : Take(w, j) \/ Trigger(w, j)
    BY <2>1, TakeInv, TriggerInv
  <2>2. CASE \E p \in {"over", "ready", "event", "timer"} : Slice(w, p)
    BY <2>2, SliceInv
  <2>3. CASE TakeNothing(w) \/ Leave(w) \/ Requeue(w) \/ ReadMissons(w) \/ EpollWait(w)
              \/ ListExpired(w) \/ ScheduleCbs(w)
    BY <2>3, TakeNothingInv, LeaveInv, RequeueInv, ReadMissonsInv, EpollWaitInv,
       ListExpiredInv, ScheduleCbsInv
  <2> USE DEF Is, Pcs, InIdle, Reading, Active
  <2>4. CASE EnterIdle(w)
    BY <2>4, AsideGoto DEF EnterIdle, Inv, Leavers
  <2>5. CASE ReadTimers(w)
    <3>1. CASE Timers = {} BY <2>5, <3>1, AsideGoto DEF ReadTimers, Inv, Leavers
    <3>2. CASE Timers # {} BY <2>5, <3>2, AsideGoto DEF ReadTimers, Inv, Leavers
    <3>3. QED BY <3>1, <3>2
  <2>6. CASE ReadPending(w)
    <3>1. w \notin idleTerm BY <2>6 DEF ReadPending, Inv, Leavers
    <3>2. pc[w] = "pending" /\ UNCHANGED <<place, waits, job, hand, snap, idleTerm, main, stopping>>
      BY <2>6 DEF ReadPending
    <3>3. QED BY <2>6, <3>1, <3>2, ReadPendingMeans, Aside
  <2>7. CASE DrainPipe(w) BY <2>7, Aside DEF DrainPipe
  <2>8. CASE CountDown(w) BY <2>8, AsideGoto DEF CountDown, Inv, Leavers
  <2>9. CASE SwapOut(w) BY <2>9, AsideGoto DEF SwapOut, Inv, Leavers
  <2>10. CASE LeaveIdle(w) BY <2>10, AsideGoto DEF LeaveIdle
  <2>11. QED
    BY <1>5, <2>1, <2>2, <2>3, <2>4, <2>5, <2>6, <2>7, <2>8, <2>9, <2>10 DEF Worker
<1>6. CASE main = "stopped" /\ UNCHANGED vars BY <1>6, <1>1
<1>7. QED BY <1>1, <1>2, <1>3, <1>4, <1>5, <1>6 DEF Next

LEMMA NobodyLeft == Inv => NothingLeft
<1> SUFFICES ASSUME Inv, main = "stopped", NEW j \in Jobs
             PROVE  place[j] \in {"new", "over"}
  BY DEF NothingLeft
<1>1. \A w \in Workers : pc[w] = "done" /\ w \in idleTerm BY DEF Inv, Leavers
<1>2. place[j] \notin {"run", "ready", "hand", "list"} \cup InSet \cup Registered
  BY <1>1 DEF Inv, Known, Seen, Holders, Holds
<1>3. QED BY <1>2 DEF Inv, Types, Places

LEMMA SpecInv == Modest => (Spec => []Inv)
<1> SUFFICES ASSUME Modest PROVE Spec => []Inv OBVIOUS
<1>1. Init => Inv BY InitInv
<1>2. Inv /\ [Next]_vars => Inv' BY StepInv
<1>3. QED BY <1>1, <1>2, PTL DEF Spec

\* If jobs wait once and spawn only jobs that do not wait, stop() leaves nothing
\* in the timers, the events or the list (ioScheduler.cpp:399-403,
\* scheduler.cpp:72-114), for any number of workers and jobs.
THEOREM StopLeavesNothing == Modest => (Spec => []NothingLeft)
<1> SUFFICES ASSUME Modest PROVE Spec => []NothingLeft OBVIOUS
<1>1. Spec => []Inv BY SpecInv
<1>2. QED BY <1>1, NobodyLeft, PTL

-----------------------------------------------------------------------------
(* The IO scheduler implements TaskPool.  The stage of a job follows from  *)
(* its place, since a worker runs exactly the jobs that are at "run".      *)

StageOf(p) == IF p \in {"new", "over"} THEN p ELSE IF p = "run" THEN "running" ELSE "ready"

Runs(w) == IF pc[w] = "run" THEN job[w] ELSE NoJob

Stages  == [j \in Jobs |-> StageOf(place[j])]
Slices  == [w \in Workers |-> Runs(w)]
Stopped == main = "stopped"

LEMMA StageIs == Inv => \A j \in Jobs : JobState(j) = StageOf(place[j])
<1> SUFFICES ASSUME Inv, NEW j \in Jobs PROVE JobState(j) = StageOf(place[j]) OBVIOUS
<1>1. place[j] = "run" <=> \E w \in Workers : pc[w] = "run" /\ job[w] = j
  BY DEF Inv, Known, Holders, Holds
<1>2. CASE place[j] = "run" BY <1>1, <1>2 DEF JobState, StageOf
<1>3. CASE place[j] \in {"new", "over"} BY <1>1, <1>3 DEF JobState, StageOf
<1>4. CASE place[j] \notin {"new", "over", "run"} BY <1>1, <1>4 DEF JobState, StageOf
<1>5. QED BY <1>2, <1>3, <1>4

\* The variables of TaskPool are these.
PoolSeen ==
  /\ [j \in Jobs |-> JobState(j)] = Stages
  /\ [w \in Workers |-> IF pc[w] = "run" THEN job[w] ELSE NoJob] = Slices
  /\ (main = "stopped") = Stopped

LEMMA PoolIsSeen == Inv => PoolSeen
BY StageIs DEF PoolSeen, Stages, Slices, Stopped, Runs

LEMMA PoolIsSeenNext == (Inv => PoolSeen)'
BY PoolIsSeen, PTL

LEMMA PoolVars ==
  ASSUME Inv, Inv'
  PROVE  /\ [j \in Jobs |-> JobState(j)] = Stages
         /\ [j \in Jobs |-> JobState(j)]' = Stages'
         /\ [w \in Workers |-> IF pc[w] = "run" THEN job[w] ELSE NoJob] = Slices
         /\ [w \in Workers |-> IF pc[w] = "run" THEN job[w] ELSE NoJob]' = Slices'
         /\ (main = "stopped") = Stopped
         /\ (main = "stopped")' = Stopped'
BY PoolIsSeen, PoolIsSeenNext DEF PoolSeen

\* Jobs go from one waiting place to another; no slice begins or ends.
LEMMA StutterStep ==
  ASSUME Inv, Inv', Stopped' = Stopped,
         \A j \in Jobs : StageOf(place'[j]) = StageOf(place[j]),
         \A w \in Workers : Runs(w)' = Runs(w)
  PROVE  UNCHANGED Pools!poolVars
<1>1. Stages' = Stages /\ Slices' = Slices BY DEF Stages, Slices
<1>2. QED BY <1>1, PoolVars DEF Pools!poolVars

LEMMA AcceptStep ==
  ASSUME Inv, Inv', NEW t, NEW j \in Jobs, place[j] = "new", Schedule(t, {j}),
         ~Stopped, Stopped' = Stopped, UNCHANGED <<pc, job>>
  PROVE  Pools!Accept(j)
<1>1. Stages[j] = "new" /\ Stages' = [Stages EXCEPT ![j] = "ready"]
  BY DEF Stages, StageOf, Schedule
<1>2. Slices' = Slices BY DEF Slices, Runs
<1>3. QED BY <1>1, <1>2, PoolVars DEF Pools!Accept

LEMMA TakePool ==
  ASSUME Inv, Inv', NEW w \in Workers, NEW j \in Jobs, Take(w, j)
  PROVE  Pools!Begin(w, j)
<1>1. /\ pc[w] = "take" /\ place[j] = "list"
      /\ place' = [place EXCEPT ![j] = "run"] /\ job' = [job EXCEPT ![w] = j]
      /\ pc' = [pc EXCEPT ![w] = "run"] /\ Stopped' = Stopped
  BY DEF Take, Is, Missons, At, Goto, ownerVars, Stopped
<1>2. Stages[j] = "ready" /\ Stages' = [Stages EXCEPT ![j] = "running"]
  BY <1>1 DEF Inv, Types, Stages, StageOf
<1>3. Slices[w] = NoJob /\ Slices' = [Slices EXCEPT ![w] = j]
  BY <1>1 DEF Inv, Types, Slices, Runs
<1>4. QED BY <1>1, <1>2, <1>3, PoolVars DEF Pools!Begin

LEMMA SlicePool ==
  ASSUME Inv, Inv', NEW w \in Workers, NEW p \in {"over", "ready", "event", "timer"},
         Slice(w, p)
  PROVE  \E s \in {"ready", "over"} : Pools!End(w, s)
<1> DEFINE s == IF p = "over" THEN "over" ELSE "ready"
<1>1. PICK j \in Jobs : j = job[w] /\ pc[w] = "run" /\ place[j] = "run"
  BY DEF Slice, Is, Inv, Holders, Holds
<1>2. /\ place' = [place EXCEPT ![j] = p] /\ job' = job
      /\ pc' = [pc EXCEPT ![w] = "leave"] /\ Stopped' = Stopped
  BY <1>1 DEF Slice, Goto, ownerVars, Stopped
<1>3. Stages' = [Stages EXCEPT ![j] = s]
  BY <1>1, <1>2 DEF Inv, Types, Stages, StageOf
<1>4. Slices[w] = j /\ Slices' = [Slices EXCEPT ![w] = NoJob] /\ j # NoJob
  BY <1>1, <1>2, IOSchedulerAssumption DEF Inv, Types, Slices, Runs
<1>5. Pools!End(w, s) BY <1>2, <1>3, <1>4, PoolVars DEF Pools!End
<1>6. QED BY <1>5

LEMMA JoinPool ==
  ASSUME Inv, Inv', NothingLeft', Join
  PROVE  Pools!StopReturn
<1>1. ~Stopped /\ Stopped' /\ UNCHANGED <<place, pc, job>>
  BY DEF Join, Stopped
<1>2. \A j \in Jobs : Stages[j] \in {"new", "over"}
  BY <1>1 DEF NothingLeft, Stopped, Stages, StageOf
<1>3. Stages' = Stages /\ Slices' = Slices BY <1>1 DEF Stages, Slices, Runs
<1>4. QED BY <1>1, <1>2, <1>3, PoolVars DEF Pools!StopReturn, Stopped

\* Steps of a worker that is not in a job.
LEMMA QuietPool ==
  ASSUME Inv, Inv', NEW w \in Workers,
         \/ TakeNothing(w) \/ Leave(w) \/ Requeue(w) \/ \E j \in Jobs : Trigger(w, j)
         \/ EnterIdle(w) \/ ReadTimers(w) \/ ReadPending(w) \/ ReadMissons(w)
         \/ EpollWait(w) \/ ListExpired(w) \/ ScheduleCbs(w) \/ DrainPipe(w)
         \/ CountDown(w) \/ SwapOut(w) \/ LeaveIdle(w)
  PROVE  UNCHANGED Pools!poolVars
<1>1. /\ pc[w] # "run" /\ pc'[w] # "run"
      /\ \A v \in Workers : v # w => pc'[v] = pc[v] /\ job'[v] = job[v]
  BY DEF TakeNothing, Leave, Requeue, Trigger, EnterIdle, ReadTimers, ReadPending,
         ReadMissons, EpollWait, ListExpired, ScheduleCbs, DrainPipe, CountDown,
         SwapOut, LeaveIdle, Is, Goto, Inv, Types, idleVars
<1>2. \A v \in Workers : Runs(v)' = Runs(v) BY <1>1 DEF Runs
<1>3. Stopped' = Stopped
  BY DEF TakeNothing, Leave, Requeue, Trigger, EnterIdle, ReadTimers, ReadPending,
         ReadMissons, EpollWait, ListExpired, ScheduleCbs, DrainPipe, CountDown,
         SwapOut, LeaveIdle, ownerVars, Stopped
<1>4. \A j \in Jobs : StageOf(place'[j]) = StageOf(place[j])
  <2>1. CASE UNCHANGED place BY <2>1
  <2>2. CASE Requeue(w)
    BY <2>2 DEF Requeue, Is, Schedule, Inv, Holders, Holds, StageOf
  <2>3. CASE \E j \in Jobs : Trigger(w, j)
    BY <2>3 DEF Trigger, Schedule, Inv, Holders, Holds, StageOf
  <2>4. CASE EpollWait(w) BY <2>4 DEF EpollWait, StageOf
  <2>5. CASE ListExpired(w) BY <2>5 DEF ListExpired, StageOf
  <2>6. CASE ScheduleCbs(w)
    BY <2>6 DEF ScheduleCbs, Schedule, Inv, Holders, Holds, StageOf
  <2>7. QED
    BY <2>1, <2>2, <2>3, <2>4, <2>5, <2>6
    DEF TakeNothing, Leave, EnterIdle, ReadTimers, ReadPending, ReadMissons,
        DrainPipe, CountDown, SwapOut, LeaveIdle
<1>5. QED BY <1>2, <1>3, <1>4, StutterStep

LEMMA StepPool ==
  ASSUME Inv, Inv', NothingLeft', [Next]_vars
  PROVE  [Pools!PoolNext]_(Pools!poolVars)
<1>1. ASSUME UNCHANGED <<place, pc, job, main>> PROVE UNCHANGED Pools!poolVars
  BY <1>1, StutterStep DEF Stopped, Runs
<1>2. CASE UNCHANGED vars BY <1>1, <1>2 DEF vars, ownerVars
<1>3. ASSUME NEW j \in Jobs, Submit(j) \/ \E w \in Workers : Spawn(w, j)
      PROVE  Pools!PoolNext
  <2>1. PICK t : Schedule(t, {j}) BY <1>3 DEF Submit, Spawn
  <2>2. place[j] = "new" /\ UNCHANGED <<pc, job, main>>
    BY <1>3 DEF Submit, Spawn, ownerVars
  <2>3. main # "stopped" BY <1>3 DEF Submit, Spawn, Is, Inv, Leavers
  <2>4. Pools!Accept(j) BY <2>1, <2>2, <2>3, AcceptStep DEF Stopped
  <2>5. QED BY <2>4 DEF Pools!PoolNext
<1>4. ASSUME NEW j \in Jobs, Happen(j) PROVE UNCHANGED Pools!poolVars
  <2>1. \A i \in Jobs : StageOf(place'[i]) = StageOf(place[i])
    BY <1>4 DEF Happen, Inv, Types, StageOf
  <2>2. UNCHANGED <<pc, job, main>> BY <1>4 DEF Happen, ownerVars
  <2>3. QED BY <2>1, <2>2, StutterStep DEF Runs, Stopped
<1>5. CASE Stop
  <2>1. Stopped' = Stopped /\ UNCHANGED <<place, pc, job>> BY <1>5 DEF Stop, Stopped
  <2>2. QED BY <2>1, StutterStep DEF Runs
<1>6. CASE StopTickle \/ \E t \in Workers \cup {Owner} : Tickle(t)
  BY <1>1, <1>6 DEF StopTickle, Tickle, ownerVars
<1>7. CASE Join BY <1>7, JoinPool DEF Pools!PoolNext
<1>8. ASSUME NEW w \in Workers, Worker(w) PROVE [Pools!PoolNext]_(Pools!poolVars)
  <2>1. CASE \E j \in Jobs : Take(w, j) BY <2>1, TakePool DEF Pools!PoolNext
  <2>2. CASE \E p \in {"over", "ready", "event", "timer"} : Slice(w, p)
    BY <2>2, SlicePool DEF Pools!PoolNext
  <2>3. QED BY <1>8, <2>1, <2>2, QuietPool DEF Worker
<1>9. QED BY <1>2, <1>3, <1>4, <1>5, <1>6, <1>7, <1>8 DEF Next

\* Every execution of the IO scheduler with such jobs, its timers, events and
\* the tickle pipe included, is one of TaskPool: a job that waits is suspended,
\* goes on in slices by one worker at a time, and stop() waits for it.
THEOREM RefinesTaskPool == Modest => (Spec => ImplementsTaskPool)
<1> SUFFICES ASSUME Modest PROVE Spec => ImplementsTaskPool OBVIOUS
<1>1. Spec => []Inv BY SpecInv
<1>2. Inv => NothingLeft BY NobodyLeft
<1>3. Spec => [](Inv /\ NothingLeft) BY <1>1, <1>2, PTL
<1>4. Inv /\ NothingLeft /\ (Inv /\ NothingLeft)' /\ [Next]_vars
      => [Pools!PoolNext]_(Pools!poolVars)
  BY StepPool
<1>5. Init => Pools!PoolInit
  <2> SUFFICES ASSUME Init PROVE Pools!PoolInit OBVIOUS
  <2>1. PoolSeen BY InitInv, PoolIsSeen
  <2>2. Stages = [j \in Jobs |-> "new"] /\ Slices = [w \in Workers |-> NoJob] /\ ~Stopped
    BY DEF Init, Stages, StageOf, Slices, Runs, Stopped
  <2>3. QED BY <2>1, <2>2 DEF PoolSeen, Pools!PoolInit, Stopped
<1>6. QED BY <1>3, <1>4, <1>5, PTL DEF Spec, ImplementsTaskPool, Pools!PoolSpec
=============================================================================
