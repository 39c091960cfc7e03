-------------------------- MODULE SchedulerProofs --------------------------
(***************************************************************************)
(* Proofs about Scheduler for every number of threads, fibers and jobs.    *)
(* First who holds which fiber: the types, the exactness of the two thread *)
(* counters, and the hand-over of fibers between workers (Safe).  On top   *)
(* of that, what becomes of the jobs: a job is in one place from           *)
(* schedule() to its end, a suspended fiber has one waker, stop() leaves   *)
(* nothing behind, and with that the scheduler implements TaskPool.        *)
(***************************************************************************)
EXTENDS Scheduler, FiniteSetTheorems, SequenceTheorems, TLAPS

\* Where a worker is determines which of its local variables are set, and
\* which stack it is on; threads do not run before start() / call().
Shape ==
  /\ main = "new" => \A t \in Threads : pc[t] = "off"
  /\ main \in {"new", "running", "early", "stopping", "root"} =>
       \A t \in Threads : t = Root => pc[t] = "off"
  /\ \A t \in Threads :
       /\ pc[t] \in {"enter", "run", "registered", "leave", "back"} =>
            Current(t) # NoFiber
       /\ pc[t] = "recycle" => cbFiber[t] # NoFiber
       /\ pc[t] \in {"run", "registered", "leave"} /\ fault = "none" =>
            stack[t] = Current(t)

Inv == TypeOK /\ ActiveCount /\ Shape

-----------------------------------------------------------------------------
\* Taking one entry out of the mission list leaves a list of missions.
LEMMA RemoveAtType ==
  ASSUME NEW S, NEW s \in Seq(S), NEW i \in DOMAIN s
  PROVE  RemoveAt(s, i) \in Seq(S)
<1>1. i \in 1..Len(s) OBVIOUS
<1>2. SubSeq(s, 1, i - 1) \in Seq(S) BY <1>1, SubSeqProperties
<1>3. SubSeq(s, i + 1, Len(s)) \in Seq(S) BY <1>1, SubSeqProperties
<1>4. QED BY <1>2, <1>3, ConcatProperties DEF RemoveAt

\* The threads at the labels of A, for labels p.
Where(p, A) == {u \in Threads : p[u] \in A}
Idling == {"idle"}

\* Labels q are labels p with thread t at l.
Moved(p, t, l, q) == q = [p EXCEPT ![t] = l]

\* Moving one thread to another label changes the number of threads at the
\* labels of A by the membership of the two labels.
LEMMA Move ==
  ASSUME NEW p \in [Threads -> WorkerPcs], NEW t \in Threads, NEW l, NEW A,
         NEW q, Moved(p, t, l, q)
  PROVE  /\ Cardinality(Where(p, A)) \in Nat
         /\ (p[t] \in A <=> l \in A) =>
              Cardinality(Where(q, A)) =
                Cardinality(Where(p, A))
         /\ p[t] \notin A /\ l \in A =>
              Cardinality(Where(q, A)) =
                Cardinality(Where(p, A)) + 1
         /\ p[t] \in A /\ l \notin A =>
              /\ Cardinality(Where(p, A)) > 0
              /\ Cardinality(Where(q, A)) =
                   Cardinality(Where(p, A)) - 1
<1> DEFINE X == Where(p, A)
           Y == Where(q, A)
<1>1. IsFiniteSet(X) /\ Cardinality(X) \in Nat
  BY SchedulerAssumption, FS_Subset, FS_CardinalityType DEF Where
<1>2. (p[t] \in A <=> l \in A) => X = Y BY DEF Where, Moved
<1>3. p[t] \notin A /\ l \in A => Y = X \cup {t} /\ t \notin X
  BY DEF Where, Moved
<1>4. p[t] \in A /\ l \notin A => Y = X \ {t} /\ t \in X
  BY DEF Where, Moved
<1>5. p[t] \notin A /\ l \in A => Cardinality(Y) = Cardinality(X) + 1
  BY <1>1, <1>3, FS_AddElement
<1>6. p[t] \in A /\ l \notin A => Cardinality(Y) = Cardinality(X) - 1
  BY <1>1, <1>4, FS_RemoveElement
<1>7. p[t] \in A /\ l \notin A => Cardinality(X) > 0
  BY <1>1, <1>4, FS_EmptySet
<1>8. QED BY <1>1, <1>2, <1>5, <1>6, <1>7

\* A counter that is adjusted by the labels a thread leaves and reaches stays
\* exact.
LEMMA Count ==
  ASSUME NEW p \in [Threads -> WorkerPcs], NEW t \in Threads, NEW l, NEW A,
         NEW q, Moved(p, t, l, q),
         NEW n, n = Cardinality(Where(p, A)),
         NEW m, m = IF p[t] \notin A /\ l \in A THEN n + 1
                    ELSE IF p[t] \in A /\ l \notin A THEN n - 1 ELSE n
  PROVE  m \in Nat /\ m = Cardinality(Where(q, A))
<1>1. CASE p[t] \in A <=> l \in A BY <1>1, Move
<1>2. CASE p[t] \notin A /\ l \in A BY <1>2, Move
<1>3. CASE p[t] \in A /\ l \notin A BY <1>3, Move
<1>4. QED BY <1>1, <1>2, <1>3

\* A step that moves worker t to label l and adjusts the two counters by the
\* labels it leaves and reaches keeps both counters exact.
LEMMA Counts ==
  ASSUME TypeOK, ActiveCount, NEW t \in Threads, NEW l \in WorkerPcs,
         Goto(t, l),
         active' = IF pc[t] \notin Busy /\ l \in Busy THEN active + 1
                   ELSE IF pc[t] \in Busy /\ l \notin Busy THEN active - 1
                   ELSE active,
         idleCount' = IF pc[t] # "idle" /\ l = "idle" THEN idleCount + 1
                      ELSE IF pc[t] = "idle" /\ l # "idle" THEN idleCount - 1
                      ELSE idleCount
  PROVE  /\ ActiveCount'
         /\ active' \in Nat /\ idleCount' \in Nat
         /\ pc' \in [Threads -> WorkerPcs]
<1>1. /\ pc \in [Threads -> WorkerPcs] /\ Moved(pc, t, l, pc')
      /\ active = Cardinality(Where(pc, Busy))
      /\ idleCount = Cardinality(Where(pc, Idling))
  BY DEF TypeOK, Goto, ActiveCount, Idling, Where, Moved
<1>2. /\ active' \in Nat
      /\ active' = Cardinality(Where(pc', Busy))
  BY <1>1, Count
<1>3. idleCount' = IF pc[t] \notin Idling /\ l \in Idling THEN idleCount + 1
                   ELSE IF pc[t] \in Idling /\ l \notin Idling THEN idleCount - 1
                   ELSE idleCount
  BY DEF Idling
<1>4. /\ idleCount' \in Nat
      /\ idleCount' = Cardinality(Where(pc', Idling))
  BY <1>1, <1>3, Count
<1>5. pc' \in [Threads -> WorkerPcs] BY <1>1 DEF Moved
<1>6. QED BY <1>2, <1>4, <1>5 DEF ActiveCount, Idling, Where

-----------------------------------------------------------------------------
\* Initially no thread is anywhere in run().
LEMMA InitInv == Init => Inv
<1> SUFFICES ASSUME Init PROVE Inv OBVIOUS
<1>1. TypeOK
  <2>1. FiberTypeOK BY DEF Init, FiberInit, FiberTypeOK, States
  <2>2. /\ NoMisson \in Misson
        /\ missons \in Seq(Misson)
        /\ mission \in [Threads -> Misson]
    BY DEF Init, Misson, NoMisson
  <2>3. budget \in [Jobs -> 0..MaxYields]
    BY SchedulerAssumption DEF Init
  <2>4. QED BY <2>1, <2>2, <2>3 DEF Init, TypeOK, WorkerPcs, MainPcs
<1>2. Where(pc, Busy) = {} /\ Where(pc, Idling) = {}
  BY DEF Init, Where, Busy, Idling
<1>3. ActiveCount
  BY <1>2, FS_EmptySet DEF Init, ActiveCount, Where, Idling
<1>4. Shape BY DEF Init, Shape
<1>5. QED BY <1>1, <1>3, <1>4 DEF Inv

\* The operations of Fiber keep its types; only SwapIn and SwapOut change the
\* stack a thread is on.
LEMMA ResetOps ==
  ASSUME FiberTypeOK, NEW f \in Fibers, NEW j \in Jobs \cup {NoJob},
         Construct(f, j) \/ Reset(f, j)
  PROVE  FiberTypeOK' /\ stack' = stack
BY DEF FiberTypeOK, States, Construct, Reset, Abort, Clobber

LEMMA SwapInOps ==
  ASSUME FiberTypeOK, NEW t \in Threads, NEW f \in Fibers, SwapIn(t, f)
  PROVE  /\ FiberTypeOK'
         /\ fault' = "none" => stack' = [stack EXCEPT ![t] = f]
         /\ \A u \in Threads : u # t => stack'[u] = stack[u]
BY DEF FiberTypeOK, States, SwapIn, Abort, Clobber

LEMMA YieldOps ==
  ASSUME FiberTypeOK, NEW t \in Threads, NEW s \in States, Yield(t, s)
  PROVE  FiberTypeOK' /\ stack' = stack
BY DEF FiberTypeOK, States, Yield, Abort

LEMMA EndOps ==
  ASSUME FiberTypeOK, NEW t \in Threads, Return(t) \/ Throw(t)
  PROVE  FiberTypeOK' /\ stack' = stack /\ fault' = fault
BY DEF FiberTypeOK, States, Return, Throw

LEMMA SwapOutOps ==
  ASSUME FiberTypeOK, NEW t \in Threads, SwapOut(t)
  PROVE  /\ FiberTypeOK' /\ fault' = fault
         /\ \A u \in Threads : u # t => stack'[u] = stack[u]
BY DEF FiberTypeOK, SwapOut

\* Appending a mission to the list keeps its type.
LEMMA ScheduleType ==
  ASSUME missons \in Seq(Misson), NEW m \in Misson, Schedule(m)
  PROVE  missons' \in Seq(Misson)
BY DEF Schedule

\* The owner's thread: it moves no worker, except that it starts them.
LEMMA OwnerInv == Inv /\ Owner => Inv'
<1> SUFFICES ASSUME Inv, Owner PROVE Inv' OBVIOUS
<1> USE DEF Inv, OwnerAt
<1>1. CASE Start
  <2>1. /\ Where(pc, Busy) = {} /\ Where(pc, Idling) = {}
        /\ Where(pc', Busy) = {} /\ Where(pc', Idling) = {}
    BY <1>1 DEF Start, Shape, Where, Busy, Idling, TypeOK
  <2>2. ActiveCount'
    BY <1>1, <2>1 DEF Start, ActiveCount, Where, Idling
  <2>3. TypeOK'
    BY <1>1 DEF Start, TypeOK, FiberTypeOK, fiberVars, runVars, jobVars,
                WorkerPcs, MainPcs
  <2>4. Shape'
    BY <1>1 DEF Start, Shape, Pool, fiberVars, runVars, Current, TypeOK
  <2>5. QED BY <2>2, <2>3, <2>4
<1>2. CASE Stop \/ SetStopping \/ RootBack \/ Join
  <2>1. TypeOK'
    BY <1>2 DEF Stop, SetStopping, AfterStopping, RootBack, Join, TypeOK,
                FiberTypeOK, fiberVars, runVars, jobVars, MainPcs
  <2>2. ActiveCount'
    BY <1>2 DEF Stop, SetStopping, AfterStopping, RootBack, Join, ActiveCount
  <2>3. Shape'
    BY <1>2 DEF Stop, SetStopping, AfterStopping, RootBack, Join, Shape,
                fiberVars, runVars, Current
  <2>4. QED BY <2>1, <2>2, <2>3
<1>3. CASE CallRoot /\ CanStopNow
  <2>1. TypeOK'
    BY <1>3 DEF CallRoot, TypeOK, FiberTypeOK, fiberVars, runVars, jobVars, MainPcs
  <2>2. ActiveCount' BY <1>3 DEF CallRoot, ActiveCount
  <2>3. Shape' BY <1>3 DEF CallRoot, Shape, fiberVars, runVars, Current
  <2>4. QED BY <2>1, <2>2, <2>3
<1>4. CASE CallRoot /\ ~CanStopNow /\ Root \in Threads
  <2>1. Goto(Root, "take") /\ pc[Root] = "off" /\ UNCHANGED <<active, idleCount>>
    BY <1>4 DEF CallRoot, Shape
  <2>2. ActiveCount' /\ pc' \in [Threads -> WorkerPcs]
    BY <1>4, <2>1, Counts DEF Busy, WorkerPcs
  <2>3. TypeOK'
    BY <1>4, <2>2 DEF CallRoot, TypeOK, FiberTypeOK, fiberVars, runVars, jobVars,
                      MainPcs
  <2>4. Shape'
    BY <1>4, <2>1 DEF CallRoot, Shape, Goto, TypeOK, fiberVars, runVars, Current
  <2>5. QED BY <2>2, <2>3, <2>4
<1>5. CASE CallRoot /\ ~CanStopNow /\ Root \notin Threads
  <2>1. pc' = pc BY <1>5 DEF CallRoot, Goto, TypeOK
  <2>2. TypeOK'
    BY <1>5, <2>1 DEF CallRoot, TypeOK, FiberTypeOK, fiberVars, runVars, jobVars,
                      MainPcs
  <2>3. ActiveCount' BY <1>5, <2>1 DEF CallRoot, ActiveCount
  <2>4. Shape' BY <1>5, <2>1 DEF CallRoot, Shape, fiberVars, runVars, Current
  <2>5. QED BY <2>2, <2>3, <2>4
<1>6. QED BY <1>1, <1>2, <1>3, <1>4, <1>5 DEF Owner

\* Spending one suspension of a job's budget keeps the budget's type.
LEMMA BudgetType ==
  ASSUME TypeOK, NEW t \in Threads, CanSuspend(t),
         budget' = [budget EXCEPT ![Running(t)] = @ - 1]
  PROVE  budget' \in [Jobs -> 0..MaxYields]
<1>1. CASE Running(t) \in Jobs
  BY <1>1, SchedulerAssumption DEF TypeOK, CanSuspend
<1>2. CASE Running(t) \notin Jobs
  BY <1>2 DEF TypeOK
<1>3. QED BY <1>1, <1>2

-----------------------------------------------------------------------------
\* One worker's step through run().
LEMMA WorkerInv ==
  ASSUME Inv, NEW t \in Threads, Worker(t)
  PROVE  Inv'
<1> USE DEF Inv, At
<1>1. CASE Take(t)
  <2>1. PICK i \in DOMAIN missons :
          /\ mission' = [mission EXCEPT ![t] = missons[i]]
          /\ missons' = RemoveAt(missons, i)
    BY <1>1 DEF Take
  <2>2. missons[i] \in Misson /\ missons' \in Seq(Misson)
    BY <2>1, RemoveAtType DEF TypeOK
  <2>3. /\ ActiveCount' /\ active' \in Nat /\ idleCount' \in Nat
        /\ pc' \in [Threads -> WorkerPcs]
    BY <1>1, Counts DEF Take, Busy, WorkerPcs
  <2>4. TypeOK'
    BY <1>1, <2>1, <2>2, <2>3 DEF Take, TypeOK, FiberTypeOK, fiberVars, stopVars, jobVars
  <2>5. Shape'
    BY <1>1, <2>1 DEF Take, Shape, TypeOK, Goto, Current, stopVars, fiberVars
  <2>6. QED BY <2>3, <2>4, <2>5
<1>2. CASE TakeNothing(t)
  <2>1. /\ ActiveCount' /\ active' \in Nat /\ idleCount' \in Nat
        /\ pc' \in [Threads -> WorkerPcs]
    BY <1>2, Counts DEF TakeNothing, Busy, WorkerPcs
  <2>2. TypeOK'
    BY <1>2, <2>1 DEF TakeNothing, TypeOK, FiberTypeOK, fiberVars, runVars, stopVars, jobVars, Misson, NoMisson
  <2>3. Shape'
    BY <1>2 DEF TakeNothing, Shape, TypeOK, Goto, Current, fiberVars, runVars, stopVars
  <2>4. QED BY <2>1, <2>2, <2>3
<1>3. CASE Idle(t)
  <2>1. /\ ActiveCount' /\ active' \in Nat /\ idleCount' \in Nat
        /\ pc' \in [Threads -> WorkerPcs]
    BY <1>3, Counts DEF Idle, Busy, WorkerPcs
  <2>2. TypeOK'
    BY <1>3, <2>1 DEF Idle, TypeOK, FiberTypeOK, fiberVars, runVars, stopVars, jobVars, Misson, NoMisson, CanStopNow
  <2>3. Shape'
    BY <1>3 DEF Idle, Shape, TypeOK, Goto, Current, fiberVars, stopVars
  <2>4. QED BY <2>1, <2>2, <2>3
<1>4. CASE Drop(t)
  <2>1. /\ ActiveCount' /\ active' \in Nat /\ idleCount' \in Nat
        /\ pc' \in [Threads -> WorkerPcs]
    BY <1>4, Counts DEF Drop, Busy, WorkerPcs
  <2>2. TypeOK'
    BY <1>4, <2>1 DEF Drop, TypeOK, FiberTypeOK, fiberVars, runVars, stopVars, jobVars, Misson, NoMisson
  <2>3. Shape'
    BY <1>4 DEF Drop, Shape, TypeOK, Goto, Current, fiberVars, stopVars, NoMisson
  <2>4. QED BY <2>1, <2>2, <2>3
<1>5. CASE DispatchFiber(t)
  <2>1. /\ ActiveCount' /\ active' \in Nat /\ idleCount' \in Nat
        /\ pc' \in [Threads -> WorkerPcs]
    BY <1>5, Counts DEF DispatchFiber, Busy, WorkerPcs
  <2>2. TypeOK'
    BY <1>5, <2>1 DEF DispatchFiber, TypeOK, FiberTypeOK, fiberVars, runVars, stopVars, jobVars, Misson, NoMisson
  <2>3. Shape'
    BY <1>5 DEF DispatchFiber, Shape, TypeOK, Goto, Current, fiberVars, runVars, stopVars
  <2>4. QED BY <2>1, <2>2, <2>3
<1>6. CASE DispatchCb(t)
  <2>1. /\ ActiveCount' /\ active' \in Nat /\ idleCount' \in Nat
        /\ pc' \in [Threads -> WorkerPcs]
    BY <1>6, Counts DEF DispatchCb, Busy, WorkerPcs
  <2>2. FiberTypeOK' /\ stack' = stack /\ cbFiber'[t] \in Fibers
        /\ cbFiber' = [cbFiber EXCEPT ![t] = cbFiber'[t]]
    <3>1. mission[t].cb \in Jobs \cup {NoJob} BY DEF TypeOK, Misson
    <3>2. CASE cbFiber[t] # NoFiber
      BY <1>6, <3>1, <3>2, ResetOps DEF DispatchCb, TypeOK
    <3>3. CASE cbFiber[t] = NoFiber
      BY <1>6, <3>1, <3>3, ResetOps DEF DispatchCb, TypeOK
    <3>4. QED BY <3>2, <3>3
  <2>3. TypeOK'
    BY <1>6, <2>1, <2>2 DEF DispatchCb, TypeOK, stopVars, jobVars, Misson, NoMisson
  <2>4. Shape'
    BY <1>6, <2>2, NullAssumption DEF DispatchCb, Shape, TypeOK, FiberTypeOK, Goto, Current, NoMisson, stopVars
  <2>5. QED BY <2>1, <2>3, <2>4
<1>7. CASE Enter(t)
  <2>1. Current(t) \in Fibers
    BY <1>7 DEF Enter, Shape, Current, TypeOK, Misson
  <2>2. /\ ActiveCount' /\ active' \in Nat /\ idleCount' \in Nat
        /\ pc' \in [Threads -> WorkerPcs]
    BY <1>7, Counts DEF Enter, Busy, WorkerPcs
  <2>3. /\ FiberTypeOK'
        /\ fault' = "none" => stack' = [stack EXCEPT ![t] = Current(t)]
        /\ \A u \in Threads : u # t => stack'[u] = stack[u]
    BY <1>7, <2>1, SwapInOps DEF Enter, TypeOK
  <2>4. TypeOK'
    BY <1>7, <2>2, <2>3, <2>1 DEF Enter, TypeOK, stopVars, jobVars, runVars
  <2>5. Shape'
    BY <1>7, <2>3, <2>1 DEF Enter, Shape, TypeOK, FiberTypeOK, Goto, Current, stopVars, runVars
  <2>6. QED BY <2>2, <2>4, <2>5
<1>8. CASE Back(t)
  <2>1. /\ ActiveCount' /\ active' \in Nat /\ idleCount' \in Nat
        /\ pc' \in [Threads -> WorkerPcs]
    BY <1>8, Counts DEF Back, Busy, WorkerPcs
  <2>2. /\ FiberTypeOK' /\ fault' = fault
        /\ \A u \in Threads : u # t => stack'[u] = stack[u]
    BY <1>8, SwapOutOps DEF Back, TypeOK, SwapOut, FiberTypeOK
  <2>3. TypeOK'
    BY <1>8, <2>1, <2>2 DEF Back, TypeOK, stopVars, jobVars, runVars
  <2>4. Shape'
    BY <1>8, <2>2 DEF Back, Shape, TypeOK, FiberTypeOK, Goto, Current, stopVars, runVars
  <2>5. QED BY <2>1, <2>3, <2>4
<1>9. CASE Requeue(t)
  <2>1. missons' \in Seq(Misson)
    <3>1. FiberMisson(Current(t)) \in Misson
      BY <1>9 DEF Requeue, Shape, Current, TypeOK, Misson, FiberMisson
    <3>2. QED BY <1>9, <3>1, ScheduleType DEF Requeue, TypeOK
  <2>2. /\ ActiveCount' /\ active' \in Nat /\ idleCount' \in Nat
        /\ pc' \in [Threads -> WorkerPcs]
    BY <1>9, Counts DEF Requeue, Busy, WorkerPcs
  <2>3. TypeOK'
    BY <1>9, <2>2, <2>1 DEF Requeue, TypeOK, FiberTypeOK, fiberVars, runVars, stopVars, jobVars, Misson, NoMisson
  <2>4. Shape'
    BY <1>9 DEF Requeue, Shape, TypeOK, Goto, Current, fiberVars, stopVars, NoMisson
  <2>5. QED BY <2>2, <2>3, <2>4
<1>10. CASE NotReady(t)
  <2>1. /\ ActiveCount' /\ active' \in Nat /\ idleCount' \in Nat
        /\ pc' \in [Threads -> WorkerPcs]
    BY <1>10, Counts DEF NotReady, Busy, WorkerPcs
  <2>2. TypeOK'
    BY <1>10, <2>1 DEF NotReady, TypeOK, FiberTypeOK, fiberVars, runVars, stopVars, jobVars, Misson, NoMisson
  <2>3. Shape'
    BY <1>10 DEF NotReady, Shape, TypeOK, Goto, Current, fiberVars, stopVars, NoMisson
  <2>4. QED BY <2>1, <2>2, <2>3
<1>11. CASE Recycle(t)
  <2>1. cbFiber[t] \in Fibers
    BY <1>11 DEF Recycle, Shape, TypeOK
  <2>2. /\ ActiveCount' /\ active' \in Nat /\ idleCount' \in Nat
        /\ pc' \in [Threads -> WorkerPcs]
    BY <1>11, Counts DEF Recycle, Busy, WorkerPcs
  <2>3. FiberTypeOK' /\ stack' = stack
    BY <1>11, <2>1, ResetOps DEF Recycle, TypeOK, fiberVars, FiberTypeOK
  <2>4. TypeOK'
    BY <1>11, <2>2, <2>3, <2>1 DEF Recycle, TypeOK, stopVars, jobVars
  <2>5. Shape'
    BY <1>11, <2>3, <2>1 DEF Recycle, Shape, TypeOK, FiberTypeOK, Goto, Current, stopVars
  <2>6. QED BY <2>2, <2>4, <2>5
<1>12. CASE YieldToReady(t)
  <2>1. /\ ActiveCount' /\ active' \in Nat /\ idleCount' \in Nat
        /\ pc' \in [Threads -> WorkerPcs]
    BY <1>12, Counts DEF YieldToReady, Busy, WorkerPcs
  <2>2. FiberTypeOK' /\ stack' = stack
    BY <1>12, YieldOps DEF YieldToReady, TypeOK, States, Yield, FiberTypeOK
  <2>3. TypeOK'
    BY <1>12, <2>1, <2>2, BudgetType DEF YieldToReady, TypeOK, stopVars, runVars
  <2>4. Shape'
    BY <1>12, <2>2 DEF YieldToReady, Shape, TypeOK, FiberTypeOK, Goto, Current, stopVars, runVars, Yield, Abort
  <2>5. QED BY <2>1, <2>3, <2>4
<1>13. CASE Register(t)
  <2>1. stack[t] \in Fibers
    BY <1>13 DEF Register, Shape, TypeOK, Current, Misson
  <2>2. /\ ActiveCount' /\ active' \in Nat /\ idleCount' \in Nat
        /\ pc' \in [Threads -> WorkerPcs]
    BY <1>13, Counts DEF Register, Busy, WorkerPcs
  <2>3. TypeOK'
    BY <1>13, <2>2, <2>1, BudgetType DEF Register, TypeOK, FiberTypeOK, fiberVars, runVars, stopVars, jobVars, Misson, NoMisson
  <2>4. Shape'
    BY <1>13 DEF Register, Shape, TypeOK, Goto, Current, fiberVars, runVars, stopVars
  <2>5. QED BY <2>2, <2>3, <2>4
<1>14. CASE YieldToHold(t)
  <2>1. /\ ActiveCount' /\ active' \in Nat /\ idleCount' \in Nat
        /\ pc' \in [Threads -> WorkerPcs]
    BY <1>14, Counts DEF YieldToHold, Busy, WorkerPcs
  <2>2. FiberTypeOK' /\ stack' = stack
    BY <1>14, YieldOps DEF YieldToHold, TypeOK, States, Yield, FiberTypeOK
  <2>3. TypeOK'
    BY <1>14, <2>1, <2>2 DEF YieldToHold, TypeOK, stopVars, runVars, jobVars
  <2>4. Shape'
    BY <1>14, <2>2 DEF YieldToHold, Shape, TypeOK, FiberTypeOK, Goto, Current, stopVars, runVars, Yield, Abort
  <2>5. QED BY <2>1, <2>3, <2>4
<1>15. CASE Finish(t)
  <2>1. stack[t] \in Fibers
    BY <1>15 DEF Finish, Shape, TypeOK, Current, Misson
  <2>2. /\ ActiveCount' /\ active' \in Nat /\ idleCount' \in Nat
        /\ pc' \in [Threads -> WorkerPcs]
    BY <1>15, Counts DEF Finish, Busy, WorkerPcs
  <2>3. FiberTypeOK' /\ stack' = stack /\ fault' = fault
    BY <1>15, <2>1, EndOps DEF Finish, TypeOK, Return, Throw, FiberTypeOK
  <2>4. TypeOK'
    BY <1>15, <2>2, <2>3, <2>1 DEF Finish, TypeOK, stopVars, runVars, Running, FiberTypeOK
  <2>5. Shape'
    BY <1>15, <2>3, <2>1 DEF Finish, Shape, TypeOK, FiberTypeOK, Goto, Current, stopVars, runVars
  <2>6. QED BY <2>2, <2>4, <2>5
<1>16. QED BY <1>1, <1>2, <1>3, <1>4, <1>5, <1>6, <1>7, <1>8, <1>9, <1>10, <1>11, <1>12, <1>13, <1>14, <1>15 DEF Worker

\* Handing a mission to the scheduler: from the owner, a job or an event.
LEMMA ScheduleInv ==
  ASSUME Inv,
         \/ \E j \in Jobs : Submit(j)
         \/ \E t \in Threads, j \in Jobs : Spawn(t, j)
         \/ \E f \in Fibers : Resume(f)
  PROVE  Inv'
<1> USE DEF Inv
<1>1. /\ \A j \in Jobs : CbMisson(j) \in Misson
      /\ \A f \in Fibers : FiberMisson(f) \in Misson
  BY SchedulerAssumption DEF CbMisson, FiberMisson, Misson
<1>2. missons' \in Seq(Misson)
  BY <1>1, ScheduleType DEF Submit, Spawn, Resume, TypeOK
<1>3. UNCHANGED <<fiberVars, active, idleCount, pc, runVars, stopVars, budget>>
  BY DEF Submit, Spawn, Resume
<1>4. waiters' \subseteq Fibers /\ submitted' \subseteq Jobs /\ finished' \subseteq Jobs
  BY DEF Submit, Spawn, Resume, TypeOK
<1>5. TypeOK'
  BY <1>2, <1>3, <1>4 DEF TypeOK, FiberTypeOK, fiberVars, runVars, stopVars
<1>6. ActiveCount' BY <1>3 DEF ActiveCount
<1>7. Shape' BY <1>3 DEF Shape, fiberVars, runVars, stopVars, Current
<1>8. QED BY <1>5, <1>6, <1>7

LEMMA NextInv == Inv /\ [Next]_vars => Inv'
<1> SUFFICES ASSUME Inv, [Next]_vars PROVE Inv' OBVIOUS
<1>1. CASE UNCHANGED vars
  <2>1. UNCHANGED <<missons, active, idleCount, pc, fiberVars, runVars, stopVars,
                    jobVars>>
    BY <1>1 DEF vars
  <2>2. TypeOK'
    BY <2>1 DEF Inv, TypeOK, FiberTypeOK, fiberVars, runVars, stopVars, jobVars
  <2>3. ActiveCount' BY <2>1 DEF Inv, ActiveCount
  <2>4. Shape' BY <2>1 DEF Inv, Shape, fiberVars, runVars, stopVars, Current
  <2>5. QED BY <2>2, <2>3, <2>4 DEF Inv
<1>2. CASE Owner BY <1>2, OwnerInv
<1>3. CASE \E t \in Threads : Worker(t) BY <1>3, WorkerInv
<1>4. CASE \/ \E j \in Jobs : Submit(j)
           \/ \E t \in Threads, j \in Jobs : Spawn(t, j)
           \/ \E f \in Fibers : Resume(f)
  BY <1>4, ScheduleInv
<1>5. QED BY <1>1, <1>2, <1>3, <1>4 DEF Next, Terminated

-----------------------------------------------------------------------------
\* Every reachable state is well typed, and the two thread counters count
\* exactly the workers they are meant to count: canStopNow never decides on a
\* number that is off, however the workers interleave and whatever the jobs do.
THEOREM TypesAndCounters == Spec => [](TypeOK /\ ActiveCount)
<1>1. Spec => []Inv
  BY InitInv, NextInv, PTL DEF Spec
<1>2. Inv => TypeOK /\ ActiveCount BY DEF Inv
<1>3. QED BY <1>1, <1>2, PTL

-----------------------------------------------------------------------------
(* Jobs that never hold.  Every fiber has at most one holder, a worker or a  *)
(* list entry, and the holder knows its state.                               *)

Held(t) == {mission[t].fiber, cbFiber[t]} \ {NoFiber}

\* A list entry is a callback or a READY fiber that nobody else holds.
ListOwned ==
  /\ \A i \in DOMAIN missons :
       LET f == missons[i].fiber IN
         f # NoFiber => fstate[f] = "READY" /\ \A t \in Threads : f \notin Held(t)
  /\ \A i, k \in DOMAIN missons :
       i # k /\ missons[i].fiber # NoFiber => missons[i].fiber # missons[k].fiber

\* No two workers hold the same fiber, and no worker holds one twice.
WorkersOwn ==
  /\ \A t, u \in Threads : t # u => Held(t) \cap Held(u) = {}
  /\ \A t \in Threads : mission[t].fiber # NoFiber => mission[t].fiber # cbFiber[t]

\* What a worker knows of the fibers it holds, at each point of run().
WorkerKnows(t) ==
  /\ pc[t] \in {"off", "take", "idle", "done", "recycle"} => mission[t].fiber = NoFiber
  /\ pc[t] \in {"dispatch", "enter"} /\ mission[t].fiber # NoFiber =>
       fstate[mission[t].fiber] = "READY"
  /\ \/ cbFiber[t] = NoFiber
     \/ fstate[cbFiber[t]] = "INIT"
     \/ mission[t].fiber = NoFiber /\ pc[t] \in {"run", "leave", "back", "recycle"}
  /\ pc[t] = "run" => fstate[Current(t)] = "EXEC"
  /\ pc[t] \in {"leave", "back"} => fstate[Current(t)] \in Ended \cup {"READY"}
  /\ pc[t] = "recycle" => fstate[cbFiber[t]] \in Ended
  /\ pc[t] # "registered"
  /\ stack[t] = IF pc[t] \in {"run", "leave"} THEN Current(t) ELSE NoFiber

Safe ==
  /\ Inv
  /\ fault = "none"
  /\ waiters = {}
  /\ ListOwned
  /\ WorkersOwn
  /\ \A t \in Threads : WorkerKnows(t)

\* RemoveAt drops one entry and keeps the others, in order.
LEMMA RemoveAtEntries ==
  ASSUME NEW S, NEW s \in Seq(S), NEW i \in DOMAIN s
  PROVE  /\ DOMAIN RemoveAt(s, i) = 1..(Len(s) - 1)
         /\ \A k \in 1..(Len(s) - 1) :
              RemoveAt(s, i)[k] = s[IF k < i THEN k ELSE k + 1]
<1> DEFINE a == SubSeq(s, 1, i - 1)
           b == SubSeq(s, i + 1, Len(s))
<1>1. i \in 1..Len(s) /\ Len(s) \in Nat OBVIOUS
<1>2. a \in Seq(S) /\ Len(a) = i - 1 /\ \A k \in 1..(i - 1) : a[k] = s[k]
  BY <1>1, SubSeqProperties
<1>3. b \in Seq(S) /\ Len(b) = Len(s) - i
        /\ \A k \in 1..(Len(s) - i) : b[k] = s[i + k]
  BY <1>1, SubSeqProperties
<1> HIDE DEF a, b
<1>4. /\ Len(a \o b) = Len(s) - 1
      /\ a \o b \in Seq(S)
      /\ \A k \in 1..(Len(s) - 1) : (a \o b)[k] = IF k <= i - 1 THEN a[k] ELSE b[k - (i - 1)]
  <2>1. /\ a \o b \in Seq(S)
        /\ Len(a \o b) = Len(a) + Len(b)
        /\ \A k \in 1..(Len(a) + Len(b)) :
             (a \o b)[k] = IF k <= Len(a) THEN a[k] ELSE b[k - Len(a)]
    BY <1>2, <1>3, ConcatProperties
  <2>2. Len(a) = i - 1 /\ Len(a) + Len(b) = Len(s) - 1 BY <1>1, <1>2, <1>3
  <2>3. QED BY <2>1, <2>2
<1>5. RemoveAt(s, i) = a \o b BY DEF RemoveAt, a, b
<1>6. DOMAIN (a \o b) = 1..(Len(s) - 1) BY <1>1, <1>4
<1>7. ASSUME NEW k \in 1..(Len(s) - 1)
      PROVE  (a \o b)[k] = s[IF k < i THEN k ELSE k + 1]
  <2>1. CASE k < i BY <1>1, <1>2, <1>4, <2>1
  <2>2. CASE ~(k < i)
    <3>1. k - (i - 1) \in 1..(Len(s) - i) /\ i + (k - (i - 1)) = k + 1
      BY <1>1, <2>2
    <3>2. (a \o b)[k] = b[k - (i - 1)] BY <1>1, <1>4, <2>2
    <3>3. QED BY <1>3, <2>2, <3>1, <3>2
  <2>3. QED BY <2>1, <2>2
<1>8. QED BY <1>5, <1>6, <1>7

\* Appending one mission.
LEMMA AppendEntries ==
  ASSUME NEW S, NEW s \in Seq(S), NEW m \in S
  PROVE  /\ DOMAIN Append(s, m) = 1..(Len(s) + 1)
         /\ DOMAIN s = 1..Len(s) /\ Len(s) \in Nat
         /\ Append(s, m)[Len(s) + 1] = m
         /\ \A k \in 1..Len(s) : Append(s, m)[k] = s[k]
OBVIOUS

LEMMA InitSafe == Init => Safe
<1> SUFFICES ASSUME Init PROVE Safe OBVIOUS
<1>1. missons = <<>> /\ DOMAIN missons = {} BY DEF Init
<1>2. ListOwned BY <1>1 DEF ListOwned
<1>3. /\ \A t \in Threads : Held(t) = {}
      /\ \A t \in Threads : mission[t].fiber = NoFiber /\ cbFiber[t] = NoFiber
  BY DEF Init, Held, NoMisson
<1>4. WorkersOwn BY <1>3 DEF WorkersOwn
<1>5. \A t \in Threads : WorkerKnows(t)
  BY <1>3 DEF WorkerKnows, Init, FiberInit
<1>6. QED BY <1>2, <1>4, <1>5, InitInv DEF Safe, Init, FiberInit

\* A step that changes no fiber, no list entry and no worker's local variables,
\* and moves workers only between labels without a fiber, keeps Safe.
LEMMA OwnerSafe == Safe /\ Owner => Safe'
<1> SUFFICES ASSUME Safe, Owner PROVE Safe' OBVIOUS
<1>1. UNCHANGED <<fiberVars, missons, runVars, waiters>>
  BY DEF Owner, Start, Stop, SetStopping, AfterStopping, CallRoot, RootBack, Join, jobVars
<1>2. \A t \in Threads : pc'[t] = pc[t] \/ (pc[t] = "off" /\ pc'[t] = "take")
  BY DEF Owner, Start, Stop, SetStopping, AfterStopping, CallRoot, RootBack, Join,
         Safe, Inv, TypeOK, Shape, Goto, OwnerAt, Pool
<1>3. ListOwned' BY <1>1 DEF Safe, ListOwned, Held, fiberVars, runVars
<1>4. WorkersOwn' BY <1>1 DEF Safe, WorkersOwn, Held, runVars
<1>5. \A t \in Threads : WorkerKnows(t)'
  BY <1>1, <1>2 DEF Safe, WorkerKnows, Current, fiberVars, runVars
<1>6. QED BY <1>1, <1>3, <1>4, <1>5, OwnerInv DEF Safe, fiberVars

\* A callback handed to the scheduler is a list entry without a fiber.
LEMMA ScheduleSafe ==
  ASSUME Safe, \/ \E j \in Jobs : Submit(j)
               \/ \E t \in Threads, j \in Jobs : Spawn(t, j)
  PROVE  Safe'
<1>1. PICK j \in Jobs : missons' = Append(missons, CbMisson(j))
  BY DEF Submit, Spawn, Schedule
<1>2. UNCHANGED <<fiberVars, runVars, pc, waiters>>
  BY DEF Submit, Spawn
<1>3. CbMisson(j) \in Misson /\ CbMisson(j).fiber = NoFiber
  BY SchedulerAssumption DEF CbMisson, Misson
<1>4. missons \in Seq(Misson) BY DEF Safe, Inv, TypeOK
<1>5. ListOwned'
  BY <1>1, <1>2, <1>3, <1>4, AppendEntries
  DEF Safe, ListOwned, Held, fiberVars, runVars
<1>6. WorkersOwn' BY <1>2 DEF Safe, WorkersOwn, Held, runVars
<1>7. \A t \in Threads : WorkerKnows(t)'
  BY <1>2 DEF Safe, WorkerKnows, Current, fiberVars, runVars
<1>8. QED BY <1>2, <1>5, <1>6, <1>7, ScheduleInv DEF Safe, fiberVars

\* The operations of Fiber succeed on a fiber that is in the right state and on
\* nobody's stack.
LEMMA SafeOps ==
  ASSUME FiberTypeOK, fault = "none", NEW t \in Threads, NEW f \in Fibers
  PROVE  /\ \A j : fstate[f] \in Restable /\ ~OnStack(f) /\ Reset(f, j) =>
              Construct(f, j)
         /\ fstate[f] \in {"INIT", "READY"} /\ ~OnStack(f) /\ SwapIn(t, f) =>
              /\ fstate' = [fstate EXCEPT ![f] = "EXEC"]
              /\ stack' = [stack EXCEPT ![t] = f]
              /\ fault' = "none"
BY DEF Reset, SwapIn, Restable, Ended

\* The fiber on a worker's stack is one it holds.
LEMMA StackHeld ==
  ASSUME Safe, NEW t \in Threads, NEW f \in Fibers, stack[t] = f
  PROVE  f \in Held(t) /\ f = Current(t) /\ pc[t] \in {"run", "leave"}
<1>1. pc[t] \in {"run", "leave"} /\ f = Current(t)
  BY NullAssumption DEF Safe, WorkerKnows
<1>2. QED BY <1>1, NullAssumption DEF Held, Current

\* A worker that takes a mission becomes the only holder of its fiber.
LEMMA TakeSafe ==
  ASSUME Safe, NEW t \in Threads, Take(t)
  PROVE  Safe'
<1>1. PICK i \in DOMAIN missons :
        /\ mission' = [mission EXCEPT ![t] = missons[i]]
        /\ missons' = RemoveAt(missons, i)
  BY DEF Take
<1>2. missons \in Seq(Misson) /\ missons[i] \in Misson /\ Len(missons) \in Nat
      /\ DOMAIN missons = 1..Len(missons)
  BY DEF Safe, Inv, TypeOK
<1>3. /\ DOMAIN missons' = 1..(Len(missons) - 1)
      /\ \A k \in 1..(Len(missons) - 1) :
           missons'[k] = missons[IF k < i THEN k ELSE k + 1]
  BY <1>1, <1>2, RemoveAtEntries
<1>4. /\ UNCHANGED <<fiberVars, waiters, cbFiber>>
      /\ pc[t] = "take" /\ pc' = [pc EXCEPT ![t] = "dispatch"]
      /\ mission[t].fiber = NoFiber
      /\ pc \in [Threads -> WorkerPcs]
      /\ mission \in [Threads -> Misson]
  BY DEF Take, At, Goto, jobVars, Safe, WorkerKnows, Inv, TypeOK
<1>5. /\ \A u \in Threads : u # t => Held(u)' = Held(u)
      /\ mission'[t] = missons[i]
      /\ Held(t)' = Held(t) \cup ({missons[i].fiber} \ {NoFiber})
  BY <1>1, <1>4 DEF Held
<1>6. ListOwned'
  <2>1. ASSUME NEW k \in DOMAIN missons', missons'[k].fiber # NoFiber
        PROVE  /\ fstate'[missons'[k].fiber] = "READY"
               /\ \A u \in Threads : missons'[k].fiber \notin Held(u)'
    <3>1. PICK l \in DOMAIN missons : l # i /\ missons'[k] = missons[l]
      BY <1>2, <1>3, <2>1
    <3>2. missons[l].fiber # missons[i].fiber
      BY <2>1, <3>1 DEF Safe, ListOwned
    <3>3. QED BY <1>4, <1>5, <2>1, <3>1, <3>2 DEF Safe, ListOwned, fiberVars
  <2>2. ASSUME NEW k \in DOMAIN missons', NEW l \in DOMAIN missons', k # l,
               missons'[k].fiber # NoFiber
        PROVE  missons'[k].fiber # missons'[l].fiber
    <3> DEFINE a == IF k < i THEN k ELSE k + 1
               b == IF l < i THEN l ELSE l + 1
    <3>1. a \in DOMAIN missons /\ b \in DOMAIN missons /\ a # b
      BY <1>2, <1>3, <2>2
    <3>2. missons'[k] = missons[a] /\ missons'[l] = missons[b]
      BY <1>3, <2>2
    <3> HIDE DEF a, b
    <3>3. QED BY <2>2, <3>1, <3>2 DEF Safe, ListOwned
  <2>3. QED BY <2>1, <2>2 DEF ListOwned
<1>7. missons[i].fiber # NoFiber =>
        /\ fstate[missons[i].fiber] = "READY"
        /\ \A u \in Threads : missons[i].fiber \notin Held(u)
  BY DEF Safe, ListOwned
<1>8. WorkersOwn'
  <2>1. ASSUME NEW u \in Threads, NEW v \in Threads, u # v
        PROVE  Held(u)' \cap Held(v)' = {}
    BY <1>5, <1>7, <2>1 DEF Safe, WorkersOwn
  <2>2. ASSUME NEW u \in Threads, mission'[u].fiber # NoFiber
        PROVE  mission'[u].fiber # cbFiber'[u]
    <3>1. CASE u = t BY <1>4, <1>5, <1>7, <2>2, <3>1 DEF Held
    <3>2. CASE u # t
      BY <1>1, <1>4, <2>2, <3>2 DEF Safe, WorkersOwn
    <3>3. QED BY <3>1, <3>2
  <2>3. QED BY <2>1, <2>2 DEF WorkersOwn
<1>9. \A u \in Threads : WorkerKnows(u)'
  BY <1>1, <1>4, <1>5, <1>7 DEF Safe, WorkerKnows, Current, fiberVars
<1>10. QED BY <1>4, <1>6, <1>8, <1>9, WorkerInv DEF Safe, fiberVars, Worker

\* A step of worker t that leaves the list and the other workers alone, takes
\* hold of no fiber that somebody else holds, and changes no fiber it does not
\* hold, keeps Safe if t knows its own fibers afterwards.
LEMMA LocalSafe ==
  ASSUME Safe, Inv', NEW t \in Threads,
         UNCHANGED <<missons, waiters>>, fault' = "none",
         \A u \in Threads : u # t =>
            /\ mission'[u] = mission[u] /\ cbFiber'[u] = cbFiber[u]
            /\ pc'[u] = pc[u] /\ stack'[u] = stack[u],
         \A f \in Held(t)' : f \in Held(t) \/
            /\ \A u \in Threads : f \notin Held(u)
            /\ \A k \in DOMAIN missons : missons[k].fiber # f,
         mission'[t].fiber # NoFiber => mission'[t].fiber # cbFiber'[t],
         \A f \in Fibers : f \notin Held(t) \cup Held(t)' => fstate'[f] = fstate[f],
         WorkerKnows(t)'
  PROVE  Safe'
<1>1. \A u \in Threads : u # t => Held(u)' = Held(u) BY DEF Held
<1>2. /\ \A u \in Threads : cbFiber[u] \in Fibers \cup {NoFiber}
      /\ \A u \in Threads : mission[u].fiber \in Fibers \cup {NoFiber}
      /\ \A k \in DOMAIN missons : missons[k].fiber \in Fibers \cup {NoFiber}
  <2>1. /\ mission \in [Threads -> Misson] /\ missons \in Seq(Misson)
        /\ cbFiber \in [Threads -> Fibers \cup {NoFiber}]
    BY DEF Safe, Inv, TypeOK
  <2>2. \A m \in Misson : m.fiber \in Fibers \cup {NoFiber} BY DEF Misson
  <2>3. \A k \in DOMAIN missons : missons[k] \in Misson BY <2>1
  <2>4. QED BY <2>1, <2>2, <2>3
<1>3. ListOwned'
  <2>1. ASSUME NEW k \in DOMAIN missons, missons[k].fiber # NoFiber
        PROVE  /\ fstate'[missons[k].fiber] = "READY"
               /\ \A u \in Threads : missons[k].fiber \notin Held(u)'
    <3>1. /\ fstate[missons[k].fiber] = "READY"
          /\ \A u \in Threads : missons[k].fiber \notin Held(u)
      BY <2>1 DEF Safe, ListOwned
    <3>2. missons[k].fiber \notin Held(t)' BY <3>1
    <3>3. QED BY <1>1, <1>2, <2>1, <3>1, <3>2
  <2>2. QED BY <2>1 DEF Safe, ListOwned
<1>4. WorkersOwn'
  <2>1. ASSUME NEW u \in Threads, u # t
        PROVE  Held(u)' \cap Held(t)' = {}
    <3>1. Held(u) \cap Held(t) = {} BY <2>1 DEF Safe, WorkersOwn
    <3>2. QED BY <1>1, <2>1, <3>1
  <2>2. ASSUME NEW u \in Threads, NEW v \in Threads, u # v
        PROVE  Held(u)' \cap Held(v)' = {}
    <3>1. CASE u = t BY <2>1, <2>2, <3>1
    <3>2. CASE v = t BY <2>1, <2>2, <3>2
    <3>3. CASE u # t /\ v # t BY <1>1, <2>2, <3>3 DEF Safe, WorkersOwn
    <3>4. QED BY <3>1, <3>2, <3>3
  <2>3. \A u \in Threads : mission'[u].fiber # NoFiber => mission'[u].fiber # cbFiber'[u]
    BY DEF Safe, WorkersOwn
  <2>4. QED BY <2>2, <2>3 DEF WorkersOwn
<1>5. ASSUME NEW u \in Threads, u # t
      PROVE  WorkerKnows(u)'
  <2>1. /\ mission'[u] = mission[u] /\ cbFiber'[u] = cbFiber[u]
        /\ pc'[u] = pc[u] /\ stack'[u] = stack[u] /\ Current(u)' = Current(u)
    BY <1>5 DEF Current
  <2>2. \A f \in Held(u) : fstate'[f] = fstate[f]
    <3>1. Held(u) \cap Held(t) = {} BY <1>5 DEF Safe, WorkersOwn
    <3>2. \A f \in Held(u) : f \notin Held(t)' BY <1>5, <3>1
    <3>3. Held(u) \subseteq Fibers BY <1>2 DEF Held
    <3>4. QED BY <3>1, <3>2, <3>3
  <2>3. pc[u] \in {"run", "leave", "back", "recycle"} =>
          Current(u) \in Held(u) /\ (pc[u] = "recycle" => cbFiber[u] \in Held(u))
    BY DEF Safe, Inv, Shape, Current, Held, WorkerKnows
  <2>4. /\ mission[u].fiber # NoFiber => mission[u].fiber \in Held(u)
        /\ cbFiber[u] # NoFiber => cbFiber[u] \in Held(u)
    BY DEF Held
  <2>5. WorkerKnows(u) BY DEF Safe
  <2>6. QED BY <2>1, <2>2, <2>3, <2>4, <2>5 DEF WorkerKnows
<1>6. QED BY <1>3, <1>4, <1>5 DEF Safe

\* What is known of a worker's own fibers by their types.
LEMMA Own ==
  ASSUME Safe, NEW t \in Threads
  PROVE  /\ mission[t] \in Misson
         /\ mission[t].fiber \in Fibers \cup {NoFiber}
         /\ cbFiber[t] \in Fibers \cup {NoFiber}
         /\ pc[t] \in WorkerPcs /\ stack[t] \in Fibers \cup {NoFiber}
         /\ WorkerKnows(t)
         /\ fault = "none" /\ Inv /\ FiberTypeOK /\ TypeOK
BY DEF Safe, Inv, TypeOK, FiberTypeOK, Misson

\* Nobody is on the stack of a fiber that a worker outside a job holds.
LEMMA OffStack ==
  ASSUME Safe, NEW t \in Threads, NEW f \in Fibers, f \in Held(t),
         pc[t] \notin {"run", "leave"}
  PROVE  ~OnStack(f)
<1>1. SUFFICES ASSUME NEW u \in Threads, stack[u] = f PROVE FALSE BY DEF OnStack
<1>2. f \in Held(u) /\ pc[u] \in {"run", "leave"} BY <1>1, StackHeld
<1>3. u # t BY <1>2
<1>4. QED BY <1>2, <1>3 DEF Safe, WorkersOwn

\* Steps that touch no fiber: the labels tell what the worker knows.
LEMMA QuietSafe ==
  ASSUME Safe, NEW t \in Threads,
         TakeNothing(t) \/ Idle(t) \/ DispatchFiber(t) \/ NotReady(t)
  PROVE  Safe'
<1>1. Inv' BY WorkerInv DEF Safe, Worker
<1>2. /\ UNCHANGED <<fiberVars, missons, waiters, cbFiber>>
      /\ \A u \in Threads : u # t => pc'[u] = pc[u] /\ mission'[u] = mission[u]
      /\ Held(t)' \subseteq Held(t)
      /\ mission'[t].fiber # NoFiber => mission'[t].fiber = mission[t].fiber
  BY Own DEF TakeNothing, Idle, DispatchFiber, NotReady, Goto, runVars, jobVars,
             Held, NoMisson, TypeOK
<1>3. WorkerKnows(t)'
  BY <1>2, Own
  DEF WorkerKnows, TakeNothing, Idle, DispatchFiber, NotReady, At, Goto, TypeOK,
      runVars, fiberVars, Current, NoMisson, Ended
<1>4. mission'[t].fiber # NoFiber => mission'[t].fiber # cbFiber'[t]
  BY <1>2 DEF Safe, WorkersOwn
<1>5. QED BY <1>1, <1>2, <1>3, <1>4, Own, LocalSafe DEF fiberVars

\* A READY fiber is never an ended one, so no mission is dropped.
LEMMA DropSafe ==
  ASSUME Safe, NEW t \in Threads, Drop(t)
  PROVE  FALSE
BY Own DEF Drop, At, WorkerKnows, Ended

\* A callback is put on the worker's own INIT fiber or on an unreferenced one.
LEMMA DispatchCbSafe ==
  ASSUME Safe, NEW t \in Threads, DispatchCb(t)
  PROVE  Safe'
<1>1. Inv' BY WorkerInv DEF Safe, Worker
<1>2. /\ pc[t] = "dispatch" /\ mission[t].fiber = NoFiber
      /\ mission' = [mission EXCEPT ![t] = NoMisson]
      /\ pc' = [pc EXCEPT ![t] = "enter"]
      /\ UNCHANGED <<missons, waiters>>
  BY DEF DispatchCb, At, Goto, jobVars
<1>3. PICK f \in Fibers :
        /\ Construct(f, mission[t].cb)
        /\ cbFiber' = [cbFiber EXCEPT ![t] = f]
        /\ \/ f = cbFiber[t]
           \/ ~Referenced(f)
  <2>1. CASE cbFiber[t] # NoFiber
    <3>1. cbFiber[t] \in Fibers /\ cbFiber[t] \in Held(t) /\ fstate[cbFiber[t]] = "INIT"
      BY <1>2, <2>1, Own DEF WorkerKnows, Held
    <3>2. ~OnStack(cbFiber[t]) BY <1>2, <3>1, OffStack
    <3>3. Construct(cbFiber[t], mission[t].cb)
      BY <1>2, <2>1, <3>1, <3>2, Own, SafeOps DEF DispatchCb, Restable
    <3>4. cbFiber' = [cbFiber EXCEPT ![t] = cbFiber[t]]
      BY <2>1, <1>2, Own DEF DispatchCb, TypeOK
    <3>5. QED BY <3>1, <3>3, <3>4
  <2>2. CASE cbFiber[t] = NoFiber BY <2>2 DEF DispatchCb
  <2>3. QED BY <2>1, <2>2
<1>4. /\ stack' = stack /\ fault' = "none"
      /\ fstate' = [fstate EXCEPT ![f] = "INIT"]
  BY <1>3, Own DEF Construct
<1>5. /\ mission'[t].fiber = NoFiber /\ cbFiber'[t] = f /\ pc'[t] = "enter"
      /\ Held(t)' = {f} /\ fstate'[f] = "INIT" /\ stack'[t] = NoFiber
  BY <1>2, <1>3, <1>4, NullAssumption, Own
  DEF Held, NoMisson, TypeOK, FiberTypeOK, WorkerKnows
<1>6. WorkerKnows(t)' BY <1>5 DEF WorkerKnows
<1>7. f \in Held(t) \/ (/\ \A u \in Threads : f \notin Held(u)
                       /\ \A k \in DOMAIN missons : missons[k].fiber # f)
  BY <1>3, NullAssumption DEF Held, Referenced
<1>8. \A g \in Fibers : g \notin Held(t) \cup Held(t)' => fstate'[g] = fstate[g]
  BY <1>4, <1>5, Own DEF FiberTypeOK
<1>9. \A u \in Threads : u # t =>
        /\ mission'[u] = mission[u] /\ cbFiber'[u] = cbFiber[u]
        /\ pc'[u] = pc[u] /\ stack'[u] = stack[u]
  BY <1>2, <1>3, <1>4, Own DEF TypeOK
<1>10. QED BY <1>1, <1>2, <1>4, <1>5, <1>6, <1>7, <1>8, <1>9, LocalSafe

\* Entering: the fiber is INIT or READY, and nobody is on its stack.
LEMMA EnterSafe ==
  ASSUME Safe, NEW t \in Threads, Enter(t)
  PROVE  Safe'
<1>1. Inv' BY WorkerInv DEF Safe, Worker
<1> DEFINE f == Current(t)
<1>2. /\ pc[t] = "enter" /\ pc' = [pc EXCEPT ![t] = "run"] /\ SwapIn(t, f)
      /\ UNCHANGED <<missons, waiters, mission, cbFiber>>
  BY DEF Enter, At, Goto, runVars, jobVars
<1>3. f \in Fibers /\ f \in Held(t)
  BY <1>2, Own DEF Inv, Shape, Current, Held
<1>4. fstate[f] \in {"INIT", "READY"}
  BY <1>2, <1>3, NullAssumption, Own DEF WorkerKnows, Current
<1>5. ~OnStack(f) BY <1>2, <1>3, OffStack
<1>6. /\ fstate' = [fstate EXCEPT ![f] = "EXEC"]
      /\ stack' = [stack EXCEPT ![t] = f]
      /\ fault' = "none"
  BY <1>2, <1>3, <1>4, <1>5, Own, SafeOps
<1>7. /\ fstate'[f] = "EXEC" /\ stack'[t] = f /\ pc'[t] = "run" /\ Current(t)' = f
      /\ Held(t)' = Held(t)
  BY <1>2, <1>3, <1>6, Own DEF TypeOK, FiberTypeOK, Held, Current
<1>8. WorkerKnows(t)'
  <2>1. CASE mission[t].fiber = NoFiber
    BY <1>2, <1>7, <2>1 DEF WorkerKnows, Current
  <2>2. CASE mission[t].fiber # NoFiber
    <3>1. f = mission[t].fiber /\ f # cbFiber[t]
      BY <2>2 DEF Safe, WorkersOwn, Current
    <3>2. cbFiber[t] = NoFiber \/ fstate'[cbFiber[t]] = "INIT"
      BY <1>2, <1>3, <1>6, <2>2, <3>1, Own DEF WorkerKnows, FiberTypeOK
    <3>3. QED BY <1>2, <1>7, <2>2, <3>2 DEF WorkerKnows
  <2>3. QED BY <2>1, <2>2
<1>9. \A g \in Fibers : g \notin Held(t) \cup Held(t)' => fstate'[g] = fstate[g]
  BY <1>3, <1>6, Own DEF FiberTypeOK
<1>10. \A u \in Threads : u # t =>
        /\ mission'[u] = mission[u] /\ cbFiber'[u] = cbFiber[u]
        /\ pc'[u] = pc[u] /\ stack'[u] = stack[u]
  BY <1>2, <1>6, Own DEF TypeOK, FiberTypeOK
<1>11. mission'[t].fiber # NoFiber => mission'[t].fiber # cbFiber'[t]
  BY <1>2 DEF Safe, WorkersOwn
<1>12. QED BY <1>1, <1>2, <1>6, <1>7, <1>8, <1>9, <1>10, <1>11, LocalSafe

\* The running fiber changes its own state and leaves for its worker.
LEMMA LeaveSafe ==
  ASSUME Safe, NEW t \in Threads, YieldToReady(t) \/ Finish(t)
  PROVE  Safe'
<1>1. Inv' BY WorkerInv DEF Safe, Worker
<1> DEFINE f == stack[t]
<1>2. /\ pc[t] = "run" /\ pc' = [pc EXCEPT ![t] = "leave"]
      /\ UNCHANGED <<missons, waiters, mission, cbFiber>>
  BY DEF YieldToReady, Finish, At, Goto, runVars
<1>3. f = Current(t) /\ f \in Fibers /\ f \in Held(t) /\ fstate[f] = "EXEC"
  BY <1>2, Own DEF Inv, Shape, Current, Held, WorkerKnows
<1>4. /\ \E s \in Ended \cup {"READY"} : fstate' = [fstate EXCEPT ![f] = s]
      /\ UNCHANGED <<stack, fault>>
  BY <1>3 DEF YieldToReady, Finish, Yield, Return, Throw, Ended
<1>5. /\ fstate'[f] \in Ended \cup {"READY"} /\ pc'[t] = "leave"
      /\ Current(t)' = f /\ Held(t)' = Held(t) /\ stack'[t] = f
  BY <1>2, <1>3, <1>4, Own DEF TypeOK, FiberTypeOK, Held, Current
<1>6. \A g \in Fibers : g # f => fstate'[g] = fstate[g]
  BY <1>3, <1>4, Own DEF FiberTypeOK
<1>7. WorkerKnows(t)'
  <2>1. CASE mission[t].fiber = NoFiber
    BY <1>2, <1>5, <2>1 DEF WorkerKnows, Current
  <2>2. CASE mission[t].fiber # NoFiber
    <3>1. f = mission[t].fiber /\ f # cbFiber[t]
      BY <1>3, <2>2 DEF Safe, WorkersOwn, Current
    <3>2. cbFiber[t] = NoFiber \/ fstate'[cbFiber[t]] = "INIT"
      BY <1>2, <1>6, <2>2, <3>1, Own DEF WorkerKnows
    <3>3. QED BY <1>2, <1>5, <2>2, <3>2 DEF WorkerKnows
  <2>3. QED BY <2>1, <2>2
<1>8. \A u \in Threads : u # t =>
        /\ mission'[u] = mission[u] /\ cbFiber'[u] = cbFiber[u]
        /\ pc'[u] = pc[u] /\ stack'[u] = stack[u]
  BY <1>2, <1>4, Own DEF TypeOK
<1>9. mission'[t].fiber # NoFiber => mission'[t].fiber # cbFiber'[t]
  BY <1>2 DEF Safe, WorkersOwn
<1>10. \A g \in Fibers : g \notin Held(t) \cup Held(t)' => fstate'[g] = fstate[g]
  BY <1>3, <1>6
<1>11. QED BY <1>1, <1>2, <1>4, <1>5, <1>7, <1>8, <1>9, <1>10, Own, LocalSafe

\* The worker comes back from the fiber it ran, which is READY or over.
LEMMA BackSafe ==
  ASSUME Safe, NEW t \in Threads, Back(t)
  PROVE  Safe'
<1>1. Inv' BY WorkerInv DEF Safe, Worker
<1>2. /\ pc[t] = "leave" /\ pc' = [pc EXCEPT ![t] = "back"]
      /\ stack' = [stack EXCEPT ![t] = NoFiber]
      /\ UNCHANGED <<missons, waiters, mission, cbFiber, fstate, fault>>
  BY DEF Back, At, Goto, runVars, jobVars, SwapOut
<1>3. /\ pc'[t] = "back" /\ stack'[t] = NoFiber /\ Current(t)' = Current(t)
      /\ Held(t)' = Held(t)
  BY <1>2, Own DEF TypeOK, FiberTypeOK, Held, Current
<1>4. WorkerKnows(t)' BY <1>2, <1>3, Own DEF WorkerKnows
<1>5. \A u \in Threads : u # t => pc'[u] = pc[u] /\ stack'[u] = stack[u]
  BY <1>2, Own DEF TypeOK, FiberTypeOK
<1>6. mission'[t].fiber # NoFiber => mission'[t].fiber # cbFiber'[t]
  BY <1>2 DEF Safe, WorkersOwn
<1>7. QED BY <1>1, <1>2, <1>3, <1>4, <1>5, <1>6, Own, LocalSafe

\* The finished fiber of a callback is emptied for the next one.
LEMMA RecycleSafe ==
  ASSUME Safe, NEW t \in Threads, Recycle(t)
  PROVE  Safe'
<1>1. Inv' BY WorkerInv DEF Safe, Worker
<1> DEFINE f == cbFiber[t]
<1>2. /\ pc[t] = "recycle" /\ pc' = [pc EXCEPT ![t] = "take"]
      /\ UNCHANGED <<missons, waiters, mission>>
  BY DEF Recycle, At, Goto, jobVars
<1>3. f \in Fibers /\ f \in Held(t) /\ fstate[f] \in Ended /\ mission[t].fiber = NoFiber
  BY <1>2, Own DEF Inv, Shape, Held, WorkerKnows
<1>4. ~OnStack(f) BY <1>2, <1>3, OffStack
<1>5. Construct(f, NoJob) /\ cbFiber' = cbFiber
  BY <1>3, <1>4, Own, SafeOps DEF Recycle, Restable, Ended
<1>6. /\ fstate' = [fstate EXCEPT ![f] = "INIT"] /\ stack' = stack /\ fault' = "none"
      /\ fstate'[f] = "INIT" /\ pc'[t] = "take" /\ Held(t)' = Held(t)
  BY <1>2, <1>3, <1>5, Own DEF Construct, FiberTypeOK, TypeOK, Held
<1>7. WorkerKnows(t)'
  BY <1>2, <1>3, <1>5, <1>6, Own DEF WorkerKnows
<1>8. \A u \in Threads : u # t => pc'[u] = pc[u]
  BY <1>2, Own DEF TypeOK
<1>9. \A g \in Fibers : g \notin Held(t) \cup Held(t)' => fstate'[g] = fstate[g]
  BY <1>3, <1>6, Own DEF FiberTypeOK
<1>10. QED BY <1>1, <1>2, <1>3, <1>5, <1>6, <1>7, <1>8, <1>9, LocalSafe

\* A READY fiber goes from its worker to the end of the list.
LEMMA RequeueSafe ==
  ASSUME Safe, NEW t \in Threads, Requeue(t)
  PROVE  Safe'
<1>1. Inv' BY WorkerInv DEF Safe, Worker
<1> DEFINE f == Current(t)
<1>2. /\ pc[t] = "back" /\ pc' = [pc EXCEPT ![t] = "take"] /\ fstate[f] = "READY"
      /\ missons' = Append(missons, FiberMisson(f))
      /\ mission' = [mission EXCEPT ![t] = NoMisson]
      /\ cbFiber' = IF mission[t].fiber # NoFiber THEN cbFiber
                    ELSE [cbFiber EXCEPT ![t] = NoFiber]
      /\ UNCHANGED <<waiters, fstate, stack, fault>>
  BY DEF Requeue, At, Goto, Schedule, fiberVars, jobVars
<1>3. f \in Fibers /\ f \in Held(t) /\ f # NoFiber
  BY <1>2, NullAssumption, Own DEF Inv, Shape, Current, Held
<1>4. f \notin Held(t)' /\ Held(t)' \subseteq Held(t)
  <2>1. CASE mission[t].fiber # NoFiber
    BY <1>2, <2>1, Own DEF Held, Current, NoMisson, TypeOK, Safe, WorkersOwn
  <2>2. CASE mission[t].fiber = NoFiber
    BY <1>2, <2>2, Own DEF Held, Current, NoMisson, TypeOK
  <2>3. QED BY <2>1, <2>2
<1>5. /\ \A u \in Threads : u # t => /\ Held(u)' = Held(u) /\ f \notin Held(u)
                                     /\ mission'[u] = mission[u] /\ cbFiber'[u] = cbFiber[u]
                                     /\ pc'[u] = pc[u] /\ Current(u)' = Current(u)
      /\ mission'[t].fiber = NoFiber
  BY <1>2, <1>3, Own DEF Held, Current, NoMisson, TypeOK, Safe, WorkersOwn
<1>6. /\ missons \in Seq(Misson) /\ FiberMisson(f) \in Misson /\ FiberMisson(f).fiber = f
      /\ \A k \in DOMAIN missons : missons[k].fiber # f
  BY <1>3, Own DEF TypeOK, Misson, FiberMisson, Safe, ListOwned
<1>7. ListOwned'
  <2>1. ASSUME NEW k \in DOMAIN missons', missons'[k].fiber # NoFiber
        PROVE  /\ fstate'[missons'[k].fiber] = "READY"
               /\ \A u \in Threads : missons'[k].fiber \notin Held(u)'
    <3>1. CASE k \in DOMAIN missons
      BY <1>2, <1>4, <1>5, <1>6, <2>1, <3>1, AppendEntries DEF Safe, ListOwned
    <3>2. CASE k \notin DOMAIN missons
      <4>1. missons'[k].fiber = f BY <1>2, <1>6, <2>1, <3>2, AppendEntries
      <4>2. QED BY <1>2, <1>4, <1>5, <4>1
    <3>3. QED BY <3>1, <3>2
  <2>2. ASSUME NEW k \in DOMAIN missons', NEW l \in DOMAIN missons', k # l,
               missons'[k].fiber # NoFiber
        PROVE  missons'[k].fiber # missons'[l].fiber
    BY <1>2, <1>6, <2>2, AppendEntries DEF Safe, ListOwned
  <2>3. QED BY <2>1, <2>2 DEF ListOwned
<1>8. WorkersOwn'
  BY <1>4, <1>5 DEF Safe, WorkersOwn
<1>9. WorkerKnows(t)'
  BY <1>2, <1>5, Own DEF WorkerKnows, Current, TypeOK
<1>10. \A u \in Threads : u # t => WorkerKnows(u)'
  BY <1>2, <1>5 DEF Safe, WorkerKnows
<1>11. QED BY <1>1, <1>2, <1>7, <1>8, <1>9, <1>10 DEF Safe

LEMMA NextSafe == Holding = {} /\ Safe /\ [Next]_vars => Safe'
<1> SUFFICES ASSUME Holding = {}, Safe, [Next]_vars PROVE Safe' OBVIOUS
<1>1. CASE UNCHANGED vars
  <2>1. UNCHANGED <<missons, pc, fiberVars, runVars, jobVars>>
    BY <1>1 DEF vars
  <2>2. Inv' BY <1>1, NextInv DEF Safe
  <2>3. ListOwned' /\ WorkersOwn'
    BY <2>1 DEF Safe, ListOwned, WorkersOwn, Held, fiberVars, runVars
  <2>4. \A t \in Threads : WorkerKnows(t)'
    BY <2>1 DEF Safe, WorkerKnows, Current, fiberVars, runVars
  <2>5. QED BY <2>1, <2>2, <2>3, <2>4 DEF Safe, fiberVars, jobVars
<1>2. CASE Owner BY <1>2, OwnerSafe
<1>3. CASE \/ \E j \in Jobs : Submit(j)
           \/ \E t \in Threads, j \in Jobs : Spawn(t, j)
  BY <1>3, ScheduleSafe
<1>4. CASE \E f \in Fibers : Resume(f)
  BY <1>4 DEF Resume, Safe
<1>5. ASSUME NEW t \in Threads, Worker(t) PROVE Safe'
  <2>1. CASE TakeNothing(t) \/ Idle(t) \/ DispatchFiber(t) \/ NotReady(t)
    BY <2>1, QuietSafe
  <2>2. ~Register(t) BY DEF Register
  <2>3. ~YieldToHold(t) BY Own DEF YieldToHold, At, WorkerKnows
  <2>4. QED BY <1>5, <2>1, <2>2, <2>3, TakeSafe, DropSafe, DispatchCbSafe,
               EnterSafe, LeaveSafe, BackSafe, RecycleSafe, RequeueSafe DEF Worker
<1>6. QED BY <1>1, <1>2, <1>3, <1>4, <1>5 DEF Next, Terminated

\* As long as no job waits for events, handing fibers from worker to worker is
\* safe for any number of workers and jobs: no stack is ever shared and no
\* assertion of the fibers fails.  (With waiting jobs neither holds: see what the
\* README says of SchedulerHoldPool.)
THEOREM HandOverSafe ==
  ASSUME Holding = {}
  PROVE  Spec => [](NoStackShared /\ NoAssertFails)
<1>1. Init => Safe BY InitSafe
<1>2. Safe /\ [Next]_vars => Safe' BY NextSafe
<1>3. Spec => []Safe BY <1>1, <1>2, PTL DEF Spec
<1>4. Safe => NoStackShared /\ NoAssertFails BY DEF Safe, NoStackShared, NoAssertFails
<1>5. QED BY <1>3, <1>4, PTL

-----------------------------------------------------------------------------
(* What becomes of the jobs.                                               *)

\* A fiber whose job, if it has one, is not over.
Live(f) == fstate[f] \notin Ended

\* No job is in two places: list entries, workers' missions and live fibers.
JobsApart ==
  /\ \A i, k \in DOMAIN missons :
       i # k /\ missons[i].cb # NoJob => missons[i].cb # missons[k].cb
  /\ \A t, u \in Threads :
       t # u /\ mission[t].cb # NoJob => mission[t].cb # mission[u].cb
  /\ \A f, g \in Fibers :
       f # g /\ Live(f) /\ Live(g) /\ fcb[f] # NoJob => fcb[f] # fcb[g]
  /\ \A i \in DOMAIN missons, t \in Threads :
       missons[i].cb # NoJob => missons[i].cb # mission[t].cb
  /\ \A i \in DOMAIN missons, f \in Fibers :
       missons[i].cb # NoJob /\ Live(f) => missons[i].cb # fcb[f]
  /\ \A t \in Threads, f \in Fibers :
       mission[t].cb # NoJob /\ Live(f) => mission[t].cb # fcb[f]

\* A job in a place is open: submitted and not over.
Open == submitted \ finished

JobsOpen ==
  /\ finished \subseteq submitted
  /\ \A i \in DOMAIN missons : missons[i].cb \in Open \cup {NoJob}
  /\ \A t \in Threads : mission[t].cb \in Open \cup {NoJob}
  /\ \A f \in Fibers : Live(f) => fcb[f] \in Open \cup {NoJob}

\* An open job is in some place.
JobsKept ==
  \A j \in Open :
    \/ \E i \in DOMAIN missons : missons[i].cb = j
    \/ \E t \in Threads : mission[t].cb = j
    \/ \E f \in Fibers : Live(f) /\ fcb[f] = j

\* A callback's mission carries no fiber, and a worker has one at "dispatch" only.
CbAlone ==
  /\ \A i \in DOMAIN missons : missons[i].cb # NoJob => missons[i].fiber = NoFiber
  /\ \A t \in Threads :
       mission[t].cb # NoJob => mission[t].fiber = NoFiber /\ pc[t] = "dispatch"

\* Worker t has fiber f in this pass of its loop.
KeptBy(t, f) ==
  /\ Current(t) = f
  /\ \/ pc[t] \in {"enter", "run", "leave", "back"}
     \/ pc[t] = "dispatch" /\ mission[t].fiber = f

\* The fiber has something to do.
HasWork(f) == fstate[f] \in {"READY", "EXEC"} \/ (fstate[f] = "INIT" /\ fcb[f] # NoJob)

\* A fiber with something to do is in the list or with a worker.
FibersKept ==
  \A f \in Fibers :
    /\ fstate[f] # "HOLD"
    /\ HasWork(f) =>
         \/ \E i \in DOMAIN missons : missons[i].fiber = f
         \/ \E t \in Threads : KeptBy(t, f)

\* The thread of a job that has not been suspended yet.
Allowed(t, j) == Pin[j] \in {AnyThread, t}
Suspended(j) == j \in Jobs /\ budget[j] < MaxYields

PinKept ==
  /\ \A i \in DOMAIN missons :
       missons[i].cb # NoJob => missons[i].thread = Pin[missons[i].cb]
  /\ \A f \in Fibers : fstate[f] = "READY" => Suspended(fcb[f])
  /\ \A t \in Threads :
       /\ mission[t].cb # NoJob => Allowed(t, mission[t].cb)
       /\ pc[t] \in {"enter", "run"} /\ fcb[Current(t)] # NoJob =>
            Allowed(t, fcb[Current(t)]) \/ Suspended(fcb[Current(t)])

JobsInv ==
  JobsApart /\ JobsOpen /\ JobsKept /\ CbAlone /\ FibersKept /\ PinKept

\* Jobs submitted by jobs are for any worker.
Unpinned == \A j \in Spawned : Pin[j] = AnyThread

\* Leaving run().  Once a worker's idle fiber has returned nobody submits any
\* more, and what is in the list is for any worker; as long as the list is not
\* empty somebody is there to take from it.
Alive(t) == pc[t] \notin {"off", "done"}
RootToCome == Root \in Threads /\ main \in {"running", "early", "stopping", "root"}

Leaving ==
  /\ main \in {"new", "running"} => ~autoStop
  /\ main = "new" => missons = <<>> /\ submitted = {}
  /\ main # "new" => \A t \in Pool : pc[t] # "off"
  /\ main \in {"joining", "stopped"} /\ Root \in Threads => ~Alive(Root)
  /\ main = "stopped" => \A t \in Threads : ~Alive(t)
  /\ main = "early" => Pool = {}
  /\ \A t \in Threads :
       /\ pc[t] = "done" => idleTerm[t]
       /\ idleTerm[t] =>
            autoStop /\ \A i \in DOMAIN missons : missons[i].thread = AnyThread
  /\ missons # <<>> => RootToCome \/ \E t \in Threads : Alive(t)

-----------------------------------------------------------------------------
(* Where the jobs are.                                                     *)

LEMMA InitJobs == Init => JobsInv
<1> SUFFICES ASSUME Init PROVE JobsInv OBVIOUS
<1>1. /\ missons = <<>> /\ DOMAIN missons = {} /\ Open = {} /\ finished = {}
      /\ \A t \in Threads : mission[t].cb = NoJob /\ pc[t] = "off"
      /\ \A f \in Fibers : fstate[f] = "INIT" /\ fcb[f] = NoJob
  BY DEF Init, FiberInit, NoMisson, Open
<1>2. JobsApart /\ JobsOpen /\ JobsKept
  BY <1>1 DEF JobsApart, JobsOpen, JobsKept
<1>3. CbAlone /\ FibersKept /\ PinKept
  BY <1>1 DEF CbAlone, FibersKept, HasWork, PinKept
<1>4. QED BY <1>2, <1>3 DEF JobsInv

\* A step that changes no list entry, no fiber and no job, and forgets no
\* callback and no fiber with work, keeps everything in its place.
LEMMA QuietJobs ==
  ASSUME JobsInv, submitted \subseteq Jobs,
         UNCHANGED <<missons, fstate, fcb, budget, submitted, finished>>,
         \A t \in Threads :
            /\ mission'[t] = mission[t] \/ mission'[t] = NoMisson
            /\ mission[t].cb # NoJob => mission'[t] = mission[t] /\ pc'[t] = pc[t]
            /\ \A f \in Fibers : HasWork(f) /\ KeptBy(t, f) => KeptBy(t, f)'
            /\ pc'[t] \in {"enter", "run"} =>
                 /\ Current(t)' = Current(t)
                 /\ pc[t] \in {"enter", "run"} \/ Suspended(fcb[Current(t)])
  PROVE  JobsInv'
<1>1. Open' = Open BY DEF Open
<1>2. \A t \in Threads : mission'[t].cb = mission[t].cb \/ mission'[t].cb = NoJob
  BY DEF NoMisson
<1>3. \A f : Live(f)' = Live(f) /\ HasWork(f)' = HasWork(f) BY DEF Live, HasWork
<1>4. JobsApart' BY <1>2, <1>3 DEF JobsInv, JobsApart
<1>5. JobsOpen' BY <1>1, <1>2, <1>3 DEF JobsInv, JobsOpen
<1>6. JobsKept'
  <2>1. \A j \in Open, t \in Threads : mission[t].cb = j => mission'[t].cb = j
    <3>1. \A j \in Open : j # NoJob BY NullAssumption DEF Open
    <3>2. QED BY <3>1
  <2>2. QED BY <1>1, <1>3, <2>1 DEF JobsInv, JobsKept
<1>7. CbAlone' BY <1>2 DEF JobsInv, CbAlone, NoMisson
<1>8. FibersKept' BY <1>3 DEF JobsInv, FibersKept
<1>9. PinKept'
  <2>1. \A j : Suspended(j)' = Suspended(j) BY DEF Suspended
  <2>2. QED BY <1>2, <2>1 DEF JobsInv, PinKept
<1>10. QED BY <1>4, <1>5, <1>6, <1>7, <1>8, <1>9 DEF JobsInv

\* The owner's thread touches no job; Start and CallRoot let workers begin.
LEMMA OwnerJobs == Safe /\ JobsInv /\ Owner => JobsInv'
<1> SUFFICES ASSUME Safe, JobsInv, Owner PROVE JobsInv' OBVIOUS
<1>1. UNCHANGED <<fiberVars, missons, runVars, jobVars>>
  BY DEF Owner, Start, Stop, SetStopping, CallRoot, RootBack, Join
<1>2. \A t \in Threads : pc'[t] = pc[t] \/ (pc[t] = "off" /\ pc'[t] = "take")
  BY DEF Owner, Start, Stop, SetStopping, AfterStopping, CallRoot, RootBack, Join,
         Safe, Inv, TypeOK, Shape, Goto, OwnerAt, Pool
<1>3. UNCHANGED <<missons, fstate, fcb, mission, cbFiber, budget, submitted, finished>>
  BY <1>1 DEF fiberVars, runVars, jobVars
<1>4. ASSUME NEW t \in Threads
      PROVE  /\ mission'[t] = mission[t] \/ mission'[t] = NoMisson
             /\ mission[t].cb # NoJob => mission'[t] = mission[t] /\ pc'[t] = pc[t]
             /\ \A f \in Fibers : HasWork(f) /\ KeptBy(t, f) => KeptBy(t, f)'
             /\ pc'[t] \in {"enter", "run"} =>
                  /\ Current(t)' = Current(t)
                  /\ pc[t] \in {"enter", "run"} \/ Suspended(fcb[Current(t)])
  BY <1>2, <1>3 DEF JobsInv, CbAlone, KeptBy, Current
<1>5. submitted \subseteq Jobs BY DEF Safe, Inv, TypeOK
<1>6. QED BY <1>3, <1>4, <1>5, QuietJobs

\* Steps of a worker that touch neither a job nor a fiber's state.
LEMMA QuietWorkerJobs ==
  ASSUME Safe, JobsInv, NEW t \in Threads,
         \/ TakeNothing(t) \/ Idle(t) \/ DispatchFiber(t) \/ Back(t) \/ NotReady(t)
  PROVE  JobsInv'
<1>1. UNCHANGED <<missons, fstate, fcb, cbFiber, budget, submitted, finished>>
  BY DEF TakeNothing, Idle, DispatchFiber, Back, NotReady, SwapOut,
         fiberVars, runVars, jobVars
<1>2. \A u \in Threads : u # t => mission'[u] = mission[u] /\ pc'[u] = pc[u]
  BY Own DEF TakeNothing, Idle, DispatchFiber, Back, NotReady, Goto, runVars, TypeOK
<1>3. /\ mission'[t] = mission[t] \/ mission'[t] = NoMisson
      /\ mission[t].cb # NoJob => mission'[t] = mission[t] /\ pc'[t] = pc[t]
      /\ \A f \in Fibers : HasWork(f) /\ KeptBy(t, f) => KeptBy(t, f)'
      /\ pc'[t] \in {"enter", "run"} =>
           /\ Current(t)' = Current(t)
           /\ pc[t] \in {"enter", "run"} \/ Suspended(fcb[Current(t)])
  <2>1. CASE TakeNothing(t) \/ Idle(t)
    BY <1>1, <2>1, Own
    DEF TakeNothing, Idle, At, Goto, runVars, TypeOK, JobsInv, CbAlone, KeptBy, Current
  <2>2. CASE DispatchFiber(t)
    <3>1. /\ pc[t] = "dispatch" /\ pc'[t] = "enter" /\ mission' = mission
          /\ mission[t].fiber # NoFiber /\ mission[t].cb = NoJob
          /\ mission[t].fiber \in Fibers /\ fstate[mission[t].fiber] = "READY"
      BY <2>2, Own DEF DispatchFiber, At, Goto, runVars, TypeOK, JobsInv, CbAlone, WorkerKnows
    <3>2. Current(t) = mission[t].fiber /\ Current(t)' = Current(t)
      BY <1>1, <3>1 DEF Current
    <3>3. Suspended(fcb[Current(t)]) BY <3>1, <3>2 DEF JobsInv, PinKept
    <3>4. QED BY <3>1, <3>2, <3>3 DEF KeptBy
  <2>3. CASE Back(t)
    BY <1>1, <2>3, Own
    DEF Back, At, Goto, runVars, TypeOK, JobsInv, CbAlone, KeptBy, Current
  <2>4. CASE NotReady(t)
    <3>1. /\ pc[t] = "back" /\ fstate[Current(t)] \in Ended /\ mission[t].cb = NoJob
          /\ mission'[t] = NoMisson /\ pc'[t] \in {"take", "recycle"}
      BY <2>4, Own DEF NotReady, At, Goto, TypeOK, JobsInv, CbAlone, WorkerKnows
    <3>2. \A f : HasWork(f) /\ KeptBy(t, f) => FALSE
      BY <3>1 DEF HasWork, KeptBy, Ended
    <3>3. QED BY <3>1, <3>2
  <2>5. QED BY <2>1, <2>2, <2>3, <2>4
<1>4. ASSUME NEW u \in Threads, u # t
      PROVE  /\ mission'[u] = mission[u] /\ pc'[u] = pc[u] /\ Current(u)' = Current(u)
             /\ \A f \in Fibers : KeptBy(u, f) => KeptBy(u, f)'
  BY <1>1, <1>2, <1>4 DEF KeptBy, Current
<1>5. submitted \subseteq Jobs BY Own DEF TypeOK
<1>6. QED BY <1>1, <1>3, <1>4, <1>5, QuietJobs

\* A step of worker t on one fiber f, which ends in t's hands: the job of t's
\* mission or of f goes to f, stays there, or is over.
LEMMA LocalJobs ==
  ASSUME Safe, Safe', JobsInv, NEW t \in Threads, NEW f \in Fibers,
         UNCHANGED <<missons, submitted>>,
         \A u \in Threads : u # t =>
            mission'[u] = mission[u] /\ cbFiber'[u] = cbFiber[u] /\ pc'[u] = pc[u],
         \A g \in Fibers : g # f => fstate'[g] = fstate[g] /\ fcb'[g] = fcb[g],
         mission'[t].cb = NoJob, f \in Held(t)',
         \* the job of f is not from elsewhere, and open
         Live(f)' /\ fcb'[f] # NoJob =>
            /\ fcb'[f] = mission[t].cb \/ (Live(f) /\ fcb'[f] = fcb[f])
            /\ fcb'[f] \notin finished',
         \* no open job is lost, and only the job of f is over
         \A j \in Open : j = mission[t].cb \/ (Live(f) /\ fcb[f] = j) =>
            j \in finished' \/ (Live(f)' /\ fcb'[f] = j),
         finished \subseteq finished',
         \A j \in finished' \ finished : Live(f) /\ fcb[f] = j /\ j \in Jobs,
         \* fibers with work stay with t
         fstate'[f] # "HOLD", HasWork(f)' => KeptBy(t, f)',
         \A g \in Fibers : g # f /\ HasWork(g) /\ KeptBy(t, g) => KeptBy(t, g)',
         \* suspensions
         \A j \in Jobs : budget'[j] <= budget[j],
         fstate'[f] = "READY" => Suspended(fcb[f])' ,
         pc'[t] \in {"enter", "run"} /\ fcb'[f] # NoJob =>
            Current(t)' = f /\ (Allowed(t, fcb'[f]) \/ Suspended(fcb[f])'),
         pc'[t] \in {"enter", "run"} => Current(t)' = f
  PROVE  JobsInv'
<1> DEFINE J == mission[t].cb
<1>1. /\ \A g \in Fibers : g # f => Live(g)' = Live(g) /\ HasWork(g)' = HasWork(g)
      /\ \A u \in Threads : u # t =>
           /\ Current(u)' = Current(u) /\ Held(u)' = Held(u) /\ f \notin Held(u)
           /\ \A g \in Fibers : KeptBy(u, g)' = KeptBy(u, g)
  <2>1. \A u \in Threads : u # t => Held(u)' = Held(u) /\ Current(u)' = Current(u)
    BY DEF Held, Current
  <2>2. \A u \in Threads : u # t => f \notin Held(u)'
    BY DEF Safe, WorkersOwn
  <2>3. QED BY <2>1, <2>2 DEF Live, HasWork, KeptBy
<1>2. Open' \subseteq Open BY DEF Open
<1>3. /\ \A i \in DOMAIN missons : missons[i].cb # NoJob => missons[i].cb \in Open'
      /\ \A u \in Threads : u # t /\ mission[u].cb # NoJob => mission[u].cb \in Open'
      /\ \A g \in Fibers : g # f /\ Live(g) /\ fcb[g] # NoJob => fcb[g] \in Open'
  BY NullAssumption DEF JobsInv, JobsApart, JobsOpen, Open
<1>4. Live(f)' /\ fcb'[f] # NoJob => fcb'[f] \in Open'
  BY DEF JobsInv, JobsOpen, Open
<1>5. JobsOpen'
  <2>1. finished' \subseteq submitted'
    <3>1. \A j \in finished' \ finished : j \in submitted
      BY NullAssumption DEF JobsInv, JobsOpen, Open
    <3>2. QED BY <3>1 DEF JobsInv, JobsOpen
  <2>2. \A i \in DOMAIN missons' : missons'[i].cb \in Open' \cup {NoJob} BY <1>3
  <2>3. \A u \in Threads : mission'[u].cb \in Open' \cup {NoJob} BY <1>3
  <2>4. \A g \in Fibers : Live(g)' => fcb'[g] \in Open' \cup {NoJob} BY <1>1, <1>3, <1>4
  <2>5. QED BY <2>1, <2>2, <2>3, <2>4 DEF JobsOpen
<1>6. JobsApart'
  <2>1. \A u \in Threads : u # t /\ mission[u].cb # NoJob =>
          ~(Live(f)' /\ fcb'[f] = mission[u].cb)
    BY DEF JobsInv, JobsApart
  <2>2. \A i \in DOMAIN missons : missons[i].cb # NoJob =>
          ~(Live(f)' /\ fcb'[f] = missons[i].cb)
    BY DEF JobsInv, JobsApart
  <2>3. \A g \in Fibers : g # f /\ Live(g) /\ fcb[g] # NoJob =>
          ~(Live(f)' /\ fcb'[f] = fcb[g])
    BY DEF JobsInv, JobsApart
  <2>4. \A g, h \in Fibers : g # h /\ Live(g)' /\ Live(h)' /\ fcb'[g] # NoJob =>
          fcb'[g] # fcb'[h]
    BY <1>1, <2>3 DEF JobsInv, JobsApart
  <2>5. \A u, v \in Threads : u # v /\ mission'[u].cb # NoJob => mission'[u].cb # mission'[v].cb
    BY DEF JobsInv, JobsApart
  <2>6. \A i \in DOMAIN missons', u \in Threads :
          missons'[i].cb # NoJob => missons'[i].cb # mission'[u].cb
    BY DEF JobsInv, JobsApart
  <2>7. \A i \in DOMAIN missons', g \in Fibers :
          missons'[i].cb # NoJob /\ Live(g)' => missons'[i].cb # fcb'[g]
    BY <1>1, <2>2 DEF JobsInv, JobsApart
  <2>8. \A u \in Threads, g \in Fibers :
          mission'[u].cb # NoJob /\ Live(g)' => mission'[u].cb # fcb'[g]
    BY <1>1, <2>1 DEF JobsInv, JobsApart
  <2>9. \A i, k \in DOMAIN missons' :
          i # k /\ missons'[i].cb # NoJob => missons'[i].cb # missons'[k].cb
    BY DEF JobsInv, JobsApart
  <2>10. QED BY <2>4, <2>5, <2>6, <2>7, <2>8, <2>9 DEF JobsApart
<1>7. JobsKept'
  <2> SUFFICES ASSUME NEW j \in Open'
               PROVE  \/ \E i \in DOMAIN missons' : missons'[i].cb = j
                      \/ \E u \in Threads : mission'[u].cb = j
                      \/ \E g \in Fibers : Live(g)' /\ fcb'[g] = j
    BY DEF JobsKept
  <2>1. j \in Open /\ j \notin finished' BY <1>2 DEF Open
  <2>2. CASE \E i \in DOMAIN missons : missons[i].cb = j BY <2>2
  <2>3. ASSUME NEW u \in Threads, mission[u].cb = j
        PROVE  \/ \E v \in Threads : mission'[v].cb = j
               \/ \E g \in Fibers : Live(g)' /\ fcb'[g] = j
    BY <2>1, <2>3
  <2>4. ASSUME NEW g \in Fibers, Live(g), fcb[g] = j
        PROVE  \E h \in Fibers : Live(h)' /\ fcb'[h] = j
    BY <1>1, <2>1, <2>4
  <2>5. QED BY <2>1, <2>2, <2>3, <2>4 DEF JobsInv, JobsKept
<1>8. CbAlone' BY DEF JobsInv, CbAlone
<1>9. FibersKept'
  <2>1. ASSUME NEW g \in Fibers, g # f, HasWork(g)
        PROVE  \/ \E i \in DOMAIN missons : missons[i].fiber = g
               \/ \E u \in Threads : KeptBy(u, g)'
    BY <1>1, <2>1 DEF JobsInv, FibersKept
  <2>2. QED BY <1>1, <2>1 DEF JobsInv, FibersKept
<1>10. PinKept'
  <2>1. \A j : Suspended(j) => Suspended(j)'
    BY SchedulerAssumption, Own DEF Suspended, Safe, Inv, TypeOK
  <2>2. \A g \in Fibers : fstate'[g] = "READY" => Suspended(fcb[g])'
    BY <2>1 DEF JobsInv, PinKept
  <2>3. ASSUME NEW u \in Threads, u # t, pc'[u] \in {"enter", "run"}, fcb'[Current(u)'] # NoJob
        PROVE  Allowed(u, fcb'[Current(u)']) \/ Suspended(fcb[Current(u)])'
    <3>1. Current(u) \in Held(u) /\ Current(u) \in Fibers
      BY <2>3, NullAssumption, Own DEF Safe, Inv, Shape, Current, Held
    <3>2. Current(u) # f BY <1>1, <2>3, <3>1
    <3>3. QED BY <1>1, <2>1, <2>3, <3>1, <3>2 DEF JobsInv, PinKept
  <2>4. \A u \in Threads : mission'[u].cb # NoJob => Allowed(u, mission'[u].cb)
    BY DEF JobsInv, PinKept
  <2>5. \A i \in DOMAIN missons' :
          missons'[i].cb # NoJob => missons'[i].thread = Pin[missons'[i].cb]
    BY DEF JobsInv, PinKept
  <2>6. QED BY <2>2, <2>3, <2>4, <2>5 DEF PinKept, Allowed
<1>11. QED BY <1>5, <1>6, <1>7, <1>8, <1>9, <1>10 DEF JobsInv

\* What the steps below leave alone.
LEMMA Others ==
  ASSUME Safe, NEW t \in Threads,
         \/ DispatchCb(t) \/ Enter(t) \/ YieldToReady(t) \/ Finish(t) \/ Recycle(t)
  PROVE  /\ \A u \in Threads : u # t =>
              mission'[u] = mission[u] /\ cbFiber'[u] = cbFiber[u] /\ pc'[u] = pc[u]
         /\ UNCHANGED <<missons, submitted, waiters>>
BY Own DEF DispatchCb, Enter, YieldToReady, Finish, Recycle, Goto, runVars, jobVars, TypeOK

\* The callback of a mission goes to the worker's fiber.
LEMMA DispatchCbJobs ==
  ASSUME Safe, JobsInv, NEW t \in Threads, DispatchCb(t)
  PROVE  JobsInv'
<1>1. Safe' BY DispatchCbSafe
<1>2. /\ pc[t] = "dispatch" /\ mission[t].fiber = NoFiber /\ mission[t] \in Misson
      /\ mission'[t] = NoMisson /\ pc'[t] = "enter"
      /\ UNCHANGED <<missons, submitted, finished, budget>>
  BY Own DEF DispatchCb, At, Goto, jobVars, TypeOK
<1>3. PICK f \in Fibers :
        /\ Construct(f, mission[t].cb)
        /\ cbFiber'[t] = f
        /\ ~Live(f) \/ (fstate[f] = "INIT" /\ ~KeptBy(t, f))
        /\ f \in Held(t) \/ ~Referenced(f)
  <2>1. CASE cbFiber[t] # NoFiber
    <3>1. cbFiber[t] \in Fibers /\ cbFiber[t] \in Held(t) /\ fstate[cbFiber[t]] = "INIT"
      BY <1>2, <2>1, Own DEF WorkerKnows, Held
    <3>2. ~OnStack(cbFiber[t]) BY <1>2, <3>1, OffStack
    <3>3. Construct(cbFiber[t], mission[t].cb) /\ cbFiber'[t] = cbFiber[t]
      BY <1>2, <2>1, <3>1, <3>2, Own, SafeOps DEF DispatchCb, Restable
    <3>4. ~KeptBy(t, cbFiber[t]) BY <1>2, <2>1 DEF KeptBy
    <3>5. QED BY <3>1, <3>3, <3>4
  <2>2. CASE cbFiber[t] = NoFiber
    <3>1. PICK f \in Fibers : /\ ~Referenced(f)
                              /\ Construct(f, mission[t].cb)
                              /\ cbFiber' = [cbFiber EXCEPT ![t] = f]
      BY <2>2 DEF DispatchCb
    <3>2. ~Live(f) \/ fstate[f] = "INIT" BY <3>1 DEF Referenced, Restable, Live, Ended
    <3>3. ~KeptBy(t, f) BY <1>2, <2>2, NullAssumption DEF KeptBy, Current
    <3>4. QED BY <3>1, <3>2, <3>3, Own DEF TypeOK
  <2>3. QED BY <2>1, <2>2
<1>4. /\ fstate'[f] = "INIT" /\ fcb'[f] = mission[t].cb
      /\ \A g \in Fibers : g # f => fstate'[g] = fstate[g] /\ fcb'[g] = fcb[g]
  BY <1>3, Own DEF Construct, FiberTypeOK
<1>5. /\ mission'[t].cb = NoJob /\ Current(t)' = f /\ f \in Held(t)' /\ f # NoFiber
      /\ KeptBy(t, f)'
  BY <1>2, <1>3, NullAssumption DEF Current, Held, NoMisson, KeptBy
<1>6. ~(Live(f) /\ fcb[f] # NoJob)
  <2>1. SUFFICES ASSUME fstate[f] = "INIT", fcb[f] # NoJob, ~KeptBy(t, f) PROVE FALSE
    BY <1>3 DEF Live
  <2>2. \/ \E i \in DOMAIN missons : missons[i].fiber = f
        \/ \E u \in Threads : KeptBy(u, f)
    BY <2>1 DEF JobsInv, FibersKept, HasWork
  <2>3. ASSUME NEW i \in DOMAIN missons, missons[i].fiber = f PROVE FALSE
    BY <1>5, <2>1, <2>3 DEF Safe, ListOwned
  <2>4. ASSUME NEW u \in Threads, KeptBy(u, f) PROVE FALSE
    <3>1. u # t /\ f \in Held(u) BY <1>5, <2>1, <2>4 DEF KeptBy, Current, Held
    <3>2. Referenced(f) BY <3>1 DEF Held, Referenced
    <3>3. f \in Held(t) BY <1>3, <3>2
    <3>4. QED BY <3>1, <3>3 DEF Safe, WorkersOwn
  <2>5. QED BY <2>2, <2>3, <2>4
<1>7. \A j \in Open : j # NoJob BY NullAssumption, Own DEF Open, TypeOK
<1>8. mission[t].cb # NoJob => mission[t].cb \in Open /\ Allowed(t, mission[t].cb)
  BY DEF JobsInv, JobsOpen, PinKept
<1>9. \A g : ~KeptBy(t, g) \/ g = NoFiber
  BY <1>2 DEF KeptBy
<1>10. \A j \in Jobs : budget'[j] <= budget[j]
  BY <1>2, SchedulerAssumption, Own DEF TypeOK
<1>11. /\ Live(f)' => fcb'[f] = mission[t].cb
       /\ Live(f)' /\ HasWork(f)' => fcb'[f] # NoJob
       /\ fstate'[f] \notin {"HOLD", "READY"} /\ Live(f)'
  BY <1>4 DEF Live, HasWork, Ended
<1>12. QED
  BY <1>1, <1>2, <1>4, <1>5, <1>6, <1>7, <1>8, <1>9, <1>10, <1>11, NullAssumption,
     Others, LocalJobs DEF Open

\* Entering a fiber: its job stays with it.
LEMMA EnterJobs ==
  ASSUME Safe, JobsInv, NEW t \in Threads, Enter(t)
  PROVE  JobsInv'
<1>1. Safe' BY EnterSafe
<1>2. /\ pc[t] = "enter" /\ pc'[t] = "run" /\ SwapIn(t, Current(t))
      /\ UNCHANGED <<missons, waiters, mission, cbFiber, budget, submitted, finished>>
  BY Own DEF Enter, At, Goto, runVars, jobVars, TypeOK
<1>3. PICK f \in Fibers : f = Current(t) /\ f \in Held(t)
  BY <1>2, Own DEF Inv, Shape, Current, Held
<1>4. fstate[f] \in {"INIT", "READY"}
  BY <1>2, <1>3, NullAssumption, Own DEF WorkerKnows, Current
<1>5. ~OnStack(f) BY <1>2, <1>3, OffStack
<1>6. fstate' = [fstate EXCEPT ![f] = "EXEC"] /\ UNCHANGED fcb
  BY <1>2, <1>3, <1>4, <1>5, Own, SafeOps DEF SwapIn, Ended
<1>7. /\ fstate'[f] = "EXEC" /\ Current(t)' = f /\ f \in Held(t)' /\ KeptBy(t, f)'
      /\ \A g \in Fibers : g # f => fstate'[g] = fstate[g] /\ fcb'[g] = fcb[g]
      /\ \A g : KeptBy(t, g) => g = f
      /\ mission[t].cb = NoJob
  BY <1>2, <1>3, <1>6, Own DEF FiberTypeOK, Held, Current, KeptBy, JobsInv, CbAlone
<1>8. Live(f) /\ Live(f)' BY <1>4, <1>7 DEF Live, Ended
<1>9. fcb[f] \in Open \cup {NoJob} BY <1>3, <1>8 DEF JobsInv, JobsOpen
<1>10. fcb[f] # NoJob => Allowed(t, fcb[f]) \/ Suspended(fcb[f])'
  BY <1>2, <1>3, <1>6 DEF JobsInv, PinKept, Suspended
<1>11. \A j \in Jobs : budget'[j] <= budget[j]
  BY <1>2, SchedulerAssumption, Own DEF TypeOK
<1>12. \A j \in Open : j # NoJob BY NullAssumption, Own DEF Open, TypeOK
<1>13. QED
  BY <1>1, <1>2, <1>3, <1>6, <1>7, <1>8, <1>9, <1>10, <1>11, <1>12, Others, LocalJobs DEF Open

\* The running fiber suspends itself with its job, or ends with it.
LEMMA LeaveJobs ==
  ASSUME Safe, JobsInv, NEW t \in Threads, YieldToReady(t) \/ Finish(t)
  PROVE  JobsInv'
<1>1. Safe' BY LeaveSafe
<1>2. /\ pc[t] = "run" /\ pc'[t] = "leave" /\ mission[t].cb = NoJob
      /\ UNCHANGED <<missons, waiters, mission, cbFiber, submitted>>
  BY Own DEF YieldToReady, Finish, At, Goto, runVars, TypeOK, JobsInv, CbAlone
<1>3. PICK f \in Fibers :
        f = Current(t) /\ f = stack[t] /\ f \in Held(t) /\ fstate[f] = "EXEC"
  BY <1>2, Own DEF Inv, Shape, Current, Held, WorkerKnows
<1>4. /\ Current(t)' = f /\ f \in Held(t)' /\ KeptBy(t, f)'
      /\ \A g : KeptBy(t, g) => g = f
  BY <1>2, <1>3 DEF Held, Current, KeptBy
<1>5. Live(f) BY <1>3 DEF Live, Ended
<1>6. fcb[f] \in Open \cup {NoJob} BY <1>3, <1>5 DEF JobsInv, JobsOpen
<1>7. \A j \in Open : j # NoJob BY NullAssumption, Own DEF Open, TypeOK
<1>8. CASE YieldToReady(t)
  <2>1. /\ fstate' = [fstate EXCEPT ![f] = "READY"] /\ UNCHANGED <<fcb, finished>>
        /\ fcb[f] # NoJob /\ budget[fcb[f]] > 0
        /\ budget' = [budget EXCEPT ![fcb[f]] = @ - 1]
    BY <1>3, <1>8 DEF YieldToReady, Yield, Running, CanSuspend
  <2>2. /\ fstate'[f] = "READY"
        /\ \A g \in Fibers : g # f => fstate'[g] = fstate[g] /\ fcb'[g] = fcb[g]
    BY <2>1, Own DEF FiberTypeOK
  <2>3. fcb[f] \in Jobs BY <1>6, <2>1, Own DEF Open, TypeOK
  <2>4. /\ \A j \in Jobs : budget'[j] <= budget[j]
        /\ Suspended(fcb[f])'
    BY <2>1, <2>3, SchedulerAssumption, Own DEF TypeOK, Suspended
  <2>5. Live(f)' BY <2>2 DEF Live, Ended
  <2>6. QED
    BY <1>1, <1>2, <1>3, <1>4, <1>5, <1>6, <1>7, <2>1, <2>2, <2>3, <2>4, <2>5,
       Others, LocalJobs DEF Open
<1>9. CASE Finish(t)
  <2>1. /\ finished' = finished \cup ({fcb[f]} \ {NoJob}) /\ UNCHANGED budget
        /\ \E e \in Ended : fstate' = [fstate EXCEPT ![f] = e]
        /\ \A g \in Fibers : g # f => fcb'[g] = fcb[g]
    BY <1>3, <1>9, Own DEF Finish, Running, Return, Throw, Ended, FiberTypeOK
  <2>2. /\ fstate'[f] \in Ended
        /\ \A g \in Fibers : g # f => fstate'[g] = fstate[g]
    BY <2>1, Own DEF FiberTypeOK
  <2>3. /\ fstate'[f] \notin {"HOLD", "READY"} /\ ~HasWork(f)' /\ ~Live(f)'
    BY <2>2 DEF HasWork, Live, Ended
  <2>4. \A j \in Jobs : budget'[j] <= budget[j]
    BY <2>1, SchedulerAssumption, Own DEF TypeOK
  <2>5. \A j \in finished' \ finished : fcb[f] = j /\ j \in Jobs
    BY <1>6, <2>1, Own DEF Open, TypeOK
  <2>6. \A j \in Open : j = mission[t].cb \/ (Live(f) /\ fcb[f] = j) => j \in finished'
    BY <1>2, <1>7, <2>1
  <2>7. QED
    BY <1>1, <1>2, <1>3, <1>4, <1>5, <2>1, <2>2, <2>3, <2>4, <2>5, <2>6,
       Others, LocalJobs
<1>10. QED BY <1>8, <1>9

\* The ended fiber of a callback is emptied: it has no open job.
LEMMA RecycleJobs ==
  ASSUME Safe, JobsInv, NEW t \in Threads, Recycle(t)
  PROVE  JobsInv'
<1>1. Safe' BY RecycleSafe
<1>2. /\ pc[t] = "recycle" /\ pc'[t] = "take" /\ mission[t].cb = NoJob
      /\ UNCHANGED <<missons, waiters, mission, budget, submitted, finished>>
  BY Own DEF Recycle, At, Goto, jobVars, TypeOK, JobsInv, CbAlone
<1>3. PICK f \in Fibers : f = cbFiber[t] /\ f \in Held(t) /\ fstate[f] \in Ended
  BY <1>2, Own DEF Inv, Shape, Held, WorkerKnows
<1>4. ~OnStack(f) BY <1>2, <1>3, OffStack
<1>5. Construct(f, NoJob) /\ cbFiber' = cbFiber
  BY <1>3, <1>4, Own, SafeOps DEF Recycle, Restable, Ended
<1>6. /\ fstate'[f] = "INIT" /\ fcb'[f] = NoJob /\ f \in Held(t)' /\ ~Live(f)
      /\ ~HasWork(f)'
      /\ \A g \in Fibers : g # f => fstate'[g] = fstate[g] /\ fcb'[g] = fcb[g]
  BY <1>2, <1>3, <1>5, Own DEF Construct, FiberTypeOK, Held, Live, HasWork
<1>7. \A j \in Jobs : budget'[j] <= budget[j]
  BY <1>2, SchedulerAssumption, Own DEF TypeOK
<1>8. \A j \in Open : j # NoJob BY NullAssumption, Own DEF Open, TypeOK
<1>9. \A g : ~KeptBy(t, g) BY <1>2, Own DEF KeptBy
<1>10. QED
  BY <1>1, <1>2, <1>3, <1>5, <1>6, <1>7, <1>8, <1>9, Others, LocalJobs

\* A job that is submitted was nowhere before.
LEMMA ScheduleJobs ==
  ASSUME Safe, JobsInv, \/ \E j \in Jobs : Submit(j)
                        \/ \E t \in Threads, j \in Jobs : Spawn(t, j)
  PROVE  JobsInv'
<1>1. PICK j \in Jobs :
        /\ missons' = Append(missons, CbMisson(j))
        /\ j \notin submitted /\ submitted' = submitted \cup {j}
  BY DEF Submit, Spawn, Schedule
<1>2. UNCHANGED <<fstate, fcb, mission, cbFiber, pc, budget, finished>>
  BY DEF Submit, Spawn, fiberVars, runVars
<1>3. /\ CbMisson(j) \in Misson /\ CbMisson(j).fiber = NoFiber
      /\ CbMisson(j).cb = j /\ CbMisson(j).thread = Pin[j] /\ j # NoJob
  BY SchedulerAssumption, NullAssumption DEF CbMisson, Misson
<1>4. missons \in Seq(Misson) BY Own DEF Safe, Inv, TypeOK
<1>5. /\ \A k \in DOMAIN missons : k \in DOMAIN missons' /\ missons'[k] = missons[k]
      /\ \E n \in DOMAIN missons' :
           /\ n \notin DOMAIN missons /\ missons'[n] = CbMisson(j)
           /\ DOMAIN missons' = DOMAIN missons \cup {n}
  <2>1. DOMAIN missons = 1..Len(missons) /\ DOMAIN missons' = 1..(Len(missons) + 1)
        /\ Len(missons) \in Nat
    BY <1>1, <1>3, <1>4, AppendEntries
  <2>2. DOMAIN missons' = DOMAIN missons \cup {Len(missons) + 1} BY <2>1
  <2>3. QED BY <1>1, <1>3, <1>4, <2>1, <2>2, AppendEntries
<1>6. PICK n \in DOMAIN missons' :
        /\ n \notin DOMAIN missons /\ missons'[n] = CbMisson(j)
        /\ DOMAIN missons' = DOMAIN missons \cup {n}
  BY <1>5
<1>7. Open' = Open \cup {j} /\ j \notin Open
  BY <1>1, <1>2 DEF Open, JobsInv, JobsOpen
<1>8. \A f : /\ Live(f)' = Live(f) /\ HasWork(f)' = HasWork(f)
             /\ Suspended(f)' = Suspended(f)
             /\ \A t : KeptBy(t, f)' = KeptBy(t, f) /\ Current(t)' = Current(t)
  BY <1>2 DEF Live, HasWork, KeptBy, Current, Suspended
<1>9. JobsOpen'
  BY <1>1, <1>2, <1>3, <1>5, <1>6, <1>7, <1>8 DEF JobsInv, JobsOpen
<1>10. JobsApart'
  <2>1. /\ \A i \in DOMAIN missons : missons[i].cb # j
        /\ \A t \in Threads : mission[t].cb # j
        /\ \A f \in Fibers : Live(f) => fcb[f] # j
    BY <1>3, <1>7 DEF JobsInv, JobsOpen
  <2>2. QED BY <1>2, <1>3, <1>5, <1>6, <1>8, <2>1 DEF JobsInv, JobsApart
<1>11. JobsKept'
  BY <1>2, <1>3, <1>5, <1>6, <1>7, <1>8 DEF JobsInv, JobsKept
<1>12. CbAlone' BY <1>2, <1>3, <1>5, <1>6 DEF JobsInv, CbAlone
<1>13. FibersKept' BY <1>2, <1>5, <1>8 DEF JobsInv, FibersKept
<1>14. PinKept'
  BY <1>2, <1>3, <1>5, <1>6, <1>8 DEF JobsInv, PinKept, Allowed
<1>15. QED BY <1>9, <1>10, <1>11, <1>12, <1>13, <1>14 DEF JobsInv

\* A READY fiber goes from its worker to the list, and its job with it.
LEMMA RequeueJobs ==
  ASSUME Safe, JobsInv, NEW t \in Threads, Requeue(t)
  PROVE  JobsInv'
<1>1. /\ pc[t] = "back" /\ pc' = [pc EXCEPT ![t] = "take"]
      /\ missons' = Append(missons, FiberMisson(Current(t)))
      /\ mission' = [mission EXCEPT ![t] = NoMisson]
      /\ UNCHANGED <<fstate, fcb, budget, submitted, finished>>
      /\ \A u \in Threads : u # t => cbFiber'[u] = cbFiber[u]
  BY Own DEF Requeue, At, Goto, Schedule, fiberVars, jobVars, TypeOK
<1>2. PICK f \in Fibers : f = Current(t)
  BY <1>1, Own DEF Inv, Shape, Current
<1>3. /\ FiberMisson(f) \in Misson /\ FiberMisson(f).fiber = f
      /\ FiberMisson(f).cb = NoJob
  BY DEF FiberMisson, Misson
<1>4. missons \in Seq(Misson) BY Own DEF Safe, Inv, TypeOK
<1>5. \E n \in DOMAIN missons' :
           /\ n \notin DOMAIN missons /\ missons'[n] = FiberMisson(f)
           /\ DOMAIN missons' = DOMAIN missons \cup {n}
           /\ \A k \in DOMAIN missons : missons'[k] = missons[k]
  <2>1. DOMAIN missons = 1..Len(missons) /\ DOMAIN missons' = 1..(Len(missons) + 1)
        /\ Len(missons) \in Nat
    BY <1>1, <1>2, <1>3, <1>4, AppendEntries
  <2>2. DOMAIN missons' = DOMAIN missons \cup {Len(missons) + 1} BY <2>1
  <2>3. QED BY <1>1, <1>2, <1>3, <1>4, <2>1, <2>2, AppendEntries
<1>6. PICK n \in DOMAIN missons' :
        /\ n \notin DOMAIN missons /\ missons'[n] = FiberMisson(f)
        /\ DOMAIN missons' = DOMAIN missons \cup {n}
        /\ \A k \in DOMAIN missons : missons'[k] = missons[k]
  BY <1>5
<1>7. Open' = Open BY <1>1 DEF Open
<1>8. /\ \A g : /\ Live(g)' = Live(g) /\ HasWork(g)' = HasWork(g)
                 /\ Suspended(g)' = Suspended(g)
      /\ \A u \in Threads : u # t =>
           /\ Current(u)' = Current(u) /\ pc'[u] = pc[u] /\ mission'[u] = mission[u]
           /\ \A g : KeptBy(u, g)' = KeptBy(u, g)
      /\ mission'[t] = NoMisson /\ NoMisson.cb = NoJob /\ mission[t].cb = NoJob
      /\ pc'[t] = "take"
      /\ \A g : KeptBy(t, g) => g = f
  BY <1>1, <1>2, Own
  DEF Live, HasWork, KeptBy, Current, Suspended, NoMisson, TypeOK, JobsInv, CbAlone
<1>9. JobsOpen'
  BY <1>1, <1>3, <1>6, <1>7, <1>8 DEF JobsInv, JobsOpen
<1>10. JobsApart'
  BY <1>1, <1>3, <1>6, <1>8 DEF JobsInv, JobsApart
<1>11. JobsKept'
  <2>1. \A j \in Open : j # NoJob BY NullAssumption, Own DEF Open, TypeOK
  <2>2. QED BY <1>1, <1>6, <1>7, <1>8, <2>1 DEF JobsInv, JobsKept
<1>12. CbAlone' BY <1>3, <1>6, <1>8 DEF JobsInv, CbAlone
<1>13. FibersKept'
  <2>1. ASSUME NEW g \in Fibers, HasWork(g)
        PROVE  \/ \E i \in DOMAIN missons' : missons'[i].fiber = g
               \/ \E u \in Threads : KeptBy(u, g)'
    <3>1. CASE g = f BY <1>3, <1>6, <3>1
    <3>2. CASE g # f
      <4>1. \/ \E i \in DOMAIN missons : missons[i].fiber = g
            \/ \E u \in Threads : u # t /\ KeptBy(u, g)
        BY <1>8, <2>1, <3>2 DEF JobsInv, FibersKept
      <4>2. QED BY <1>6, <1>8, <4>1
    <3>3. QED BY <3>1, <3>2
  <2>2. QED BY <1>1, <1>8, <2>1 DEF JobsInv, FibersKept
<1>14. PinKept'
  BY <1>1, <1>3, <1>6, <1>8 DEF JobsInv, PinKept, Allowed
<1>15. QED BY <1>9, <1>10, <1>11, <1>12, <1>13, <1>14 DEF JobsInv

\* A mission goes from the list to the worker that takes it.
LEMMA TakeJobs ==
  ASSUME Safe, JobsInv, NEW t \in Threads, Take(t)
  PROVE  JobsInv'
<1>1. PICK i \in DOMAIN missons :
        /\ Eligible(t, missons[i])
        /\ mission' = [mission EXCEPT ![t] = missons[i]]
        /\ missons' = RemoveAt(missons, i)
  BY DEF Take
<1>2. missons \in Seq(Misson) /\ missons[i] \in Misson /\ Len(missons) \in Nat
      /\ DOMAIN missons = 1..Len(missons)
  BY DEF Safe, Inv, TypeOK
<1>3. /\ DOMAIN missons' = 1..(Len(missons) - 1)
      /\ \A k \in 1..(Len(missons) - 1) :
           missons'[k] = missons[IF k < i THEN k ELSE k + 1]
  BY <1>1, <1>2, RemoveAtEntries
<1>4. /\ UNCHANGED <<fstate, fcb, cbFiber, budget, submitted, finished>>
      /\ pc[t] = "take" /\ pc'[t] = "dispatch" /\ mission'[t] = missons[i]
      /\ mission[t].cb = NoJob /\ mission[t].fiber = NoFiber
      /\ \A u \in Threads : u # t => pc'[u] = pc[u] /\ mission'[u] = mission[u]
  BY <1>1, Own DEF Take, At, Goto, fiberVars, jobVars, TypeOK, JobsInv, CbAlone, WorkerKnows
<1>5. /\ \A k \in DOMAIN missons' : \E l \in DOMAIN missons :
           l # i /\ missons'[k] = missons[l]
      /\ \A l \in DOMAIN missons : l # i =>
           \E k \in DOMAIN missons' : missons'[k] = missons[l]
  <2>1. ASSUME NEW l \in DOMAIN missons, l # i
        PROVE  \E k \in DOMAIN missons' : missons'[k] = missons[l]
    <3>1. CASE l < i BY <1>2, <1>3, <3>1
    <3>2. CASE l > i
      <4>1. l - 1 \in DOMAIN missons' /\ ~(l - 1 < i) /\ (l - 1) + 1 = l
        BY <1>2, <1>3, <3>2
      <4>2. missons'[l - 1] = missons[l] BY <1>3, <4>1
      <4>3. QED BY <4>1, <4>2
    <3>3. QED BY <1>2, <2>1, <3>1, <3>2
  <2>2. QED BY <1>2, <1>3, <2>1
<1>6. \A k, l \in DOMAIN missons' : k # l => \E a, b \in DOMAIN missons :
         a # b /\ missons'[k] = missons[a] /\ missons'[l] = missons[b]
  <2> SUFFICES ASSUME NEW k \in DOMAIN missons', NEW l \in DOMAIN missons', k # l
               PROVE  \E a, b \in DOMAIN missons :
                        a # b /\ missons'[k] = missons[a] /\ missons'[l] = missons[b]
    OBVIOUS
  <2> DEFINE a == IF k < i THEN k ELSE k + 1
             b == IF l < i THEN l ELSE l + 1
  <2>1. a \in DOMAIN missons /\ b \in DOMAIN missons /\ a # b BY <1>2, <1>3
  <2>2. missons'[k] = missons[a] /\ missons'[l] = missons[b] BY <1>3
  <2> HIDE DEF a, b
  <2>3. QED BY <2>1, <2>2
<1>7. Open' = Open BY <1>4 DEF Open
<1>8. /\ \A g : /\ Live(g)' = Live(g) /\ HasWork(g)' = HasWork(g)
                 /\ Suspended(g)' = Suspended(g)
      /\ \A u \in Threads : u # t =>
           Current(u)' = Current(u) /\ \A g : KeptBy(u, g)' = KeptBy(u, g)
      /\ \A g \in Fibers : ~KeptBy(t, g)
  BY <1>4 DEF Live, HasWork, KeptBy, Current, Suspended
<1>9. JobsOpen'
  BY <1>4, <1>5, <1>7, <1>8 DEF JobsInv, JobsOpen
<1>10. JobsApart'
  <2>1. \A k, l \in DOMAIN missons' :
          k # l /\ missons'[k].cb # NoJob => missons'[k].cb # missons'[l].cb
    BY <1>6 DEF JobsInv, JobsApart
  <2>2. \A u, v \in Threads : u # v /\ mission'[u].cb # NoJob => mission'[u].cb # mission'[v].cb
    BY <1>4 DEF JobsInv, JobsApart
  <2>3. \A k \in DOMAIN missons', u \in Threads :
          missons'[k].cb # NoJob => missons'[k].cb # mission'[u].cb
    BY <1>4, <1>5 DEF JobsInv, JobsApart
  <2>4. \A k \in DOMAIN missons', f \in Fibers :
          missons'[k].cb # NoJob /\ Live(f)' => missons'[k].cb # fcb'[f]
    BY <1>4, <1>5, <1>8 DEF JobsInv, JobsApart
  <2>5. \A u \in Threads, f \in Fibers :
          mission'[u].cb # NoJob /\ Live(f)' => mission'[u].cb # fcb'[f]
    BY <1>4, <1>8 DEF JobsInv, JobsApart
  <2>6. \A f, g \in Fibers :
          f # g /\ Live(f)' /\ Live(g)' /\ fcb'[f] # NoJob => fcb'[f] # fcb'[g]
    BY <1>4, <1>8 DEF JobsInv, JobsApart
  <2>7. QED BY <2>1, <2>2, <2>3, <2>4, <2>5, <2>6 DEF JobsApart
<1>11. JobsKept'
  <2>1. \A j \in Open : j # NoJob BY NullAssumption, Own DEF Open, TypeOK
  <2>2. ASSUME NEW j \in Open, NEW l \in DOMAIN missons, missons[l].cb = j
        PROVE  \/ \E k \in DOMAIN missons' : missons'[k].cb = j
               \/ \E u \in Threads : mission'[u].cb = j
    BY <1>4, <1>5, <2>2
  <2>3. QED BY <1>4, <1>7, <1>8, <2>1, <2>2 DEF JobsInv, JobsKept
<1>12. CbAlone' BY <1>4, <1>5 DEF JobsInv, CbAlone
<1>13. FibersKept'
  <2>1. ASSUME NEW g \in Fibers, HasWork(g)
        PROVE  \/ \E k \in DOMAIN missons' : missons'[k].fiber = g
               \/ \E u \in Threads : KeptBy(u, g)'
    <3>1. CASE missons[i].fiber = g
      <4>1. KeptBy(t, g)' BY <1>4, <3>1, NullAssumption DEF KeptBy, Current
      <4>2. QED BY <4>1
    <3>2. CASE missons[i].fiber # g
      <4>1. \/ \E l \in DOMAIN missons : l # i /\ missons[l].fiber = g
            \/ \E u \in Threads : u # t /\ KeptBy(u, g)
        BY <1>8, <2>1, <3>2 DEF JobsInv, FibersKept
      <4>2. QED BY <1>5, <1>8, <4>1
    <3>3. QED BY <3>1, <3>2
  <2>2. QED BY <1>4, <1>8, <2>1 DEF JobsInv, FibersKept
<1>14. PinKept'
  BY <1>1, <1>4, <1>5, <1>8 DEF JobsInv, PinKept, Allowed, Eligible
<1>15. QED BY <1>9, <1>10, <1>11, <1>12, <1>13, <1>14 DEF JobsInv

LEMMA NextJobs == Holding = {} /\ Safe /\ JobsInv /\ [Next]_vars => JobsInv'
<1> SUFFICES ASSUME Holding = {}, Safe, JobsInv, [Next]_vars PROVE JobsInv' OBVIOUS
<1>1. CASE UNCHANGED vars
  <2>1. UNCHANGED <<missons, fstate, fcb, mission, cbFiber, pc, budget, submitted, finished>>
    BY <1>1 DEF vars, fiberVars, runVars, jobVars
  <2>2. submitted \subseteq Jobs BY DEF Safe, Inv, TypeOK
  <2>3. ASSUME NEW t \in Threads
        PROVE  /\ Current(t)' = Current(t)
               /\ \A f \in Fibers : KeptBy(t, f) => KeptBy(t, f)'
    BY <2>1 DEF KeptBy, Current
  <2>4. \A t \in Threads : pc[t] \in {"enter", "run"} <=> pc'[t] \in {"enter", "run"}
    BY <2>1
  <2>5. QED BY <2>1, <2>2, <2>3, <2>4, QuietJobs
<1>2. CASE Owner BY <1>2, OwnerJobs
<1>3. CASE \/ \E j \in Jobs : Submit(j)
           \/ \E t \in Threads, j \in Jobs : Spawn(t, j)
  BY <1>3, ScheduleJobs
<1>4. CASE \E f \in Fibers : Resume(f)
  BY <1>4 DEF Resume, Safe
<1>5. ASSUME NEW t \in Threads, Worker(t) PROVE JobsInv'
  <2>1. CASE TakeNothing(t) \/ Idle(t) \/ DispatchFiber(t) \/ Back(t) \/ NotReady(t)
    BY <2>1, QuietWorkerJobs
  <2>2. ~Register(t) BY DEF Register
  <2>3. ~YieldToHold(t) BY Own DEF YieldToHold, At, WorkerKnows
  <2>4. QED BY <1>5, <2>1, <2>2, <2>3, TakeJobs, DropSafe, DispatchCbJobs,
               EnterJobs, LeaveJobs, RecycleJobs, RequeueJobs DEF Worker
<1>6. QED BY <1>1, <1>2, <1>3, <1>4, <1>5 DEF Next, Terminated

LEMMA SafeJobs == Holding = {} => (Spec => [](Safe /\ JobsInv))
<1> SUFFICES ASSUME Holding = {} PROVE Spec => [](Safe /\ JobsInv) OBVIOUS
<1>1. Init => Safe /\ JobsInv BY InitSafe, InitJobs
<1>2. Safe /\ JobsInv /\ [Next]_vars => (Safe /\ JobsInv)' BY NextSafe, NextJobs
<1>3. QED BY <1>1, <1>2, PTL DEF Spec

-----------------------------------------------------------------------------
\* A set with one element, whichever it is.
LEMMA JustOne ==
  ASSUME NEW S, NEW x \in S, \A y \in S : y = x
  PROVE  Cardinality(S) = 1
<1>1. S = {x} OBVIOUS
<1>2. QED BY <1>1, FS_Singleton

LEMMA WakersOne == Safe /\ JobsInv => OneWaker
<1> SUFFICES ASSUME Safe, JobsInv, NEW f \in Fibers, fstate[f] \in {"HOLD", "READY"}
             PROVE  Cardinality(Wakers(f)) = 1
  BY DEF OneWaker
<1>1. fstate[f] = "READY" /\ waiters = {} /\ f # NoFiber
  BY NullAssumption DEF JobsInv, FibersKept, Safe
<1>2. \A t \in Threads : Current(t) = f => f \in Held(t)
  BY <1>1 DEF Current, Held
<1> DEFINE L == {<<"list", i>> : i \in {k \in DOMAIN missons : missons[k].fiber = f}}
           T == {u \in Threads :
            /\ Current(u) = f
            /\ \/ pc[u] = "enter"
               \/ pc[u] = "dispatch" /\ mission[u].fiber = f
               \/ pc[u] \in {"leave", "back"} /\ fstate[f] = "READY"}
           W == {<<"worker", t>> : t \in T}
<1>3. Wakers(f) = L \cup W BY <1>1 DEF Wakers
<1>4. ASSUME NEW t \in Threads, KeptBy(t, f)
      PROVE  t \in T
  BY <1>1, <1>4, Own DEF KeptBy, WorkerKnows
<1>5. \E x : x \in Wakers(f)
  <2>1. \/ \E i \in DOMAIN missons : missons[i].fiber = f
        \/ \E t \in Threads : KeptBy(t, f)
    BY <1>1 DEF JobsInv, FibersKept, HasWork
  <2>2. ASSUME NEW i \in DOMAIN missons, missons[i].fiber = f
        PROVE  <<"list", i>> \in Wakers(f)
    BY <1>3, <2>2
  <2>3. ASSUME NEW t \in Threads, KeptBy(t, f)
        PROVE  <<"worker", t>> \in Wakers(f)
    BY <1>3, <1>4, <2>3
  <2>4. QED BY <2>1, <2>2, <2>3
<1>6. \A i, k \in DOMAIN missons :
        missons[i].fiber = f /\ missons[k].fiber = f => i = k
  BY <1>1 DEF Safe, ListOwned
<1>7. \A i \in DOMAIN missons, t \in T : missons[i].fiber # f
  BY <1>1, <1>2 DEF Safe, ListOwned
<1>8. \A t, u \in T : t = u
  BY <1>2 DEF Safe, WorkersOwn
<1>9. \A x, y \in Wakers(f) : x = y
  BY <1>3, <1>6, <1>7, <1>8
<1>10. QED BY <1>5, <1>9, JustOne

LEMMA PlacesOne == Safe /\ JobsInv => JobInOnePlace
<1> SUFFICES ASSUME Safe, JobsInv, NEW j \in Open
             PROVE  Cardinality({<<"list", i>> : i \in {k \in DOMAIN missons : missons[k].cb = j}}
                      \cup {<<"worker", t>> : t \in {u \in Threads : mission[u].cb = j}}
                      \cup {<<"fiber", f>> : f \in {g \in Fibers : fcb[g] = j
                                                        /\ fstate[g] \notin Ended}}) = 1
  BY DEF JobInOnePlace, Open
<1> DEFINE L == {<<"list", i>> : i \in {k \in DOMAIN missons : missons[k].cb = j}}
           W == {<<"worker", t>> : t \in {u \in Threads : mission[u].cb = j}}
           F == {<<"fiber", f>> : f \in {g \in Fibers : fcb[g] = j /\ fstate[g] \notin Ended}}
           P == L \cup W \cup F
<1>1. j # NoJob BY NullAssumption, Own DEF Open, Safe, Inv, TypeOK
<1>2. \E x : x \in P
  <2>1. ASSUME NEW i \in DOMAIN missons, missons[i].cb = j PROVE <<"list", i>> \in L BY <2>1
  <2>2. ASSUME NEW t \in Threads, mission[t].cb = j PROVE <<"worker", t>> \in W BY <2>2
  <2>3. ASSUME NEW f \in Fibers, Live(f), fcb[f] = j PROVE <<"fiber", f>> \in F
    BY <2>3 DEF Live
  <2>4. QED BY <2>1, <2>2, <2>3 DEF JobsInv, JobsKept
<1>3. /\ \A x, y \in L : x = y
      /\ \A x, y \in W : x = y
      /\ \A x, y \in F : x = y
  BY <1>1 DEF JobsInv, JobsApart, Live
<1>4. /\ \A x \in L, y \in W : FALSE
      /\ \A x \in L, y \in F : FALSE
      /\ \A x \in W, y \in F : FALSE
  BY <1>1 DEF JobsInv, JobsApart, Live
<1>5. \A x, y \in P : x = y BY <1>3, <1>4
<1> HIDE DEF L, W, F
<1>6. Cardinality(P) = 1 BY <1>2, <1>5, JustOne
<1>7. QED BY <1>6 DEF L, W, F

LEMMA PinOne == Safe /\ JobsInv => PinHonoured
<1> SUFFICES ASSUME Safe, JobsInv, NEW t \in Threads, InJob(t),
                    budget[Running(t)] = MaxYields
             PROVE  Pin[Running(t)] \in {AnyThread, t}
  BY DEF PinHonoured
<1>1. pc[t] = "run" /\ stack[t] = Current(t) /\ fcb[Current(t)] = Running(t)
      /\ Running(t) # NoJob
  BY Own DEF InJob, Running, WorkerKnows
<1>2. ~Suspended(Running(t)) BY SchedulerAssumption DEF Suspended
<1>3. QED BY <1>1, <1>2 DEF JobsInv, PinKept, Allowed

\* Without holding jobs, whatever is spawned or pinned: a suspended fiber is
\* resumed by exactly one waker (scheduler.cpp:160-215 puts a READY fiber back
\* once), a job that was scheduled is in exactly one place until it is over, and
\* it starts on the thread it was scheduled for.
THEOREM JobsInPlace ==
  ASSUME Holding = {}
  PROVE  Spec => [](OneWaker /\ JobInOnePlace /\ PinHonoured)
<1>1. Spec => [](Safe /\ JobsInv) BY SafeJobs
<1>2. Safe /\ JobsInv => OneWaker /\ JobInOnePlace /\ PinHonoured
  BY WakersOne, PlacesOne, PinOne
<1>3. QED BY <1>1, <1>2, PTL

-----------------------------------------------------------------------------
(* What stop() leaves behind.                                              *)

LEMMA InitLeaving == Init => Leaving
BY DEF Init, Leaving, Alive, RootToCome

LEMMA OwnerLeaving == Safe /\ Leaving /\ Owner => Leaving'
<1> SUFFICES ASSUME Safe, Leaving, Owner PROVE Leaving' OBVIOUS
<1>1. UNCHANGED <<missons, idleTerm, submitted>>
  BY DEF Owner, Start, Stop, SetStopping, CallRoot, RootBack, Join, runVars, jobVars
<1>2. pc \in [Threads -> WorkerPcs] BY Own, SchedulerAssumption DEF Safe, Inv, TypeOK
<1>3. CASE Start
  <2>1. /\ main = "new" /\ main' = "running" /\ autoStop' = autoStop /\ missons = <<>>
        /\ pc' = [t \in Threads |-> IF t \in Pool THEN "take" ELSE "off"]
        /\ \A t \in Threads : pc[t] = "off"
    BY <1>3 DEF Start, OwnerAt, Leaving, Safe, Inv, Shape
  <2>2. QED BY <1>1, <2>1 DEF Leaving, Alive, Pool
<1>4. CASE Stop
  <2>1. /\ main = "running" /\ main' \in {"early", "stopping"} /\ autoStop' /\ pc' = pc
        /\ main' = "early" => Pool = {}
    BY <1>4 DEF Stop, OwnerAt
  <2>2. QED BY <1>1, <2>1 DEF Leaving, Alive, RootToCome
<1>5. CASE SetStopping
  <2>1. /\ main \in {"early", "stopping"} /\ UNCHANGED <<pc, autoStop>>
        /\ main' = AfterStopping
    BY <1>5 DEF SetStopping, OwnerAt
  <2>2. CASE main' = "stopped"
    <3>1. main = "early" /\ missons = <<>>
      BY <2>1, <2>2 DEF AfterStopping
    <3>2. \A t \in Threads : t = Root /\ pc[t] = "off"
      BY <3>1 DEF Leaving, Pool, Safe, Inv, Shape
    <3>3. QED BY <1>1, <2>1, <2>2, <3>1, <3>2 DEF Leaving, Alive
  <2>3. CASE main' = "root"
    <3>1. Root \in Threads
      BY <2>1, <2>3, SchedulerAssumption DEF AfterStopping
    <3>2. QED BY <1>1, <2>1, <2>3, <3>1 DEF Leaving, Alive, RootToCome
  <2>4. CASE main' = "joining"
    <3>1. Root \notin Threads
      BY <2>1, <2>4, SchedulerAssumption DEF AfterStopping
    <3>2. QED BY <1>1, <2>1, <2>4, <3>1 DEF Leaving, Alive, RootToCome
  <2>5. QED BY <2>1, <2>2, <2>3, <2>4 DEF AfterStopping
<1>6. CASE CallRoot
  <2>1. main = "root" /\ autoStop' = autoStop /\ (Root \in Threads => pc[Root] = "off")
    BY <1>6 DEF CallRoot, OwnerAt, Safe, Inv, Shape
  <2>2. CASE CanStopNow
    <3>1. main' = "joining" /\ pc' = pc /\ missons = <<>>
      BY <1>6, <2>2 DEF CallRoot, CanStopNow
    <3>2. QED BY <1>1, <2>1, <3>1 DEF Leaving, Alive
  <2>3. CASE ~CanStopNow
    <3>1. main' = "calling" /\ pc' = [pc EXCEPT ![Root] = "take"]
      BY <1>6, <2>3 DEF CallRoot, Goto
    <3>2. /\ Root \in Threads => pc'[Root] = "take"
          /\ \A t \in Threads : t # Root => pc'[t] = pc[t]
      BY <1>2, <3>1
    <3>3. missons # <<>> => \E t \in Threads : Alive(t)'
      <4>1. ASSUME Root \in Threads PROVE Alive(Root)' BY <3>2, <4>1 DEF Alive
      <4>2. ASSUME missons # <<>>, Root \notin Threads
            PROVE  \E t \in Threads : Alive(t)'
        BY <3>2, <4>2 DEF Leaving, RootToCome, Alive
      <4>3. QED BY <4>1, <4>2
    <3>4. \A t \in Threads : pc'[t] = "done" => idleTerm[t]
      BY <3>2 DEF Leaving
    <3>5. \A t \in Pool : pc'[t] # "off"
      BY <2>1, <3>2 DEF Leaving, Pool
    <3>6. QED BY <1>1, <2>1, <3>1, <3>3, <3>4, <3>5 DEF Leaving
  <2>4. QED BY <2>2, <2>3
<1>7. CASE RootBack
  <2>1. main = "calling" /\ main' = "joining" /\ pc[Root] = "done" /\ UNCHANGED <<pc, autoStop>>
    BY <1>7 DEF RootBack, OwnerAt
  <2>2. QED BY <1>1, <2>1 DEF Leaving, Alive, RootToCome
<1>8. CASE Join
  <2>1. /\ main = "joining" /\ main' = "stopped" /\ UNCHANGED <<pc, autoStop>>
        /\ \A t \in Pool : pc[t] = "done"
    BY <1>8 DEF Join, OwnerAt
  <2>2. \A t \in Threads : ~Alive(t)
    BY <2>1 DEF Leaving, Alive, Pool
  <2>3. QED BY <1>1, <2>1, <2>2 DEF Leaving, Alive, RootToCome
<1>9. QED BY <1>3, <1>4, <1>5, <1>6, <1>7, <1>8 DEF Owner

\* A step of worker t that keeps it in run() and adds to the list only missions
\* for any worker.
LEMMA StayLeaving ==
  ASSUME Safe, Leaving, NEW t \in Threads, Alive(t), Alive(t)',
         UNCHANGED <<main, autoStop, submitted>>,
         \A u \in Threads : u # t => pc'[u] = pc[u] /\ idleTerm'[u] = idleTerm[u],
         idleTerm'[t] => idleTerm[t] \/ (autoStop /\ missons' = <<>>),
         \A i \in DOMAIN missons' : missons'[i].thread = AnyThread \/
            \E k \in DOMAIN missons : missons'[i] = missons[k]
  PROVE  Leaving'
<1>1. main # "new" BY DEF Alive, Safe, Inv, Shape
<1>2. main # "stopped" /\ (main = "joining" => t # Root) BY DEF Leaving
<1>3. \A u \in Threads : idleTerm'[u] => autoStop /\
        \A i \in DOMAIN missons' : missons'[i].thread = AnyThread
  BY DEF Leaving
<1>4. \A u \in Threads : pc'[u] = "done" => idleTerm'[u]
  BY DEF Leaving, Alive
<1>5. \A u \in Pool : pc'[u] # "off"
  BY <1>1 DEF Leaving, Alive, Pool
<1>6. main \in {"joining", "stopped"} /\ Root \in Threads => ~Alive(Root)'
  BY <1>2 DEF Leaving, Alive
<1>7. QED BY <1>1, <1>2, <1>3, <1>4, <1>5, <1>6 DEF Leaving

\* A worker leaves run() only when the list is empty.
LEMMA LastLook ==
  ASSUME Safe, Leaving, NEW t \in Threads, TakeNothing(t), idleTerm[t]
  PROVE  missons = <<>> /\ pc' = [pc EXCEPT ![t] = "done"]
<1>1. missons \in Seq(Misson) /\ \A i \in DOMAIN missons : missons[i].fiber # NoFiber =>
        fstate[missons[i].fiber] = "READY"
  BY DEF Safe, Inv, TypeOK, ListOwned
<1>2. \A i \in DOMAIN missons : Eligible(t, missons[i])
  BY <1>1 DEF Leaving, Eligible
<1>3. DOMAIN missons = {} BY <1>2 DEF TakeNothing
<1>4. missons = <<>> BY <1>1, <1>3
<1>5. QED BY <1>4 DEF TakeNothing, Goto

LEMMA WorkerLeaving ==
  ASSUME Safe, Leaving, NEW t \in Threads,
         Worker(t) /\ ~Register(t) /\ ~YieldToHold(t)
  PROVE  Leaving'
<1>1. CASE TakeNothing(t) /\ idleTerm[t]
  <2>1. /\ missons = <<>> /\ pc'[t] = "done" /\ pc[t] = "take"
        /\ \A u \in Threads : u # t => pc'[u] = pc[u]
        /\ UNCHANGED <<missons, idleTerm, autoStop, main, submitted>>
    BY <1>1, LastLook, Own DEF TakeNothing, At, TypeOK, runVars, stopVars, jobVars
  <2>2. main # "new" BY <2>1 DEF Safe, Inv, Shape
  <2>3. QED BY <1>1, <2>1, <2>2 DEF Leaving, Alive, Pool
<1>2. CASE TakeNothing(t) /\ ~idleTerm[t]
  <2>1. /\ pc[t] = "take" /\ pc'[t] = "idle" /\ \A u \in Threads : u # t => pc'[u] = pc[u]
        /\ UNCHANGED <<missons, idleTerm, autoStop, main, submitted>>
    BY <1>2, Own DEF TakeNothing, At, Goto, TypeOK, runVars, stopVars, jobVars
  <2>2. QED BY <2>1, StayLeaving DEF Alive
<1>3. CASE Idle(t)
  <2>1. /\ pc[t] = "idle" /\ pc'[t] = "take"
        /\ idleTerm'[t] => autoStop /\ missons = <<>>
        /\ \A u \in Threads : u # t => pc'[u] = pc[u] /\ idleTerm'[u] = idleTerm[u]
        /\ UNCHANGED <<missons, autoStop, main, submitted>>
    BY <1>3, Own DEF Idle, At, Goto, TypeOK, stopVars, jobVars, CanStopNow
  <2>2. QED BY <2>1, StayLeaving DEF Alive
<1>4. CASE Take(t)
  <2>1. PICK i \in DOMAIN missons : missons' = RemoveAt(missons, i)
    BY <1>4 DEF Take
  <2>2. missons \in Seq(Misson) BY DEF Safe, Inv, TypeOK
  <2>3. \A k \in DOMAIN missons' : \E l \in DOMAIN missons : missons'[k] = missons[l]
    BY <2>1, <2>2, RemoveAtEntries
  <2>4. /\ pc[t] = "take" /\ pc'[t] = "dispatch" /\ \A u \in Threads : u # t => pc'[u] = pc[u]
        /\ UNCHANGED <<idleTerm, autoStop, main, submitted>>
    BY <1>4, Own DEF Take, At, Goto, TypeOK, stopVars, jobVars
  <2>5. QED BY <2>3, <2>4, StayLeaving DEF Alive
<1>5. CASE Requeue(t)
  <2>1. /\ missons' = Append(missons, FiberMisson(Current(t))) /\ missons \in Seq(Misson)
        /\ Current(t) \in Fibers
    BY <1>5, Own DEF Requeue, Schedule, At, Safe, Inv, Shape, TypeOK, Current
  <2>2. FiberMisson(Current(t)).thread = AnyThread /\ FiberMisson(Current(t)) \in Misson
    BY <2>1 DEF FiberMisson, Misson
  <2>3. \A k \in DOMAIN missons' : missons'[k].thread = AnyThread \/
          \E l \in DOMAIN missons : missons'[k] = missons[l]
    <3>1. ASSUME NEW k \in DOMAIN missons'
          PROVE  k \in DOMAIN missons \/ k = Len(missons) + 1
      BY <2>1, <2>2, AppendEntries
    <3>2. QED BY <2>1, <2>2, <3>1, AppendEntries
  <2>4. /\ pc[t] = "back" /\ pc'[t] = "take" /\ \A u \in Threads : u # t => pc'[u] = pc[u]
        /\ UNCHANGED <<idleTerm, autoStop, main, submitted>>
    BY <1>5, Own DEF Requeue, At, Goto, TypeOK, stopVars, jobVars
  <2>5. QED BY <2>3, <2>4, StayLeaving DEF Alive
<1>6. CASE \/ Drop(t) \/ DispatchFiber(t) \/ DispatchCb(t) \/ Enter(t) \/ Back(t)
           \/ NotReady(t) \/ Recycle(t) \/ YieldToReady(t) \/ Finish(t)
  <2>1. /\ pc[t] \notin {"off", "done"} /\ pc'[t] \notin {"off", "done"}
        /\ \A u \in Threads : u # t => pc'[u] = pc[u]
        /\ UNCHANGED <<missons, idleTerm, autoStop, main, submitted>>
    BY <1>6, Own DEF Drop, DispatchFiber, DispatchCb, Enter, Back, NotReady, Recycle,
       YieldToReady, Finish, At, Goto, TypeOK, runVars, stopVars, jobVars
  <2>2. QED BY <2>1, StayLeaving DEF Alive
<1>7. QED BY <1>1, <1>2, <1>3, <1>4, <1>5, <1>6 DEF Worker

\* The owner submits before stop(), when no worker has left; a job submits for
\* any worker.
LEMMA ScheduleLeaving ==
  ASSUME Unpinned, Safe, Leaving,
         \/ \E j \in Jobs : Submit(j)
         \/ \E t \in Threads, j \in Jobs : Spawn(t, j)
  PROVE  Leaving'
<1>1. ASSUME NEW j \in Jobs, Submit(j) PROVE Leaving'
  <2>1. /\ main = "running" /\ ~autoStop
        /\ UNCHANGED <<main, autoStop, pc, idleTerm>>
    BY <1>1 DEF Submit, OwnerAt, stopVars, runVars, Leaving
  <2>2. \A t \in Threads : ~idleTerm[t] /\ pc[t] # "done" BY <2>1 DEF Leaving
  <2>3. RootToCome \/ \E t \in Threads : Alive(t)
    <3>1. ASSUME Root \notin Threads PROVE \E t \in Threads : Alive(t)
      BY <2>1, <2>2, <3>1, SchedulerAssumption DEF Leaving, Alive, Pool
    <3>2. QED BY <2>1, <3>1 DEF RootToCome
  <2>4. QED BY <2>1, <2>2, <2>3 DEF Leaving, Alive, RootToCome
<1>2. ASSUME NEW t \in Threads, NEW j \in Jobs, Spawn(t, j) PROVE Leaving'
  <2>1. /\ missons' = Append(missons, CbMisson(j)) /\ j \in Spawned
        /\ pc[t] = "run" /\ UNCHANGED <<main, autoStop, pc, idleTerm>>
    BY <1>2 DEF Spawn, Schedule, At, stopVars, runVars
  <2>2. CbMisson(j).thread = AnyThread /\ CbMisson(j) \in Misson
    BY <2>1, SchedulerAssumption DEF CbMisson, Misson, Unpinned
  <2>3. missons \in Seq(Misson) BY DEF Safe, Inv, TypeOK
  <2>4. \A i \in DOMAIN missons' : missons'[i].thread = AnyThread \/
          \E k \in DOMAIN missons : missons'[i] = missons[k]
    <3>1. ASSUME NEW k \in DOMAIN missons'
          PROVE  k \in DOMAIN missons \/ k = Len(missons) + 1
      BY <2>1, <2>2, <2>3, AppendEntries
    <3>2. QED BY <2>1, <2>2, <2>3, <3>1, AppendEntries
  <2>5. main # "new" /\ Alive(t) BY <2>1 DEF Safe, Inv, Shape, Alive
  <2>6. \A u \in Threads : idleTerm[u] =>
          autoStop /\ \A i \in DOMAIN missons' : missons'[i].thread = AnyThread
    BY <2>4 DEF Leaving
  <2>7. QED BY <2>1, <2>5, <2>6 DEF Leaving, Alive
<1>3. QED BY <1>1, <1>2

LEMMA NextLeaving ==
  Holding = {} /\ Unpinned /\ Safe /\ Leaving /\ [Next]_vars => Leaving'
<1> SUFFICES ASSUME Holding = {}, Unpinned, Safe, Leaving, [Next]_vars PROVE Leaving' OBVIOUS
<1>1. CASE UNCHANGED vars
  BY <1>1 DEF vars, stopVars, runVars, jobVars, Leaving, Alive, RootToCome
<1>2. CASE Owner BY <1>2, OwnerLeaving
<1>3. CASE \/ \E j \in Jobs : Submit(j)
           \/ \E t \in Threads, j \in Jobs : Spawn(t, j)
  BY <1>3, ScheduleLeaving
<1>4. CASE \E f \in Fibers : Resume(f)
  BY <1>4 DEF Resume, Safe
<1>5. ASSUME NEW t \in Threads, Worker(t) PROVE Leaving'
  <2>1. ~Register(t) BY DEF Register
  <2>2. ~YieldToHold(t) BY Own DEF YieldToHold, At, WorkerKnows
  <2>3. QED BY <1>5, <2>1, <2>2, WorkerLeaving
<1>6. QED BY <1>1, <1>2, <1>3, <1>4, <1>5 DEF Next, Terminated

LEMMA SpecLeaving ==
  Holding = {} /\ Unpinned => (Spec => [](Safe /\ JobsInv /\ Leaving))
<1> SUFFICES ASSUME Holding = {}, Unpinned PROVE Spec => [](Safe /\ JobsInv /\ Leaving)
  OBVIOUS
<1>1. Init => Leaving BY InitLeaving
<1>2. Safe /\ Leaving /\ [Next]_vars => Leaving' BY NextLeaving
<1>3. Spec => [](Safe /\ JobsInv) BY SafeJobs
<1>4. QED BY <1>1, <1>2, <1>3, PTL DEF Spec

\* With every worker gone and the list empty there is no place left for a job.
LEMMA NobodyLeft == Safe /\ JobsInv /\ Leaving => StopDrains
<1> SUFFICES ASSUME Safe, JobsInv, Leaving, main = "stopped"
             PROVE  /\ missons = <<>>
                    /\ submitted = finished
                    /\ \A t \in Threads : pc[t] \in {"off", "done"}
  BY DEF StopDrains
<1>1. \A t \in Threads : ~Alive(t) BY DEF Leaving
<1>2. missons = <<>> BY <1>1 DEF Leaving, RootToCome
<1>3. DOMAIN missons = {} BY <1>2
<1>4. ASSUME NEW f \in Fibers, Live(f), fcb[f] # NoJob PROVE FALSE
  <2>1. fstate[f] \in States BY Own DEF Safe, Inv, TypeOK, FiberTypeOK
  <2>2. HasWork(f)
    BY <1>4, <2>1 DEF JobsInv, FibersKept, HasWork, Live, Ended, States
  <2>3. PICK t \in Threads : KeptBy(t, f)
    BY <1>3, <2>2 DEF JobsInv, FibersKept
  <2>4. QED BY <1>1, <2>3 DEF KeptBy, Alive
<1>5. ASSUME NEW t \in Threads, mission[t].cb # NoJob PROVE FALSE
  BY <1>1, <1>5 DEF JobsInv, CbAlone, Alive
<1>6. \A j \in Open : j # NoJob BY NullAssumption DEF Open, Safe, Inv, TypeOK
<1>7. Open = {} BY <1>3, <1>4, <1>5, <1>6 DEF JobsInv, JobsKept
<1>8. submitted = finished BY <1>7 DEF Open, JobsInv, JobsOpen
<1>9. QED BY <1>1, <1>2, <1>8 DEF Alive

\* stop() returns only when every job that was ever scheduled is over, the list
\* is empty and no worker is left in run() (scheduler.cpp:80-124), as long as
\* jobs submitted by jobs are not pinned: a worker whose idle fiber has returned
\* would leave such a job behind.
THEOREM StopLeavesNothing ==
  ASSUME Holding = {}, Unpinned
  PROVE  Spec => []StopDrains
<1>1. Spec => [](Safe /\ JobsInv /\ Leaving) BY SpecLeaving
<1>2. QED BY <1>1, NobodyLeft, PTL

-----------------------------------------------------------------------------
(* The scheduler implements TaskPool.                                      *)

\* The job worker t is executing a slice of.
Runs(t) == IF InJob(t) THEN Running(t) ELSE NoJob

\* A running job is open, and one worker runs it.
LEMMA RunsOpen ==
  ASSUME Safe, JobsInv, NEW t \in Threads, Runs(t) # NoJob
  PROVE  /\ pc[t] = "run" /\ Runs(t) \in Open
         /\ \A f \in Fibers : Live(f) /\ fcb[f] = Runs(t) => f \in Held(t)
<1>1. pc[t] = "run" /\ Runs(t) = fcb[stack[t]] /\ stack[t] = Current(t)
  BY Own DEF Runs, InJob, Running, WorkerKnows
<1>2. PICK f \in Fibers : f = stack[t] /\ f \in Held(t) /\ fstate[f] = "EXEC"
  BY <1>1, Own DEF Inv, Shape, Current, Held, WorkerKnows
<1>3. Live(f) /\ fcb[f] = Runs(t) BY <1>1, <1>2 DEF Live, Ended
<1>4. fcb[f] \in Open BY <1>3 DEF JobsInv, JobsOpen
<1>5. \A g \in Fibers : Live(g) /\ fcb[g] = Runs(t) => g = f
  BY <1>3 DEF JobsInv, JobsApart
<1>6. QED BY <1>1, <1>2, <1>3, <1>4, <1>5

LEMMA RunsApart ==
  ASSUME Safe, JobsInv, NEW t \in Threads, NEW u \in Threads,
         Runs(t) # NoJob, Runs(t) = Runs(u)
  PROVE  t = u
<1>1. PICK f \in Fibers : f = stack[t] /\ Live(f) /\ fcb[f] = Runs(t)
  BY Own DEF Runs, InJob, Running, WorkerKnows, Inv, Shape, Current, Live, Ended
<1>2. f \in Held(t) /\ f \in Held(u) BY <1>1, RunsOpen
<1>3. QED BY <1>2 DEF Safe, WorkersOwn

\* The stages of a job, by who runs it.
Stage(j) ==
  IF j \notin submitted THEN "new"
  ELSE IF j \in finished THEN "over"
  ELSE IF \E t \in Threads : Runs(t) = j THEN "running" ELSE "ready"

LEMMA StageIs == Safe /\ JobsInv => \A j \in Jobs : JobState(j) = Stage(j)
<1> SUFFICES ASSUME Safe, JobsInv, NEW j \in Jobs PROVE JobState(j) = Stage(j) OBVIOUS
<1>1. (\E t \in Threads : InJob(t) /\ Running(t) = j) <=> \E t \in Threads : Runs(t) = j
  BY NullAssumption DEF Runs
<1>2. (\E t \in Threads : Runs(t) = j) => j \in submitted /\ j \notin finished
  BY NullAssumption, RunsOpen DEF Open
<1>3. j \in finished => j \in submitted BY DEF JobsInv, JobsOpen
<1>4. CASE j \notin submitted BY <1>1, <1>2, <1>3, <1>4 DEF JobState, Stage
<1>5. CASE j \in finished BY <1>1, <1>2, <1>3, <1>5 DEF JobState, Stage
<1>6. CASE j \in submitted /\ j \notin finished /\ \E t \in Threads : Runs(t) = j
  BY <1>1, <1>6 DEF JobState, Stage
<1>7. CASE j \in submitted /\ j \notin finished /\ ~\E t \in Threads : Runs(t) = j
  BY <1>1, <1>7 DEF JobState, Stage
<1>8. QED BY <1>4, <1>5, <1>6, <1>7

Stages  == [j \in Jobs |-> Stage(j)]
Slices  == [t \in Threads |-> Runs(t)]
Stopped == main = "stopped"

\* The variables of TaskPool are these.
PoolSeen ==
  /\ [j \in Jobs |-> JobState(j)] = Stages
  /\ [t \in Threads |-> IF InJob(t) THEN Running(t) ELSE NoJob] = Slices
  /\ (main = "stopped") = Stopped

LEMMA PoolIsSeen == Safe /\ JobsInv => PoolSeen
BY StageIs DEF PoolSeen, Stages, Slices, Stopped, Runs

LEMMA PoolIsSeenNext == (Safe /\ JobsInv => PoolSeen)'
BY PoolIsSeen, PTL

LEMMA PoolVars ==
  ASSUME Safe, JobsInv, Safe', JobsInv'
  PROVE  /\ [j \in Jobs |-> JobState(j)] = Stages
         /\ [j \in Jobs |-> JobState(j)]' = Stages'
         /\ [t \in Threads |-> IF InJob(t) THEN Running(t) ELSE NoJob] = Slices
         /\ [t \in Threads |-> IF InJob(t) THEN Running(t) ELSE NoJob]' = Slices'
         /\ (main = "stopped") = Stopped
         /\ (main = "stopped")' = Stopped'
BY PoolIsSeen, PoolIsSeenNext DEF PoolSeen

\* A step that changes no job's stage and no worker's slice.
LEMMA StutterStep ==
  ASSUME Safe, JobsInv, Safe', JobsInv', UNCHANGED <<submitted, finished, Stopped>>,
         \A t \in Threads : Runs(t)' = Runs(t)
  PROVE  UNCHANGED Pools!poolVars
<1>1. Stages' = Stages /\ Slices' = Slices BY DEF Stages, Stage, Slices
<1>2. QED BY <1>1, PoolVars DEF Pools!poolVars

LEMMA AcceptStep ==
  ASSUME Safe, JobsInv, Safe', JobsInv', NEW j \in Jobs, j \notin submitted,
         submitted' = submitted \cup {j}, finished' = finished,
         Stopped' = Stopped, ~Stopped,
         \A t \in Threads : Runs(t)' = Runs(t)
  PROVE  Pools!Accept(j)
<1>1. \A t \in Threads : Runs(t) # j BY RunsOpen, NullAssumption DEF Open
<1>2. j \notin finished BY DEF JobsInv, JobsOpen
<1>3. Stages[j] = "new" /\ Stages' = [Stages EXCEPT ![j] = "ready"]
  BY <1>1, <1>2 DEF Stages, Stage
<1>4. Slices' = Slices BY DEF Slices
<1>5. QED BY <1>3, <1>4, PoolVars DEF Pools!Accept

LEMMA BeginStep ==
  ASSUME Safe, JobsInv, Safe', JobsInv', NEW t \in Threads, NEW j \in Jobs,
         UNCHANGED <<submitted, finished, Stopped>>, j \in Open,
         Runs(t) = NoJob, Runs(t)' = j,
         \A u \in Threads : Runs(u) # j,
         \A u \in Threads : u # t => Runs(u)' = Runs(u)
  PROVE  Pools!Begin(t, j)
<1>1. Stages[j] = "ready" /\ Stages' = [Stages EXCEPT ![j] = "running"]
  <2>1. \A i \in Jobs : i # j => Stage(i)' = Stage(i)
    BY NullAssumption DEF Stage
  <2>2. Stage(j) = "ready" /\ Stage(j)' = "running" BY DEF Stage, Open
  <2>3. QED BY <2>1, <2>2 DEF Stages
<1>2. Slices[t] = NoJob /\ Slices' = [Slices EXCEPT ![t] = j] BY DEF Slices
<1>3. Stopped' = Stopped OBVIOUS
<1>4. QED BY <1>1, <1>2, <1>3, PoolVars DEF Pools!Begin

LEMMA EndStep ==
  ASSUME Safe, JobsInv, Safe', JobsInv', NEW t \in Threads, NEW j \in Jobs,
         UNCHANGED <<submitted, Stopped>>,
         Runs(t) = j, Runs(t)' = NoJob,
         NEW s \in {"ready", "over"},
         finished' = IF s = "over" THEN finished \cup {j} ELSE finished,
         \A u \in Threads : u # t => Runs(u)' = Runs(u)
  PROVE  Pools!End(t, s)
<1>1. j # NoJob /\ j \in Open BY NullAssumption, RunsOpen
<1>2. \A u \in Threads : u # t => Runs(u) # j BY <1>1, RunsApart
<1>3. Stages' = [Stages EXCEPT ![j] = s]
  <2>1. \A i \in Jobs : i # j => Stage(i)' = Stage(i)
    BY NullAssumption DEF Stage
  <2>2. Stage(j)' = s BY <1>1, <1>2, NullAssumption DEF Stage, Open
  <2>3. QED BY <2>1, <2>2 DEF Stages
<1>4. Slices[t] = j /\ Slices' = [Slices EXCEPT ![t] = NoJob] BY DEF Slices
<1>5. QED BY <1>1, <1>3, <1>4, PoolVars DEF Pools!End

LEMMA StoppedStep ==
  ASSUME Safe, JobsInv, Safe', JobsInv', StopDrains', ~Stopped, Stopped',
         UNCHANGED <<submitted, finished>>,
         \A t \in Threads : Runs(t)' = Runs(t)
  PROVE  Pools!StopReturn
<1>1. submitted = finished BY DEF Stopped, StopDrains
<1>2. \A j \in Jobs : Stages[j] \in {"new", "over"} BY <1>1 DEF Stages, Stage
<1>3. Stages' = Stages /\ Slices' = Slices BY DEF Stages, Stage, Slices
<1>4. QED BY <1>2, <1>3, PoolVars DEF Pools!StopReturn, Stopped

LEMMA RunsIs ==
  Safe => \A t \in Threads :
            Runs(t) = IF pc[t] = "run" THEN fcb[Current(t)] ELSE NoJob
<1> SUFFICES ASSUME Safe, NEW t \in Threads
             PROVE  Runs(t) = IF pc[t] = "run" THEN fcb[Current(t)] ELSE NoJob
  OBVIOUS
<1>1. QED BY Own DEF Runs, InJob, Running, WorkerKnows

LEMMA RunsIsNext ==
  (Safe => \A t \in Threads :
            Runs(t) = IF pc[t] = "run" THEN fcb[Current(t)] ELSE NoJob)'
BY RunsIs, PTL

\* A worker that does not step keeps its slice if the fiber of its job keeps it.
LEMMA RunsKept ==
  ASSUME Safe, Safe', NEW u \in Threads,
         pc'[u] = pc[u], mission'[u] = mission[u], cbFiber'[u] = cbFiber[u],
         \A f \in Fibers : f \in Held(u) => fcb'[f] = fcb[f]
  PROVE  Runs(u)' = Runs(u)
<1>1. Current(u)' = Current(u) BY DEF Current
<1>2. pc[u] = "run" => Current(u) \in Fibers /\ Current(u) \in Held(u)
  BY Own DEF Inv, Shape, Current, Held
<1>3. pc[u] = "run" => fcb'[Current(u)] = fcb[Current(u)] BY <1>2
<1>4. /\ Runs(u) = IF pc[u] = "run" THEN fcb[Current(u)] ELSE NoJob
      /\ Runs(u)' = IF pc'[u] = "run" THEN fcb'[Current(u)'] ELSE NoJob
  BY RunsIs, RunsIsNext
<1>5. QED BY <1>1, <1>3, <1>4

\* A step of worker t that changes no fiber of another worker.
LEMMA OthersRun ==
  ASSUME Safe, Safe', NEW t \in Threads,
         \A u \in Threads : u # t =>
            pc'[u] = pc[u] /\ mission'[u] = mission[u] /\ cbFiber'[u] = cbFiber[u],
         \A f \in Fibers : f \notin Held(t)' => fcb'[f] = fcb[f]
  PROVE  \A u \in Threads : u # t => Runs(u)' = Runs(u)
<1> SUFFICES ASSUME NEW u \in Threads, u # t PROVE Runs(u)' = Runs(u) OBVIOUS
<1>1. Held(u)' = Held(u) BY DEF Held
<1>2. \A f \in Fibers : f \in Held(u) => f \notin Held(t)'
  BY <1>1 DEF Safe, WorkersOwn
<1>3. QED BY <1>2, RunsKept

LEMMA OwnerPool ==
  ASSUME Safe, JobsInv, Safe', JobsInv', StopDrains', Owner
  PROVE  [Pools!PoolNext]_(Pools!poolVars)
<1>1. UNCHANGED <<fcb, mission, cbFiber, submitted, finished>>
  BY DEF Owner, Start, Stop, SetStopping, CallRoot, RootBack, Join, fiberVars, runVars, jobVars
<1>2. \A t \in Threads : pc'[t] = pc[t] \/ (pc[t] = "off" /\ pc'[t] = "take")
  BY DEF Owner, Start, Stop, SetStopping, AfterStopping, CallRoot, RootBack, Join,
         Safe, Inv, TypeOK, Shape, Goto, OwnerAt, Pool
<1>3. ASSUME NEW t \in Threads PROVE Runs(t)' = Runs(t)
  <2>1. CASE pc'[t] = pc[t] BY <1>1, <2>1, RunsKept
  <2>2. CASE pc[t] = "off" /\ pc'[t] = "take" BY <2>2, RunsIs, RunsIsNext
  <2>3. QED BY <1>2, <2>1, <2>2
<1>4. ~Stopped
  BY DEF Owner, Start, Stop, SetStopping, CallRoot, RootBack, Join, OwnerAt, Stopped
<1>5. CASE ~Stopped'
  BY <1>1, <1>3, <1>4, <1>5, StutterStep DEF Stopped
<1>6. CASE Stopped'
  BY <1>1, <1>3, <1>4, <1>6, StoppedStep DEF Pools!PoolNext
<1>7. QED BY <1>5, <1>6

LEMMA SchedulePool ==
  ASSUME Safe, JobsInv, Leaving, Safe', JobsInv',
         \/ \E j \in Jobs : Submit(j)
         \/ \E t \in Threads, j \in Jobs : Spawn(t, j)
  PROVE  Pools!PoolNext
<1>1. UNCHANGED <<fcb, mission, cbFiber, pc, finished, main>>
  BY DEF Submit, Spawn, fiberVars, runVars, stopVars
<1>2. \A t \in Threads : Runs(t)' = Runs(t) BY <1>1, RunsKept
<1>3. main # "stopped"
  BY DEF Submit, Spawn, OwnerAt, At, Leaving, Alive
<1>4. PICK j \in Jobs : j \notin submitted /\ submitted' = submitted \cup {j}
  BY DEF Submit, Spawn
<1>5. Pools!Accept(j) BY <1>1, <1>2, <1>3, <1>4, AcceptStep DEF Stopped
<1>6. QED BY <1>5 DEF Pools!PoolNext

\* Steps of a worker outside the jobs.
LEMMA QuietPool ==
  ASSUME Safe, JobsInv, Safe', JobsInv', NEW t \in Threads,
         \/ Take(t) \/ TakeNothing(t) \/ Idle(t) \/ Drop(t) \/ DispatchFiber(t)
         \/ DispatchCb(t) \/ Back(t) \/ Requeue(t) \/ NotReady(t) \/ Recycle(t)
  PROVE  UNCHANGED Pools!poolVars
<1>1. /\ pc[t] # "run" /\ pc'[t] # "run"
      /\ \A u \in Threads : u # t => pc'[u] = pc[u] /\ mission'[u] = mission[u]
      /\ UNCHANGED <<submitted, finished, main>>
  BY Own DEF Take, TakeNothing, Idle, Drop, DispatchFiber, DispatchCb, Back, Requeue,
             NotReady, Recycle, At, Goto, runVars, stopVars, jobVars, TypeOK
<1>2. \A u \in Threads : u # t => cbFiber'[u] = cbFiber[u]
  BY Own DEF Take, TakeNothing, Idle, Drop, DispatchFiber, DispatchCb, Back, Requeue,
             NotReady, Recycle, runVars, TypeOK
<1>3. \A f \in Fibers : f \notin Held(t)' => fcb'[f] = fcb[f]
  <2>1. CASE \/ Take(t) \/ TakeNothing(t) \/ Idle(t) \/ Drop(t) \/ DispatchFiber(t)
             \/ Back(t) \/ Requeue(t) \/ NotReady(t)
    BY <2>1 DEF Take, TakeNothing, Idle, Drop, DispatchFiber, Back, Requeue,
                NotReady, fiberVars, SwapOut
  <2>2. ASSUME NEW g \in Fibers \cup {NoFiber}, NEW j,
               Construct(g, j) \/ Reset(g, j), cbFiber'[t] = g, NEW f \in Fibers, f \notin Held(t)'
        PROVE  fcb'[f] = fcb[f]
    BY <2>2, Own, NullAssumption
    DEF Held, Construct, Reset, Abort, Clobber, FiberTypeOK
  <2>3. CASE DispatchCb(t)
    <3>1. CASE cbFiber[t] # NoFiber BY <2>2, <2>3, <3>1, Own DEF DispatchCb
    <3>2. CASE cbFiber[t] = NoFiber
      <4>1. PICK g \in Fibers : Construct(g, mission[t].cb) /\ cbFiber' = [cbFiber EXCEPT ![t] = g]
        BY <2>3, <3>2 DEF DispatchCb
      <4>2. cbFiber'[t] = g BY <4>1, Own DEF TypeOK
      <4>3. QED BY <2>2, <4>1, <4>2
    <3>3. QED BY <3>1, <3>2
  <2>4. CASE Recycle(t) BY <2>2, <2>4, Own DEF Recycle, fiberVars
  <2>5. QED BY <2>1, <2>3, <2>4
<1>4. \A u \in Threads : u # t => Runs(u)' = Runs(u) BY <1>1, <1>2, <1>3, OthersRun
<1>5. Runs(t) = NoJob /\ Runs(t)' = NoJob BY <1>1, RunsIs, RunsIsNext
<1>6. QED BY <1>1, <1>4, <1>5, StutterStep DEF Stopped

\* Entering a fiber begins a slice of its job.
LEMMA EnterPool ==
  ASSUME Safe, JobsInv, Safe', JobsInv', NEW t \in Threads, Enter(t)
  PROVE  [Pools!PoolNext]_(Pools!poolVars)
<1>1. /\ pc[t] = "enter" /\ pc'[t] = "run" /\ SwapIn(t, Current(t))
      /\ UNCHANGED <<missons, mission, cbFiber, submitted, finished, main>>
      /\ \A u \in Threads : u # t => pc'[u] = pc[u]
  BY Own DEF Enter, At, Goto, runVars, stopVars, jobVars, TypeOK
<1>2. PICK f \in Fibers : f = Current(t) /\ f \in Held(t)
  BY <1>1, Own DEF Inv, Shape, Current, Held
<1>3. Live(f) /\ Current(t)' = f /\ fcb' = fcb
  <2>1. fstate[f] \in {"INIT", "READY"}
    BY <1>1, <1>2, NullAssumption, Own DEF WorkerKnows, Current
  <2>2. ~OnStack(f) BY <1>1, <1>2, OffStack
  <2>3. fcb' = fcb BY <1>1, <1>2, <2>1, <2>2 DEF SwapIn, Ended, Abort, Clobber
  <2>4. QED BY <1>1, <1>2, <2>1, <2>3 DEF Live, Ended, Current
<1>4. \A u \in Threads : u # t => Runs(u)' = Runs(u)
  BY <1>1, <1>3, OthersRun
<1>5. Runs(t) = NoJob /\ Runs(t)' = fcb[f]
  BY <1>1, <1>3, RunsIs, RunsIsNext
<1>6. CASE fcb[f] = NoJob
  BY <1>1, <1>4, <1>5, <1>6, StutterStep DEF Stopped
<1>7. CASE fcb[f] # NoJob
  <2>1. PICK j \in Jobs : j = fcb[f] /\ j \in Open
    BY <1>3, <1>7, Own DEF JobsInv, JobsOpen, Open, TypeOK
  <2>2. ASSUME NEW u \in Threads, Runs(u) = j PROVE FALSE
    <3>1. f \in Held(u) /\ pc[u] = "run" BY <1>3, <1>7, <2>1, <2>2, RunsOpen
    <3>2. u # t BY <1>1, <3>1
    <3>3. QED BY <1>2, <3>1, <3>2 DEF Safe, WorkersOwn
  <2>3. Pools!Begin(t, j)
    BY <1>1, <1>4, <1>5, <2>1, <2>2, BeginStep DEF Stopped
  <2>4. QED BY <2>3 DEF Pools!PoolNext
<1>8. QED BY <1>6, <1>7

\* Suspending a job, or ending it, ends the slice.
LEMMA LeavePool ==
  ASSUME Safe, JobsInv, Safe', JobsInv', NEW t \in Threads, YieldToReady(t) \/ Finish(t)
  PROVE  [Pools!PoolNext]_(Pools!poolVars)
<1>1. /\ pc[t] = "run" /\ pc'[t] = "leave"
      /\ UNCHANGED <<missons, mission, cbFiber, submitted, main>>
      /\ \A u \in Threads : u # t => pc'[u] = pc[u]
  BY Own DEF YieldToReady, Finish, At, Goto, runVars, stopVars, TypeOK
<1>2. PICK f \in Fibers : f = Current(t) /\ f = stack[t] /\ f \in Held(t)
  BY <1>1, Own DEF Inv, Shape, Current, Held, WorkerKnows
<1>3. f \in Held(t)' BY <1>1, <1>2 DEF Held
<1>4. \A g \in Fibers : g \notin Held(t)' => fcb'[g] = fcb[g]
  BY <1>2, <1>3, Own DEF YieldToReady, Finish, Yield, Abort, Return, Throw, FiberTypeOK
<1>5. \A u \in Threads : u # t => Runs(u)' = Runs(u)
  BY <1>1, <1>4, OthersRun
<1>6. Runs(t) = fcb[f] /\ Runs(t)' = NoJob /\ Running(t) = fcb[f]
  BY <1>1, <1>2, RunsIs, RunsIsNext DEF Running
<1>7. fcb[f] \in Jobs \cup {NoJob} BY Own DEF FiberTypeOK
<1>8. CASE YieldToReady(t)
  <2>1. fcb[f] \in Jobs /\ finished' = finished
    BY <1>6, <1>7, <1>8 DEF YieldToReady, CanSuspend
  <2>2. PICK j \in Jobs : j = fcb[f] BY <2>1
  <2>3. Pools!End(t, "ready")
    BY <1>1, <1>5, <1>6, <2>1, <2>2, EndStep DEF Stopped
  <2>4. QED BY <2>3 DEF Pools!PoolNext
<1>9. CASE Finish(t) /\ fcb[f] = NoJob
  <2>1. finished' = finished BY <1>6, <1>9 DEF Finish
  <2>2. QED BY <1>1, <1>5, <1>6, <1>9, <2>1, StutterStep DEF Stopped
<1>10. CASE Finish(t) /\ fcb[f] # NoJob
  <2>1. PICK j \in Jobs : j = fcb[f] BY <1>7, <1>10
  <2>2. finished' = finished \cup {j} BY <1>6, <1>10, <2>1 DEF Finish
  <2>3. Pools!End(t, "over")
    BY <1>1, <1>5, <1>6, <2>1, <2>2, EndStep DEF Stopped
  <2>4. QED BY <2>3 DEF Pools!PoolNext
<1>11. QED BY <1>8, <1>9, <1>10

LEMMA InitPool == Init => Pools!PoolInit
<1> SUFFICES ASSUME Init PROVE Pools!PoolInit OBVIOUS
<1>1. Safe /\ JobsInv BY InitSafe, InitJobs
<1>2. Stages = [j \in Jobs |-> "new"] BY DEF Init, Stages, Stage
<1>3. Slices = [t \in Threads |-> NoJob]
  BY <1>1, RunsIs DEF Init, Slices
<1>4. ~Stopped BY DEF Init, Stopped
<1>5. QED BY <1>1, <1>2, <1>3, <1>4, PoolIsSeen DEF PoolSeen, Pools!PoolInit, Stopped

LEMMA NextPool ==
  ASSUME Holding = {}, Safe, JobsInv, Leaving, Safe', JobsInv', StopDrains', [Next]_vars
  PROVE  [Pools!PoolNext]_(Pools!poolVars)
<1>1. CASE UNCHANGED vars
  <2>1. UNCHANGED <<submitted, finished, main>> /\ \A t \in Threads : Runs(t)' = Runs(t)
    BY <1>1 DEF vars, fiberVars, runVars, stopVars, jobVars, Runs, InJob, Running
  <2>2. QED BY <2>1, StutterStep DEF Stopped
<1>2. CASE Owner BY <1>2, OwnerPool
<1>3. CASE \/ \E j \in Jobs : Submit(j)
           \/ \E t \in Threads, j \in Jobs : Spawn(t, j)
  BY <1>3, SchedulePool
<1>4. CASE \E f \in Fibers : Resume(f)
  BY <1>4 DEF Resume, Safe
<1>5. ASSUME NEW t \in Threads, Worker(t) PROVE [Pools!PoolNext]_(Pools!poolVars)
  <2>1. ~Register(t) BY DEF Register
  <2>2. ~YieldToHold(t) BY Own DEF YieldToHold, At, WorkerKnows
  <2>3. QED BY <1>5, <2>1, <2>2, QuietPool, EnterPool, LeavePool DEF Worker
<1>6. QED BY <1>1, <1>2, <1>3, <1>4, <1>5 DEF Next, Terminated

\* Every execution of start(), run() by all workers and stop(), seen through the
\* stages of the jobs, is an execution of TaskPool: a job runs in slices, by one
\* worker at a time, ends once, and stop() returns when none is left.
THEOREM RefinesTaskPool ==
  ASSUME Holding = {}, Unpinned
  PROVE  Spec => ImplementsTaskPool
<1>1. Spec => [](Safe /\ JobsInv /\ Leaving) BY SpecLeaving
<1>2. Safe /\ JobsInv /\ Leaving => StopDrains BY NobodyLeft
<1>3. Spec => [](Safe /\ JobsInv /\ Leaving /\ StopDrains) BY <1>1, <1>2, PTL
<1>4. /\ Safe /\ JobsInv /\ Leaving /\ StopDrains
      /\ (Safe /\ JobsInv /\ Leaving /\ StopDrains)'
      /\ [Next]_vars
      => [Pools!PoolNext]_(Pools!poolVars)
  BY NextPool
<1>5. Init => Pools!PoolInit BY InitPool
<1>6. QED BY <1>3, <1>4, <1>5, PTL DEF Spec, ImplementsTaskPool, Pools!PoolSpec
=============================================================================
