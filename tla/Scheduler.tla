----------------------------- MODULE Scheduler -----------------------------
(***************************************************************************)
(* The N-M coroutine scheduler (GGo::Scheduler): worker threads that share *)
(* one list of missions, each mission a callback or a suspended fiber.     *)
(*                                                                         *)
(* A worker's loop (run) is cut where another thread can observe it: at    *)
(* each acquisition of m_mutex, at each change of m_activeThreadCount, at  *)
(* each read of a fiber's state and at each change of the stack it is on.  *)
(* What jobs may do is given by the constants: the caller's thread submits *)
(* the jobs outside Spawned, running jobs submit those in Spawned, a job   *)
(* suspends at most MaxYields times, jobs in Holding suspend by            *)
(* registering for an event and then calling yieldToHold.                  *)
(***************************************************************************)
EXTENDS Fiber, Naturals, FiniteSets, SequencesExt

CONSTANTS AnyThread, \* thread id -1: a mission any thread may take
          Pin,       \* Pin[j]: the thread argument job j is scheduled with
          Root,      \* the caller's thread if use_caller, otherwise AnyThread
          Spawned,   \* jobs that running jobs submit
          Holding,   \* jobs that wait for events
          MaxYields  \* bound on the suspensions of one job

ASSUME SchedulerAssumption ==
  /\ IsFiniteSet(Threads) /\ Threads # {}
  /\ AnyThread \notin Threads
  /\ Pin \in [Jobs -> Threads \cup {AnyThread}]
  /\ Root \in Threads \cup {AnyThread}
  /\ Spawned \subseteq Jobs
  /\ Holding \subseteq Jobs
  /\ MaxYields \in Nat

VARIABLES missons,     \* m_missons
          active,      \* m_activeThreadCount
          idleCount,   \* m_idleThreadCount
          isStopping,  \* m_isStopping
          autoStop,    \* m_autoStop
          pc,          \* pc[t]: where worker t is in run()
          mission,     \* mission[t]: the local variable mission of run()
          cbFiber,     \* cbFiber[t]: the local variable cb_fiber of run()
          idleTerm,    \* idleTerm[t]: t's idle fiber has returned
          main,        \* where the owner's thread is in start() / stop()
          waiters,     \* fibers registered with an event source
          budget,      \* budget[j]: suspensions job j has left
          submitted,   \* jobs handed to schedule() so far
          finished     \* jobs that returned or threw

runVars  == <<mission, cbFiber, idleTerm>>
jobVars  == <<waiters, budget, submitted, finished>>
stopVars == <<isStopping, autoStop, main>>
vars == <<fiberVars, missons, active, idleCount, pc, runVars, stopVars, jobVars>>

Pool == Threads \ {Root}

Misson == [fiber: Fibers \cup {NoFiber}, cb: Jobs \cup {NoJob},
           thread: Threads \cup {AnyThread}]
FiberMisson(f) == [fiber |-> f, cb |-> NoJob, thread |-> AnyThread]
CbMisson(j)    == [fiber |-> NoFiber, cb |-> j, thread |-> Pin[j]]
NoMisson       == [fiber |-> NoFiber, cb |-> NoJob, thread |-> AnyThread]

WorkerPcs == {"off", "take", "dispatch", "enter", "run", "registered",
              "leave", "back", "recycle", "idle", "done"}
MainPcs == {"new", "running", "early", "stopping", "root", "calling",
            "joining", "stopped"}

TypeOK ==
  /\ FiberTypeOK
  /\ missons \in Seq(Misson)
  /\ active \in Nat
  /\ idleCount \in Nat
  /\ isStopping \in BOOLEAN
  /\ autoStop \in BOOLEAN
  /\ pc \in [Threads -> WorkerPcs]
  /\ mission \in [Threads -> Misson]
  /\ cbFiber \in [Threads -> Fibers \cup {NoFiber}]
  /\ idleTerm \in [Threads -> BOOLEAN]
  /\ main \in MainPcs
  /\ waiters \subseteq Fibers
  /\ budget \in [Jobs -> 0..MaxYields]
  /\ submitted \subseteq Jobs
  /\ finished \subseteq Jobs

Init ==
  /\ FiberInit
  /\ missons = <<>>
  /\ active = 0
  /\ idleCount = 0
  /\ isStopping = TRUE
  /\ autoStop = FALSE
  /\ pc = [t \in Threads |-> "off"]
  /\ mission = [t \in Threads |-> NoMisson]
  /\ cbFiber = [t \in Threads |-> NoFiber]
  /\ idleTerm = [t \in Threads |-> FALSE]
  /\ main = "new"
  /\ waiters = {}
  /\ budget = [j \in Jobs |-> MaxYields]
  /\ submitted = {}
  /\ finished = {}

CanStopNow == autoStop /\ isStopping /\ missons = <<>> /\ active = 0

\* Nothing happens after a fault: the process is gone.
At(t, l) == pc[t] = l /\ fault = "none"
OwnerAt(l) == main = l /\ fault = "none"

Goto(t, l) == pc' = [pc EXCEPT ![t] = l]

\* scheduleNoLock under m_mutex; tickle() does nothing in this class.
Schedule(m) == missons' = Append(missons, m)

-----------------------------------------------------------------------------
(* The owner's thread.                                                     *)

Start ==
  /\ OwnerAt("new")
  /\ isStopping' = FALSE
  /\ main' = "running"
  /\ pc' = [t \in Threads |-> IF t \in Pool THEN "take" ELSE "off"]
  /\ UNCHANGED <<fiberVars, missons, active, idleCount, runVars, autoStop, jobVars>>

Submit(j) ==
  /\ OwnerAt("running")
  /\ j \notin Spawned \cup submitted
  /\ Schedule(CbMisson(j))
  /\ submitted' = submitted \cup {j}
  /\ UNCHANGED <<fiberVars, active, idleCount, pc, runVars, stopVars,
                 waiters, budget, finished>>

\* stop() up to m_isStopping = true, which it sets in one of two places.
Stop ==
  /\ OwnerAt("running")
  /\ autoStop' = TRUE
  /\ main' = IF Root # AnyThread /\ Pool = {} THEN "early" ELSE "stopping"
  /\ UNCHANGED <<fiberVars, missons, active, idleCount, pc, runVars,
                 isStopping, jobVars>>

\* Without pool threads the root fiber, still INIT, need not be entered when
\* there is nothing to do.
AfterStopping ==
  CASE main = "early" /\ missons = <<>> /\ active = 0 -> "stopped"
    [] Root # AnyThread -> "root"
    [] OTHER -> "joining"

SetStopping ==
  /\ OwnerAt("early") \/ OwnerAt("stopping")
  /\ isStopping' = TRUE
  /\ main' = AfterStopping
  /\ UNCHANGED <<fiberVars, missons, active, idleCount, pc, runVars,
                 autoStop, jobVars>>

\* m_rootFiber->call(): the owner's thread becomes worker Root.
CallRoot ==
  /\ OwnerAt("root")
  /\ IF CanStopNow
     THEN main' = "joining" /\ UNCHANGED pc
     ELSE main' = "calling" /\ Goto(Root, "take")
  /\ UNCHANGED <<fiberVars, missons, active, idleCount, runVars, isStopping,
                 autoStop, jobVars>>

RootBack ==
  /\ OwnerAt("calling")
  /\ pc[Root] = "done"
  /\ main' = "joining"
  /\ UNCHANGED <<fiberVars, missons, active, idleCount, pc, runVars,
                 isStopping, autoStop, jobVars>>

JoinNoWait ==  \* mutant: the threads are swapped out but not joined
  /\ OwnerAt("joining")
  /\ main' = "stopped"
  /\ UNCHANGED <<fiberVars, missons, active, idleCount, pc, runVars,
                 isStopping, autoStop, jobVars>>

Join ==
  /\ OwnerAt("joining")
  /\ \A t \in Pool : pc[t] = "done"
  /\ main' = "stopped"
  /\ UNCHANGED <<fiberVars, missons, active, idleCount, pc, runVars,
                 isStopping, autoStop, jobVars>>

-----------------------------------------------------------------------------
(* One worker thread: run().                                               *)

EligiblePinIgnored(t, m) ==  \* mutant: the thread of a mission is not looked at
  m.fiber # NoFiber => fstate[m.fiber] # "EXEC"

Eligible(t, m) ==
  /\ m.thread \in {AnyThread, t}
  /\ m.fiber # NoFiber => fstate[m.fiber] # "EXEC"

TakeNoErase(t) ==  \* mutant: the mission is copied but stays in the list
  /\ At(t, "take")
  /\ \E i \in DOMAIN missons :
       /\ Eligible(t, missons[i])
       /\ \A k \in 1..(i - 1) : ~Eligible(t, missons[k])
       /\ mission' = [mission EXCEPT ![t] = missons[i]]
  /\ active' = active + 1
  /\ Goto(t, "dispatch")
  /\ UNCHANGED <<fiberVars, missons, idleCount, cbFiber, idleTerm, stopVars, jobVars>>

\* The first mission in the list this thread may take, under m_mutex.
Take(t) ==
  /\ At(t, "take")
  /\ \E i \in DOMAIN missons :
       /\ Eligible(t, missons[i])
       /\ \A k \in 1..(i - 1) : ~Eligible(t, missons[k])
       /\ mission' = [mission EXCEPT ![t] = missons[i]]
       /\ missons' = RemoveAt(missons, i)
  /\ active' = active + 1
  /\ Goto(t, "dispatch")
  /\ UNCHANGED <<fiberVars, idleCount, cbFiber, idleTerm, stopVars, jobVars>>

\* Nothing to take: leave run() if the idle fiber has returned, else enter it.
TakeNothing(t) ==
  /\ At(t, "take")
  /\ \A i \in DOMAIN missons : ~Eligible(t, missons[i])
  /\ IF idleTerm[t]
     THEN Goto(t, "done") /\ UNCHANGED idleCount
     ELSE Goto(t, "idle") /\ idleCount' = idleCount + 1
  /\ UNCHANGED <<fiberVars, missons, active, runVars, stopVars, jobVars>>

\* idle(): one pass of its loop, then back to run().
Idle(t) ==
  /\ At(t, "idle")
  /\ idleTerm' = [idleTerm EXCEPT ![t] = CanStopNow]
  /\ idleCount' = idleCount - 1
  /\ Goto(t, "take")
  /\ UNCHANGED <<fiberVars, missons, active, mission, cbFiber, stopVars, jobVars>>

DropUncounted(t) ==  \* mutant: continue without --m_activeThreadCount
  /\ At(t, "dispatch")
  /\ mission[t].fiber # NoFiber
  /\ fstate[mission[t].fiber] \in Ended
  /\ mission' = [mission EXCEPT ![t] = NoMisson]
  /\ Goto(t, "take")
  /\ UNCHANGED <<fiberVars, missons, active, idleCount, cbFiber, idleTerm,
                 stopVars, jobVars>>

\* A mission whose fiber has already ended is dropped.
Drop(t) ==
  /\ At(t, "dispatch")
  /\ mission[t].fiber # NoFiber
  /\ fstate[mission[t].fiber] \in Ended
  /\ active' = active - 1
  /\ mission' = [mission EXCEPT ![t] = NoMisson]
  /\ Goto(t, "take")
  /\ UNCHANGED <<fiberVars, missons, idleCount, cbFiber, idleTerm, stopVars, jobVars>>

DispatchFiber(t) ==
  /\ At(t, "dispatch")
  /\ mission[t].fiber # NoFiber
  /\ fstate[mission[t].fiber] \notin Ended
  /\ Goto(t, "enter")
  /\ UNCHANGED <<fiberVars, missons, active, idleCount, runVars, stopVars, jobVars>>

\* A Fiber object is freed when its last shared_ptr goes; one that is
\* suspended is kept by the pointer in its own frames.
Referenced(f) ==
  \/ fstate[f] \notin Restable
  \/ f \in waiters \/ OnStack(f)
  \/ \E t \in Threads : f \in {cbFiber[t], mission[t].fiber}
  \/ \E i \in DOMAIN missons : missons[i].fiber = f

\* A callback runs on this worker's cb_fiber, or on a new fiber if there is
\* none.
DispatchCb(t) ==
  /\ At(t, "dispatch")
  /\ mission[t].fiber = NoFiber
  /\ IF cbFiber[t] # NoFiber
     THEN Reset(cbFiber[t], mission[t].cb) /\ UNCHANGED cbFiber
     ELSE \E f \in Fibers :
            /\ ~Referenced(f)
            /\ Construct(f, mission[t].cb)
            /\ cbFiber' = [cbFiber EXCEPT ![t] = f]
  /\ mission' = [mission EXCEPT ![t] = NoMisson]
  /\ Goto(t, "enter")
  /\ UNCHANGED <<missons, active, idleCount, idleTerm, stopVars, jobVars>>

\* The fiber this pass of the loop is about.
Current(t) == IF mission[t].fiber # NoFiber THEN mission[t].fiber ELSE cbFiber[t]

Enter(t) ==
  /\ At(t, "enter")
  /\ SwapIn(t, Current(t))
  /\ Goto(t, "run")
  /\ UNCHANGED <<missons, active, idleCount, runVars, stopVars, jobVars>>

BackUncounted(t) ==  \* mutant: m_activeThreadCount-- is forgotten
  /\ At(t, "leave")
  /\ SwapOut(t)
  /\ Goto(t, "back")
  /\ UNCHANGED <<missons, active, idleCount, runVars, stopVars, jobVars>>

\* The thread is back in run(), behind swapIn.
Back(t) ==
  /\ At(t, "leave")
  /\ SwapOut(t)
  /\ active' = active - 1
  /\ Goto(t, "back")
  /\ UNCHANGED <<missons, idleCount, runVars, stopVars, jobVars>>

RequeueLost(t) ==  \* mutant: a READY fiber is not put back into the list
  /\ At(t, "back")
  /\ fstate[Current(t)] = "READY"
  /\ mission' = [mission EXCEPT ![t] = NoMisson]
  /\ cbFiber' = IF mission[t].fiber # NoFiber THEN cbFiber
                ELSE [cbFiber EXCEPT ![t] = NoFiber]
  /\ Goto(t, "take")
  /\ UNCHANGED <<fiberVars, missons, active, idleCount, idleTerm, stopVars, jobVars>>

\* The state is read again: whoever resumed the fiber meanwhile has changed it.
Requeue(t) ==
  /\ At(t, "back")
  /\ fstate[Current(t)] = "READY"
  /\ Schedule(FiberMisson(Current(t)))
  /\ mission' = [mission EXCEPT ![t] = NoMisson]
  /\ cbFiber' = IF mission[t].fiber # NoFiber THEN cbFiber
                ELSE [cbFiber EXCEPT ![t] = NoFiber]
  /\ Goto(t, "take")
  /\ UNCHANGED <<fiberVars, active, idleCount, idleTerm, stopVars, jobVars>>

\* Not READY: a fiber mission is forgotten, a callback's fiber looked at again.
NotReady(t) ==
  /\ At(t, "back")
  /\ fstate[Current(t)] # "READY"
  /\ mission' = [mission EXCEPT ![t] = NoMisson]
  /\ Goto(t, IF mission[t].fiber # NoFiber THEN "take" ELSE "recycle")
  /\ UNCHANGED <<fiberVars, missons, active, idleCount, cbFiber, idleTerm,
                 stopVars, jobVars>>

\* cb_fiber is emptied for the next callback if its job is over, else let go.
Recycle(t) ==
  /\ At(t, "recycle")
  /\ IF fstate[cbFiber[t]] \in Ended
     THEN Reset(cbFiber[t], NoJob) /\ UNCHANGED cbFiber
     ELSE cbFiber' = [cbFiber EXCEPT ![t] = NoFiber] /\ UNCHANGED fiberVars
  /\ Goto(t, "take")
  /\ UNCHANGED <<missons, active, idleCount, mission, idleTerm, stopVars, jobVars>>

-----------------------------------------------------------------------------
(* What the callback running on worker t does.                             *)

Running(t) == fcb[stack[t]]
InJob(t) == pc[t] \in {"run", "registered"} /\ fault = "none" /\ Running(t) # NoJob
CanSuspend(t) == Running(t) # NoJob /\ budget[Running(t)] > 0

Spawn(t, j) ==
  /\ At(t, "run")
  /\ Running(t) # NoJob
  /\ j \in Spawned \ submitted
  /\ Schedule(CbMisson(j))
  /\ submitted' = submitted \cup {j}
  /\ UNCHANGED <<fiberVars, active, idleCount, pc, runVars, stopVars,
                 waiters, budget, finished>>

YieldToReadyQueued(t) ==  \* mutant: the fiber queues itself before it leaves its stack
  /\ At(t, "run")
  /\ CanSuspend(t)
  /\ budget' = [budget EXCEPT ![Running(t)] = @ - 1]
  /\ Yield(t, "READY")
  /\ Schedule(FiberMisson(stack[t]))
  /\ Goto(t, "leave")
  /\ UNCHANGED <<active, idleCount, runVars, stopVars, waiters, submitted, finished>>

YieldToReady(t) ==
  /\ At(t, "run")
  /\ CanSuspend(t)
  /\ budget' = [budget EXCEPT ![Running(t)] = @ - 1]
  /\ Yield(t, "READY")
  /\ Goto(t, "leave")
  /\ UNCHANGED <<missons, active, idleCount, runVars, stopVars,
                 waiters, submitted, finished>>

\* The job gives a pointer to its fiber to an event source (addEvent,
\* addTimer), which may use it from now on.
Register(t) ==
  /\ At(t, "run")
  /\ Running(t) \in Holding
  /\ CanSuspend(t)
  /\ budget' = [budget EXCEPT ![Running(t)] = @ - 1]
  /\ waiters' = waiters \cup {stack[t]}
  /\ Goto(t, "registered")
  /\ UNCHANGED <<fiberVars, missons, active, idleCount, runVars, stopVars,
                 submitted, finished>>

YieldToHold(t) ==
  /\ At(t, "registered")
  /\ Yield(t, "HOLD")
  /\ Goto(t, "leave")
  /\ UNCHANGED <<missons, active, idleCount, runVars, stopVars, jobVars>>

\* An empty callback throws std::bad_function_call.
Finish(t) ==
  /\ At(t, "run")
  /\ (Running(t) # NoJob /\ Return(t)) \/ Throw(t)
  /\ finished' = finished \cup ({Running(t)} \ {NoJob})
  /\ Goto(t, "leave")
  /\ UNCHANGED <<missons, active, idleCount, runVars, stopVars,
                 waiters, budget, submitted>>

\* The event source resumes a fiber: schedule(fiber) from any thread.
Resume(f) ==
  /\ fault = "none"
  /\ f \in waiters
  /\ waiters' = waiters \ {f}
  /\ Schedule(FiberMisson(f))
  /\ UNCHANGED <<fiberVars, active, idleCount, pc, runVars, stopVars,
                 budget, submitted, finished>>

-----------------------------------------------------------------------------
Worker(t) ==
  \/ Take(t) \/ TakeNothing(t) \/ Idle(t)
  \/ Drop(t) \/ DispatchFiber(t) \/ DispatchCb(t) \/ Enter(t)
  \/ Back(t) \/ Requeue(t) \/ NotReady(t) \/ Recycle(t)
  \/ YieldToReady(t) \/ Register(t) \/ YieldToHold(t) \/ Finish(t)

Owner == Start \/ Stop \/ SetStopping \/ CallRoot \/ RootBack \/ Join

\* stop() has returned, or the process has aborted.
Terminated == (main = "stopped" \/ fault # "none") /\ UNCHANGED vars

Next ==
  \/ Owner
  \/ \E j \in Jobs : Submit(j)
  \/ \E t \in Threads : Worker(t) \/ \E j \in Jobs : Spawn(t, j)
  \/ \E f \in Fibers : Resume(f)
  \/ Terminated

Spec == Init /\ [][Next]_vars

\* The operating system runs every thread; every event waited for arrives.
FairSpec ==
  /\ Spec
  /\ WF_vars(Owner)
  /\ \A t \in Threads : WF_vars(Worker(t))
  /\ \A f \in Fibers : WF_vars(Resume(f))

-----------------------------------------------------------------------------
(* Properties.                                                             *)

Busy == {"dispatch", "enter", "run", "registered", "leave"}

\* m_activeThreadCount counts exactly the workers between taking a mission
\* and coming back from it, m_idleThreadCount those inside their idle fiber:
\* canStopNow and hasIdleThread decide on these two numbers, and the four
\* branches of run() each have their own decrement.
ActiveCount ==
  /\ active = Cardinality({t \in Threads : pc[t] \in Busy})
  /\ idleCount = Cardinality({t \in Threads : pc[t] = "idle"})

\* No thread enters, or rebuilds, a stack another thread still executes on:
\* the memory-safety condition of handing a fiber from thread to thread.
NoStackShared == fault # "stack"

\* No GGO_ASSERT of swapIn, reset, yieldToReady or yieldToHold fails, and no
\* fiber that has ended is resumed.
NoAssertFails == fault # "assert"

\* Who will run fiber f next: a list entry, an event source, a worker about to
\* enter it or on its way to put it back into the list.
Wakers(f) ==
  {<<"list", i>> : i \in {k \in DOMAIN missons : missons[k].fiber = f}}
    \cup (IF f \in waiters THEN {<<"event", 0>>} ELSE {})
    \cup {<<"worker", t>> : t \in {u \in Threads :
            /\ Current(u) = f
            /\ \/ pc[u] = "enter"
               \/ pc[u] = "dispatch" /\ mission[u].fiber = f
               \/ pc[u] \in {"leave", "back"} /\ fstate[f] = "READY"}}

\* A suspended fiber has exactly one waker: with none its job is lost (the
\* stack of a held fiber is kept alive by itself, so nothing else would ever
\* tell), with two it is resumed twice.
OneWaker ==
  fault = "none" =>
    \A f \in Fibers : fstate[f] \in {"HOLD", "READY"} => Cardinality(Wakers(f)) = 1

\* A job that was scheduled and is not over is in exactly one place: a list
\* entry, a worker's mission, or one fiber that has not ended.
JobInOnePlace ==
  fault = "none" =>
    \A j \in submitted \ finished :
      Cardinality({<<"list", i>> : i \in {k \in DOMAIN missons : missons[k].cb = j}}
        \cup {<<"worker", t>> : t \in {u \in Threads : mission[u].cb = j}}
        \cup {<<"fiber", f>> : f \in {g \in Fibers : fcb[g] = j
                                          /\ fstate[g] \notin Ended}}) = 1

\* When stop() returns, every job that was ever scheduled has run to its end
\* and every worker has left run(): none is left behind in the list or in the
\* hands of a worker, whatever the order of the last decrement of
\* m_activeThreadCount and the last schedule().
StopDrains ==
  main = "stopped" =>
    /\ missons = <<>>
    /\ submitted = finished
    /\ \A t \in Threads : pc[t] \in {"off", "done"}

\* A job scheduled for one thread starts on that thread, whichever worker is
\* idle, and stays there until it yields: only then does schedule(fiber) forget
\* the thread (scheduler.cpp:172).
PinHonoured ==
  \A t \in Threads :
    InJob(t) /\ budget[Running(t)] = MaxYields => Pin[Running(t)] \in {AnyThread, t}

\* stop() returns.
StopReturns == <>(main = "stopped")

\* Every scheduled job runs to its end.
JobsFinish == \A j \in Jobs : j \in submitted ~> j \in finished

\* The scheduler implements TaskPool: every execution of run() by all workers,
\* start() and stop(), seen through which job is in which stage, is one of the
\* abstract pool's.
JobState(j) ==
  CASE j \notin submitted -> "new"
    [] j \in finished -> "over"
    [] \E t \in Threads : InJob(t) /\ Running(t) = j -> "running"
    [] OTHER -> "ready"

Pools == INSTANCE TaskPool WITH
  jobState <- [j \in Jobs |-> JobState(j)],
  worker   <- [t \in Threads |-> IF InJob(t) THEN Running(t) ELSE NoJob],
  stopped  <- (main = "stopped")

ImplementsTaskPool == Pools!PoolSpec
=============================================================================
