----------------------------- MODULE IOScheduler -----------------------------
(***************************************************************************)
(* The IO scheduler as a whole (GGo::IOScheduler): run() of every worker,  *)
(* its idle fiber that sleeps in epoll_wait, the pipe that wakes it, and   *)
(* the question whether the scheduler may stop, which reads the timers,    *)
(* the pending events and the mission list one after the other.            *)
(*                                                                         *)
(* The parts are the other modules: who may touch a fiber's stack is       *)
(* Scheduler, which events are registered is FdEvents, which timer is due  *)
(* is TimerManager.  Here a job is in one place, and m_activeThreadCount,  *)
(* m_idleThreadCount and m_pendingEventCount are what those modules show   *)
(* them to be, the numbers of workers at certain places and of registered  *)
(* events.                                                                 *)
(***************************************************************************)
EXTENDS Naturals, FiniteSets

CONSTANTS Workers,   \* threads in run()
          Jobs,      \* callbacks and the fibers they run on
          Owner,     \* the thread that schedules and stops
          NoJob,
          Pin,       \* Pin[j]: the worker j is scheduled for, or Owner for any
          Spawned,   \* jobs that running jobs schedule
          Waits,     \* Waits[j]: how often j suspends itself at most
          FarTimers  \* timers are between 2^31 and 2^32 ms away

ASSUME IOSchedulerAssumption ==
  /\ IsFiniteSet(Workers) /\ Workers # {} /\ IsFiniteSet(Jobs)
  /\ Owner \notin Workers /\ NoJob \notin Jobs
  /\ Pin \in [Jobs -> Workers \cup {Owner}]
  /\ Spawned \subseteq Jobs
  /\ Waits \in [Jobs -> Nat] /\ FarTimers \in BOOLEAN

VARIABLES place,    \* place[j]: where job j is, see Places
          waits,    \* waits[j]: suspensions j has left
          pc,       \* pc[w]: where worker w is
          job,      \* job[w]: the job w runs or has just left
          hand,     \* hand[w]: the jobs in cbs of w's idle()
          snap,     \* snap[w]: the jobs whose events epoll_wait gave w
          gotPipe,  \* workers whose events include the tickle pipe
          idleTerm, \* workers whose idle fiber has returned
          seen,     \* workers whose getNextTimer found a timer
          tell,     \* threads that are about to call tickle()
          bytes,    \* the tickle pipe is not empty
          edge,     \* the pipe is on epoll's ready list
          stopping, \* m_autoStop and m_isStopping
          main,     \* where the owner is
          tickles   \* calls of tickle() stop() has left

idleVars  == <<hand, snap, gotPipe, idleTerm, seen>>
pipeVars  == <<tell, bytes, edge>>
ownerVars == <<stopping, main, tickles>>
vars == <<place, waits, pc, job, idleVars, pipeVars, ownerVars>>

Registered == {"event", "fired", "snap"}
InSet  == {"timer", "due"}
Places == {"new", "list", "run", "ready", "hand", "over"} \cup Registered \cup InSet

Reading == {"timers", "pending", "missons"}
InIdle  == Reading \cup {"wait", "expire", "cbs", "dispatch", "triggered", "out"}
Active  == {"run", "leave"}
Pcs     == {"take", "empty", "back", "done"} \cup InIdle \cup Active

At(p) == {j \in Jobs : place[j] = p}
Missons == At("list")
Timers  == {j \in Jobs : place[j] \in InSet}

ActiveThreadCount == Cardinality({w \in Workers : pc[w] \in Active})
HasIdleThread     == \E w \in Workers : pc[w] \in InIdle
PendingEventCount == Cardinality({j \in Jobs : place[j] \in Registered})
                       + Cardinality({w \in Workers : pc[w] = "triggered"})

TypeOK ==
  /\ place \in [Jobs -> Places] /\ waits \in [Jobs -> Nat]
  /\ pc \in [Workers -> Pcs] /\ job \in [Workers -> Jobs \cup {NoJob}]
  /\ hand \in [Workers -> SUBSET Jobs] /\ snap \in [Workers -> SUBSET Jobs]
  /\ gotPipe \subseteq Workers /\ idleTerm \subseteq Workers /\ seen \subseteq Workers
  /\ tell \subseteq Workers \cup {Owner}
  /\ bytes \in BOOLEAN /\ edge \in BOOLEAN /\ stopping \in BOOLEAN
  /\ main \in {"running", "stopping", "stopped"}
  /\ tickles \in 0..Cardinality(Workers)

\* The constructor has started the workers.
Init ==
  /\ place = [j \in Jobs |-> "new"] /\ waits = Waits
  /\ pc = [w \in Workers |-> "take"] /\ job = [w \in Workers |-> NoJob]
  /\ hand = [w \in Workers |-> {}] /\ snap = [w \in Workers |-> {}]
  /\ gotPipe = {} /\ idleTerm = {} /\ seen = {} /\ tell = {}
  /\ bytes = FALSE /\ edge = FALSE
  /\ stopping = FALSE /\ main = "running" /\ tickles = 0

Goto(w, l) == pc' = [pc EXCEPT ![w] = l]
Is(w, l) == pc[w] = l /\ w \notin tell

\* schedule(): the jobs J go into the list; thread t is to tickle if it was empty.
Schedule(t, J) ==
  /\ place' = [j \in Jobs |-> IF j \in J THEN "list" ELSE place[j]]
  /\ tell' = IF Missons = {} THEN tell \cup {t} ELSE tell

\* tickle(): nobody is told unless a thread is idle at this moment.
Tickled == IF HasIdleThread THEN bytes' = TRUE /\ edge' = TRUE
           ELSE UNCHANGED <<bytes, edge>>

Tickle(t) ==
  /\ t \in tell
  /\ tell' = tell \ {t}
  /\ Tickled
  /\ UNCHANGED <<place, waits, pc, job, idleVars, ownerVars>>

-----------------------------------------------------------------------------
(* The owner.                                                              *)

Submit(j) ==
  /\ main = "running" /\ Owner \notin tell
  /\ place[j] = "new" /\ j \notin Spawned
  /\ Schedule(Owner, {j})
  /\ UNCHANGED <<waits, pc, job, idleVars, bytes, edge, ownerVars>>

\* stop() tickles once for each thread and then joins them.
Stop ==
  /\ main = "running" /\ Owner \notin tell
  /\ stopping' = TRUE /\ main' = "stopping" /\ tickles' = Cardinality(Workers)
  /\ UNCHANGED <<place, waits, pc, job, idleVars, pipeVars>>

StopTickle ==
  /\ tickles > 0
  /\ tickles' = tickles - 1
  /\ Tickled
  /\ UNCHANGED <<place, waits, pc, job, idleVars, tell, stopping, main>>

JoinOne ==  \* mutant: only one of the threads is joined
  /\ main = "stopping" /\ tickles = 0
  /\ \E w \in Workers : pc[w] = "done"
  /\ main' = "stopped"
  /\ UNCHANGED <<place, waits, pc, job, idleVars, pipeVars, stopping, tickles>>

Join ==
  /\ main = "stopping" /\ tickles = 0
  /\ \A w \in Workers : pc[w] = "done"
  /\ main' = "stopped"
  /\ UNCHANGED <<place, waits, pc, job, idleVars, pipeVars, stopping, tickles>>

-----------------------------------------------------------------------------
(* run().                                                                  *)

\* schedule(fiber) forgets the thread, so only the first slice is pinned.
Eligible(w, j) == waits[j] = Waits[j] => Pin[j] \in {Owner, w}

\* The iterator that was just erased is compared with end(): the comparison of
\* the dead pointer says "more", and a worker that takes a mission tickles.
Take(w, j) ==
  /\ Is(w, "take")
  /\ j \in Missons /\ Eligible(w, j)
  /\ place' = [place EXCEPT ![j] = "run"]
  /\ job' = [job EXCEPT ![w] = j]
  /\ tell' = tell \cup {w}
  /\ Goto(w, "run")
  /\ UNCHANGED <<waits, idleVars, bytes, edge, ownerVars>>

\* Missions of other threads are passed on by a tickle.
TakeNothing(w) ==
  /\ Is(w, "take")
  /\ \A j \in Missons : ~Eligible(w, j)
  /\ tell' = IF Missons # {} THEN tell \cup {w} ELSE tell
  /\ Goto(w, IF w \in idleTerm THEN "done" ELSE "empty")
  /\ UNCHANGED <<place, waits, job, idleVars, bytes, edge, ownerVars>>

\* The job of w gives up the thread: for good, to go on later, or to wait.
Slice(w, p) ==
  /\ Is(w, "run")
  /\ place' = [place EXCEPT ![job[w]] = p]
  /\ p # "over" => waits[job[w]] > 0
  /\ waits' = [waits EXCEPT ![job[w]] = IF p = "over" THEN @ ELSE @ - 1]
  /\ Goto(w, "leave")
  \* A timer that comes first in the set tickles (onTimerInsertedAtFront).
  /\ tell' \in {tell} \cup (IF p = "timer" THEN {tell \cup {w}} ELSE {})
  /\ UNCHANGED <<job, idleVars, bytes, edge, ownerVars>>

Spawn(w, j) ==
  /\ Is(w, "run")
  /\ j \in Spawned /\ place[j] = "new"
  /\ Schedule(w, {j})
  /\ UNCHANGED <<waits, pc, job, idleVars, bytes, edge, ownerVars>>

\* m_activeThreadCount--; a fiber that waits may already be elsewhere.
Leave(w) ==
  /\ Is(w, "leave")
  /\ Goto(w, IF place[job[w]] = "ready" THEN "back" ELSE "take")
  /\ job' = [job EXCEPT ![w] = IF place[job[w]] = "ready" THEN @ ELSE NoJob]
  /\ UNCHANGED <<place, waits, idleVars, pipeVars, ownerVars>>

Requeue(w) ==
  /\ Is(w, "back")
  /\ Schedule(w, {job[w]})
  /\ job' = [job EXCEPT ![w] = NoJob]
  /\ Goto(w, "take")
  /\ UNCHANGED <<waits, idleVars, bytes, edge, ownerVars>>

-----------------------------------------------------------------------------
(* idle().                                                                 *)

\* m_idleThreadCount++: from here on tickle() counts w.
EnterIdle(w) ==
  /\ Is(w, "empty")
  /\ Goto(w, "timers")
  /\ UNCHANGED <<place, waits, job, idleVars, pipeVars, ownerVars>>

\* canStopNow, first read: getNextTimer.
ReadTimers(w) ==
  /\ Is(w, "timers")
  /\ seen' = IF Timers # {} THEN seen \cup {w} ELSE seen \ {w}
  /\ Goto(w, IF Timers # {} THEN "wait" ELSE "pending")
  /\ UNCHANGED <<place, waits, job, hand, snap, gotPipe, idleTerm, pipeVars, ownerVars>>

ReadPendingNot(w) ==  \* mutant: the pending events are not asked for
  /\ Is(w, "pending")
  /\ Goto(w, "missons")
  /\ UNCHANGED <<place, waits, job, idleVars, pipeVars, ownerVars>>

\* Second read: m_pendingEventCount.
ReadPending(w) ==
  /\ Is(w, "pending")
  /\ Goto(w, IF PendingEventCount > 0 THEN "wait" ELSE "missons")
  /\ UNCHANGED <<place, waits, job, idleVars, pipeVars, ownerVars>>

\* Third read: Scheduler::canStopNow, under the lock of the list.
ReadMissons(w) ==
  /\ Is(w, "missons")
  /\ IF stopping /\ Missons = {} /\ ActiveThreadCount = 0
     THEN Goto(w, "out") /\ idleTerm' = idleTerm \cup {w}
     ELSE Goto(w, "wait") /\ UNCHANGED idleTerm
  /\ UNCHANGED <<place, waits, job, hand, snap, gotPipe, seen, pipeVars, ownerVars>>

TimeLimitNone(w) == FALSE  \* mutant: epoll_wait waits for an event

\* epoll_wait is given at most MAX_TIMEOUT, but the int the time is compared as
\* is negative for a far timer, and so is the time it is given: no limit.
TimeLimit(w) == ~(FarTimers /\ w \in seen)

\* epoll_wait reports what is ready, the pipe if it still has something to read,
\* or nothing when its time is over.
EpollWait(w) ==
  /\ Is(w, "wait")
  /\ TimeLimit(w) \/ At("fired") # {} \/ (edge /\ bytes)
  /\ snap' = [snap EXCEPT ![w] = At("fired")]
  /\ place' = [j \in Jobs |-> IF place[j] = "fired" THEN "snap" ELSE place[j]]
  /\ gotPipe' = IF edge /\ bytes THEN gotPipe \cup {w} ELSE gotPipe
  /\ edge' = FALSE
  /\ Goto(w, "expire")
  /\ UNCHANGED <<waits, job, hand, idleTerm, seen, tell, bytes, ownerVars>>

\* listExpriedCb: for a moment the jobs are in no place canStopNow looks at.
ListExpired(w) ==
  /\ Is(w, "expire")
  /\ hand' = [hand EXCEPT ![w] = At("due")]
  /\ place' = [j \in Jobs |-> IF place[j] = "due" THEN "hand" ELSE place[j]]
  /\ Goto(w, IF At("due") = {} THEN "dispatch" ELSE "cbs")
  /\ UNCHANGED <<waits, job, snap, gotPipe, idleTerm, seen, pipeVars, ownerVars>>

ScheduleCbs(w) ==
  /\ Is(w, "cbs")
  /\ Schedule(w, hand[w])
  /\ hand' = [hand EXCEPT ![w] = {}]
  /\ Goto(w, "dispatch")
  /\ UNCHANGED <<waits, job, snap, gotPipe, idleTerm, seen, bytes, edge, ownerVars>>

\* The pipe is emptied: a tickle of this moment wakes nobody else.
DrainPipe(w) ==
  /\ Is(w, "dispatch") /\ w \in gotPipe
  /\ bytes' = FALSE
  /\ gotPipe' = gotPipe \ {w}
  /\ UNCHANGED <<place, waits, pc, job, hand, snap, idleTerm, seen, tell, edge, ownerVars>>

\* tiggerEvent, which schedules; m_pendingEventCount-- follows.
Trigger(w, j) ==
  /\ Is(w, "dispatch")
  /\ j \in snap[w]
  /\ Schedule(w, {j})
  /\ snap' = [snap EXCEPT ![w] = @ \ {j}]
  /\ Goto(w, "triggered")
  /\ UNCHANGED <<waits, job, hand, gotPipe, idleTerm, seen, bytes, edge, ownerVars>>

CountDown(w) ==
  /\ Is(w, "triggered")
  /\ Goto(w, "dispatch")
  /\ UNCHANGED <<place, waits, job, idleVars, pipeVars, ownerVars>>

SwapOut(w) ==
  /\ Is(w, "dispatch") /\ w \notin gotPipe /\ snap[w] = {}
  /\ Goto(w, "out")
  /\ UNCHANGED <<place, waits, job, idleVars, pipeVars, ownerVars>>

\* m_idleThreadCount--
LeaveIdle(w) ==
  /\ Is(w, "out")
  /\ Goto(w, "take")
  /\ UNCHANGED <<place, waits, job, idleVars, pipeVars, ownerVars>>

-----------------------------------------------------------------------------
(* What is waited for happens.                                             *)

Happen(j) ==
  /\ place[j] \in {"event", "timer"}
  /\ place' = [place EXCEPT ![j] = IF @ = "event" THEN "fired" ELSE "due"]
  /\ UNCHANGED <<waits, pc, job, idleVars, pipeVars, ownerVars>>

Worker(w) ==
  \/ \E j \in Jobs : Take(w, j) \/ Trigger(w, j)
  \/ \E p \in {"over", "ready", "event", "timer"} : Slice(w, p)
  \/ TakeNothing(w) \/ Leave(w) \/ Requeue(w)
  \/ EnterIdle(w) \/ ReadTimers(w) \/ ReadPending(w) \/ ReadMissons(w) \/ EpollWait(w)
  \/ ListExpired(w) \/ ScheduleCbs(w) \/ DrainPipe(w) \/ CountDown(w)
  \/ SwapOut(w) \/ LeaveIdle(w)

Next ==
  \/ \E j \in Jobs : Submit(j) \/ Happen(j) \/ \E w \in Workers : Spawn(w, j)
  \/ Stop \/ StopTickle \/ Join
  \/ \E w \in Workers : Worker(w)
  \/ \E t \in Workers \cup {Owner} : Tickle(t)
  \/ main = "stopped" /\ UNCHANGED vars

Spec == Init /\ [][Next]_vars

\* Every thread runs, and every event and timer that is waited for comes.
FairSpec ==
  /\ Spec
  /\ WF_vars(Stop) /\ WF_vars(StopTickle) /\ WF_vars(Join)
  /\ \A w \in Workers : WF_vars(Worker(w))
  /\ \A t \in Workers \cup {Owner} : WF_vars(Tickle(t))
  /\ \A j \in Jobs : WF_vars(Happen(j))

-----------------------------------------------------------------------------
(* Properties.                                                             *)

\* When stop() has returned no job is left: every worker decided to leave on
\* three reads made one after the other, while others moved jobs from the timers
\* and the events to the list.  A worker that has decided still takes missions,
\* and what such a mission waits for may escape the reads of the others; jobs
\* that wait once and spawn none that wait (OneWait) cannot bring that about.
OneWait == \A j \in Jobs : Waits[j] <= IF j \in Spawned THEN 0 ELSE 1

NothingLeft ==
  main = "stopped" => \A j \in Jobs : place[j] \in {"new", "over"}

\* A mission in the list is taken, although tickle() may have found no idle
\* thread, or its byte was read by a thread that was awake already: nobody
\* sleeps in epoll_wait without limit.
MissonTaken == \A j \in Jobs : place[j] = "list" ~> place[j] # "list"

\* stop() returns: every worker finds the timers, the events and the list empty.
StopReturns == <>(main = "stopped")

\* Seen through its jobs, the IO scheduler is a TaskPool too: one that waits for
\* an event or a timer is suspended, and stop() waits for it.
JobState(j) ==
  CASE place[j] \in {"new", "over"} -> place[j]
    [] \E w \in Workers : pc[w] = "run" /\ job[w] = j -> "running"
    [] OTHER -> "ready"

Pools == INSTANCE TaskPool WITH
  Threads  <- Workers,
  jobState <- [j \in Jobs |-> JobState(j)],
  worker   <- [w \in Workers |-> IF pc[w] = "run" THEN job[w] ELSE NoJob],
  stopped  <- (main = "stopped")

ImplementsTaskPool == Pools!PoolSpec
=============================================================================
