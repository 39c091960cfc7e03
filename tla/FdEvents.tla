------------------------------ MODULE FdEvents ------------------------------
(***************************************************************************)
(* The event side of the IO scheduler (GGo::IOScheduler): for every file   *)
(* descriptor one FdContext says which events are waited for and who waits,*)
(* an edge-triggered epoll instance says what the kernel watches, and the  *)
(* idle fibers of the worker threads collect events from epoll_wait and    *)
(* dispatch them.                                                          *)
(*                                                                         *)
(* Every handler works under the mutex of its FdContext, so each is one    *)
(* action.  What epoll_wait returned is a copy: between that call and the  *)
(* lock taken to dispatch it (snap) other threads may change everything.   *)
(***************************************************************************)
EXTENDS Naturals, FiniteSets

CONSTANTS Fds,      \* descriptors in use
          Pollers,  \* worker threads that run idle()
          Clients,  \* fibers that wait for events, or leave a callback for one
          NoClient, \* an empty EventContext
          Wanted,   \* the events fibers wait for
          Ops       \* what the program does besides addEvent: "cancel", "del",
                    \* "all" (cancelAll and close), "race" (close during addEvent)

ASSUME FdEventsAssumption ==
  /\ IsFiniteSet(Fds)
  /\ NoClient \notin Clients
  /\ Wanted \subseteq {"READ", "WRITE"}
  /\ Ops \subseteq {"cancel", "del", "all", "race"}

VARIABLES events,    \* FdContext::events
          waiter,    \* waiter[d][e]: fiber or cb of the EventContext
          scheduler, \* scheduler[d]: the events whose EventContext::scheduler is set
          pending,   \* m_pendingEventCount
          interest,  \* what epoll watches for d, or Unwatched
          ready,     \* what the kernel would report for d now
          armed,     \* d is on epoll's ready list
          snap,      \* snap[p]: what epoll_wait gave poller p and is not dispatched
          client,    \* what each client is doing
          fault      \* "none" or "assert"

fdVars     == <<events, waiter, scheduler, pending>>
kernelVars == <<interest, ready, armed>>
vars == <<fdVars, kernelVars, snap, client, fault>>

Events    == {"READ", "WRITE"}
Unwatched == {"UNWATCHED"}
\* READ and WRITE have the values of EPOLLIN and EPOLLOUT; ERR stands for
\* EPOLLERR and EPOLLHUP, which epoll reports unasked.
Mask == Events \cup {"ERR"}

Idle == [at |-> "idle"]
Asleep == [at |-> "asleep"]  \* suspended, and in no context any more
Waiting(d, e) == [at |-> "waiting", fd |-> d, event |-> e, late |-> FALSE]
WaitsFor(c, d, e) == client[c].at = "waiting" /\ client[c].fd = d /\ client[c].event = e

Nothing == [at |-> "nothing"]
Got(d, m) == [at |-> "got", fd |-> d, mask |-> m]

TypeOK ==
  /\ events \in [Fds -> SUBSET Events]
  /\ waiter \in [Fds -> [Events -> Clients \cup {NoClient}]]
  /\ scheduler \in [Fds -> SUBSET Events]
  /\ pending \in Nat
  /\ interest \in [Fds -> {Unwatched} \cup SUBSET Events]
  /\ ready \in [Fds -> SUBSET Mask]
  /\ armed \in [Fds -> BOOLEAN]
  /\ snap \in [Pollers -> {Nothing} \cup {Got(d, m) : d \in Fds, m \in SUBSET Mask}]
  /\ client \in [Clients -> {Idle, Asleep} \cup
       [at : {"waiting"}, fd : Fds, event : Events, late : BOOLEAN]]
  /\ fault \in {"none", "assert"}

Init ==
  /\ events = [d \in Fds |-> {}]
  /\ waiter = [d \in Fds |-> [e \in Events |-> NoClient]]
  /\ scheduler = [d \in Fds |-> {}]
  /\ pending = 0
  /\ interest = [d \in Fds |-> Unwatched]
  /\ ready = [d \in Fds |-> {}]
  /\ armed = [d \in Fds |-> FALSE]
  /\ snap = [p \in Pollers |-> Nothing]
  /\ client = [c \in Clients |-> Idle]
  /\ fault = "none"

-----------------------------------------------------------------------------
(* The kernel.                                                             *)

\* epoll_ctl(op, d, EPOLLET | m).  A new or changed watch is reported at once
\* if the descriptor is ready for it.
CtlFails(op, d) == (op = "ADD") = (interest[d] # Unwatched)

Ctl(op, d, m) ==
  /\ interest' = [interest EXCEPT ![d] = IF op = "DEL" THEN Unwatched ELSE m]
  /\ armed' = [armed EXCEPT ![d] = IF op = "DEL" THEN FALSE
                                   ELSE @ \/ ready[d] \cap (m \cup {"ERR"}) # {}]
  /\ UNCHANGED ready

Watched(d, x) == interest[d] # Unwatched /\ x \in interest[d] \cup {"ERR"}

\* The peer or the network makes d ready for x; more of the same is an edge too.
BecomeReady(d, x) ==
  /\ fault = "none"
  /\ ready' = [ready EXCEPT ![d] = @ \cup {x}]
  /\ armed' = [armed EXCEPT ![d] = @ \/ Watched(d, x)]
  /\ UNCHANGED <<fdVars, interest, snap, client, fault>>

\* Somebody reads all input or fills the output buffer.
Drain(d, e) ==
  /\ fault = "none"
  /\ e \in ready[d]
  /\ "ERR" \notin ready[d]
  /\ ready' = [ready EXCEPT ![d] = @ \ {e}]
  /\ UNCHANGED <<fdVars, interest, armed, snap, client, fault>>

\* close_f(d): the number may come back as another descriptor.  cancelAll ran
\* before it, but a fiber it woke may have called addEvent in between.
KernelClose(d) ==
  /\ fault = "none"
  /\ "all" \in Ops
  /\ events[d] = {} \/ "race" \in Ops
  /\ interest' = [interest EXCEPT ![d] = Unwatched]
  /\ ready' = [ready EXCEPT ![d] = {}]
  /\ armed' = [armed EXCEPT ![d] = FALSE]
  /\ UNCHANGED <<fdVars, snap, client, fault>>

-----------------------------------------------------------------------------
(* Operations of IOScheduler.                                              *)

\* A GGO_ASSERT fails and aborts the process.
Abort == fault' = "assert" /\ UNCHANGED <<fdVars, kernelVars, snap, client>>

Wake(cs) == client' = [c \in Clients |-> IF c \in cs THEN Idle ELSE client[c]]

TriggerKeepsScheduler(d, E) ==  \* mutant: ctx.scheduler is not reset
  /\ events' = [events EXCEPT ![d] = @ \ E]
  /\ waiter' = [waiter EXCEPT ![d] = [e \in Events |-> IF e \in E THEN NoClient ELSE @[e]]]
  /\ pending' = pending - Cardinality(E)
  /\ Wake({waiter[d][e] : e \in E})
  /\ UNCHANGED scheduler

TriggerCountsOnce(d, E) ==  \* mutant: one decrement for the whole descriptor
  /\ events' = [events EXCEPT ![d] = @ \ E]
  /\ waiter' = [waiter EXCEPT ![d] = [e \in Events |-> IF e \in E THEN NoClient ELSE @[e]]]
  /\ scheduler' = [scheduler EXCEPT ![d] = @ \ E]
  /\ pending' = pending - 1
  /\ Wake({waiter[d][e] : e \in E})

\* tiggerEvent for each event of E in turn; an empty context schedules nothing.
Trigger(d, E) ==
  /\ events' = [events EXCEPT ![d] = @ \ E]
  /\ waiter' = [waiter EXCEPT ![d] = [e \in Events |-> IF e \in E THEN NoClient ELSE @[e]]]
  /\ scheduler' = [scheduler EXCEPT ![d] = @ \ E]
  /\ pending' = pending - Cardinality(E)
  /\ Wake({waiter[d][e] : e \in E})

RegisterOnly(c, d, e, op) ==  \* mutant: the new event replaces the watched ones
  /\ Ctl(op, d, {e})
  /\ events' = [events EXCEPT ![d] = @ \cup {e}]
  /\ waiter' = [waiter EXCEPT ![d][e] = c]
  /\ scheduler' = [scheduler EXCEPT ![d] = @ \cup {e}]
  /\ pending' = pending + 1
  /\ client' = [client EXCEPT ![c] = Waiting(d, e)]
  /\ UNCHANGED <<snap, fault>>

\* addEvent(d, e) by the fiber c, which then holds.  Two fibers must not wait
\* for the same event of the same descriptor.
Register(c, d, e, op) ==
  /\ Ctl(op, d, events[d] \cup {e})
  /\ events' = [events EXCEPT ![d] = @ \cup {e}]
  /\ waiter' = [waiter EXCEPT ![d][e] = c]
  /\ scheduler' = [scheduler EXCEPT ![d] = @ \cup {e}]
  /\ pending' = pending + 1
  /\ client' = [client EXCEPT ![c] = Waiting(d, e)]
  /\ UNCHANGED <<snap, fault>>

AddEvent(c, d, e) ==
  /\ fault = "none"
  /\ client[c] = Idle
  /\ \A x \in Clients : ~WaitsFor(x, d, e)
  /\ LET op    == IF events[d] # {} THEN "MOD" ELSE "ADD"
         empty == waiter[d][e] = NoClient /\ e \notin scheduler[d]
     IN  \/ e \in events[d] /\ Abort
         \/ e \notin events[d] /\ CtlFails(op, d) /\ UNCHANGED vars
         \/ e \notin events[d] /\ ~CtlFails(op, d) /\ ~empty /\ Abort
         \/ e \notin events[d] /\ ~CtlFails(op, d) /\ empty /\ Register(c, d, e, op)

\* delEvent and cancelEvent compute the events that stay as events & event and
\* return early unless another event is registered.
Kept(d, e) == events[d] \cap {e}
KeptOp(d, e) == IF Kept(d, e) # {} THEN "MOD" ELSE "ADD"

\* delEvent drops the EventContext of e and schedules nobody: of who waited for e a
\* callback is gone, and a fiber sleeps on.
Forget(d, e) ==
  \E left \in {Idle, Asleep} :
    client' = [c \in Clients |-> IF WaitsFor(c, d, e) THEN left ELSE client[c]]

DelEventResets(d, e) ==  \* mutant: the scheduler is reset, the events are not corrected
  /\ fault = "none"
  /\ "del" \in Ops
  /\ IF events[d] \ {e} = {} \/ CtlFails(KeptOp(d, e), d)
     THEN UNCHANGED vars
     ELSE /\ Ctl(KeptOp(d, e), d, Kept(d, e))
          /\ pending' = pending - 1
          /\ events' = [events EXCEPT ![d] = Kept(d, e)]
          /\ waiter' = [waiter EXCEPT ![d][e] = NoClient]
          /\ Forget(d, e)
          /\ scheduler' = [scheduler EXCEPT ![d] = @ \ {e}]
          /\ UNCHANGED <<snap, fault>>

DelEvent(d, e) ==
  /\ fault = "none"
  /\ "del" \in Ops
  /\ IF events[d] \ {e} = {} \/ CtlFails(KeptOp(d, e), d)
     THEN UNCHANGED vars
     ELSE /\ Ctl(KeptOp(d, e), d, Kept(d, e))
          /\ pending' = pending - 1
          /\ events' = [events EXCEPT ![d] = Kept(d, e)]
          /\ waiter' = [waiter EXCEPT ![d][e] = NoClient]
          /\ Forget(d, e)
          /\ UNCHANGED <<scheduler, snap, fault>>

\* The timer of a waiting client expires and cancels its event.
CancelEvent(c) ==
  /\ fault = "none"
  /\ "cancel" \in Ops
  /\ client[c].at = "waiting" /\ ~client[c].late
  /\ LET d == client[c].fd
         e == client[c].event
     IN  \/ /\ events[d] \ {e} = {} \/ CtlFails(KeptOp(d, e), d)
            /\ client' = [client EXCEPT ![c].late = TRUE]
            /\ UNCHANGED <<fdVars, kernelVars, snap, fault>>
         \/ /\ events[d] \ {e} # {} /\ ~CtlFails(KeptOp(d, e), d)
            /\ e \notin events[d]
            /\ Abort
         \/ /\ events[d] \ {e} # {} /\ ~CtlFails(KeptOp(d, e), d)
            /\ e \in events[d]
            /\ Ctl(KeptOp(d, e), d, Kept(d, e))
            /\ Trigger(d, {e})
            /\ UNCHANGED <<snap, fault>>

\* cancelAll(d), as close() calls it.
CancelAll(d) ==
  /\ fault = "none"
  /\ "all" \in Ops
  /\ events[d] # {}
  /\ IF CtlFails("DEL", d)
     THEN UNCHANGED vars
     ELSE /\ Ctl("DEL", d, {})
          /\ Trigger(d, events[d])
          /\ UNCHANGED <<snap, fault>>

-----------------------------------------------------------------------------
(* idle() on worker p.                                                     *)

\* epoll_wait reports d's state at this moment and takes d off the ready list.
EpollWait(p, d) ==
  /\ fault = "none"
  /\ snap[p] = Nothing
  /\ armed[d]
  /\ LET m == {x \in ready[d] : Watched(d, x)} IN
       snap' = [snap EXCEPT ![p] = IF m = {} THEN Nothing ELSE Got(d, m)]
  /\ armed' = [armed EXCEPT ![d] = FALSE]
  /\ UNCHANGED <<fdVars, interest, ready, client, fault>>

RealNoError(p) == snap[p].mask \cap Events  \* mutant: errors and hang-ups are not looked at

RealUnmasked(p) ==  \* mutant: an error counts as both events, waited for or not
  IF "ERR" \in snap[p].mask THEN Events ELSE snap[p].mask

\* The events to trigger; an error counts as every event waited for.
Real(p) ==
  LET d == snap[p].fd
      m == snap[p].mask
  IN  (m \cap Events) \cup (IF "ERR" \in m THEN events[d] ELSE {})

Dispatch(p) ==
  /\ fault = "none"
  /\ snap[p].at = "got"
  /\ LET d == snap[p].fd
         left == events[d] \ Real(p)
         op == IF left # {} THEN "MOD" ELSE "DEL"
     IN  \/ /\ events[d] \cap Real(p) = {} \/ CtlFails(op, d)
            /\ UNCHANGED <<fdVars, kernelVars, client, fault>>
            /\ snap' = [snap EXCEPT ![p] = Nothing]
         \/ /\ events[d] \cap Real(p) # {} /\ ~CtlFails(op, d)
            /\ ~(Real(p) \subseteq events[d])
            /\ Abort
         \/ /\ events[d] \cap Real(p) # {} /\ ~CtlFails(op, d)
            /\ Real(p) \subseteq events[d]
            /\ Ctl(op, d, left)
            /\ Trigger(d, Real(p))
            /\ snap' = [snap EXCEPT ![p] = Nothing]
            /\ UNCHANGED fault

-----------------------------------------------------------------------------
Next ==
  \/ \E d \in Fds, x \in Mask : BecomeReady(d, x)
  \/ \E d \in Fds, e \in Events : Drain(d, e) \/ DelEvent(d, e)
  \/ \E c \in Clients, d \in Fds, e \in Wanted : AddEvent(c, d, e)
  \/ \E c \in Clients : CancelEvent(c)
  \/ \E d \in Fds : CancelAll(d) \/ KernelClose(d)
  \/ \E p \in Pollers : Dispatch(p) \/ \E d \in Fds : EpollWait(p, d)
  \/ fault # "none" /\ UNCHANGED vars

Spec == Init /\ [][Next]_vars

\* The idle fibers keep running.  epoll_wait hands out its ready list in order,
\* 256 descriptors at a time, so no descriptor on it is passed over for ever.
FairSpec ==
  /\ Spec
  /\ \A p \in Pollers : WF_vars(Dispatch(p))
  /\ \A d \in Fds : SF_vars(\E p \in Pollers : EpollWait(p, d))

-----------------------------------------------------------------------------
(* Safety.                                                                 *)

\* epoll watches a descriptor for exactly the events registered in its
\* FdContext, and not at all when there are none: nobody waits for an event
\* that epoll does not report.
EpollMatches ==
  fault = "none" =>
    \A d \in Fds : interest[d] = IF events[d] = {} THEN Unwatched ELSE events[d]

\* The three places that say who waits agree: the bit in events, the
\* EventContext (fiber or callback, and scheduler) and the waiting fiber.
\* A fiber that left its context behind, or a context without its fiber, would
\* be a lost wake-up.
ContextMatches ==
  fault = "none" =>
    \A d \in Fds, e \in Events :
      /\ e \in events[d] <=> e \in scheduler[d]
      /\ e \in events[d] <=> waiter[d][e] # NoClient
      /\ \A c \in Clients : waiter[d][e] = c <=> WaitsFor(c, d, e)

\* tiggerEvent calls ctx.scheduler->schedule: the pointer is set for every
\* registered event, whatever mix of operations came before.
SchedulerSet == \A d \in Fds : events[d] \subseteq scheduler[d]

\* m_pendingEventCount, which keeps the scheduler from stopping, is the number
\* of registered events: too high and stop() never returns, too low and it
\* leaves waiting fibers behind.
PendingCount ==
  pending = Cardinality({x \in Fds \X Events : x[2] \in events[x[1]]})

\* The assertions of tiggerEvent and addEvent hold: no event is triggered that
\* is not registered, and no context is registered over another.
NoFault == fault = "none"

\* cancelEvent is documented to trigger the event and delete it
\* (ioScheduler.h:103-106): a fiber whose event was cancelled is not waiting.
CancelWakes == \A c \in Clients : client[c].at = "waiting" => ~client[c].late

(* Liveness.                                                               *)

\* No edge is lost: a fiber that waits for an event its descriptor is ready
\* for, or whose descriptor failed, is woken unless somebody else uses the
\* event up.
ReadyWakes ==
  \A c \in Clients, d \in Fds, e \in Events :
    WaitsFor(c, d, e) /\ ready[d] \cap {e, "ERR"} # {}
      ~> ~WaitsFor(c, d, e) \/ ready[d] \cap {e, "ERR"} = {}

=============================================================================
