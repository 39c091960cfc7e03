--------------------------- MODULE FdEventsProofs ---------------------------
(***************************************************************************)
(* Two results about the event side of the IO scheduler.                   *)
(*                                                                         *)
(* The use of it that is safe (ServerSafe): when every fiber waits for the *)
(* same event (a server that only reads, say) and no event is deleted, any *)
(* number of idle threads may dispatch snapshots as stale as they like.    *)
(*                                                                         *)
(* The pending count is exact whatever a program does (AlwaysCounted):     *)
(* both events, every operation, snapshots as stale as they like, and a    *)
(* close in the middle of addEvent.  The argument needs neither epoll nor  *)
(* the waiting fibers: each handler changes the events of one descriptor   *)
(* and counts what it changed, although delEvent keeps the wrong event.    *)
(***************************************************************************)
EXTENDS FdEvents, FiniteSetTheorems, TLAPS

\* The types of what the argument needs.
Types ==
  /\ events \in [Fds -> SUBSET Events]
  /\ waiter \in [Fds -> [Events -> Clients \cup {NoClient}]]
  /\ scheduler \in [Fds -> SUBSET Events]
  /\ interest \in [Fds -> {Unwatched} \cup SUBSET Events]
  /\ client \in [Clients -> {Idle} \cup
       [at : {"waiting"}, fd : Fds, event : Events, late : BOOLEAN]]
  /\ snap \in [Pollers -> {Nothing} \cup [at : {"got"}, fd : Fds, mask : SUBSET Mask]]

\* The same for the contexts: who waits is in the contexts, and nobody else.
Waiters ==
  \A d \in Fds, e \in Events :
    /\ e \in events[d] <=> e \in scheduler[d]
    /\ e \in events[d] <=> waiter[d][e] # NoClient
    /\ \A c \in Clients : waiter[d][e] = c <=> WaitsFor(c, d, e)

Watches ==
  \A d \in Fds : interest[d] = IF events[d] = {} THEN Unwatched ELSE events[d]

\* What a poller took from epoll is of the one event that is ever watched.
SnapKind == \A p \in Pollers : snap[p].at = "got" => snap[p].mask \cap Events \subseteq Wanted
OneKind == \A d \in Fds : events[d] \subseteq Wanted

Inv == Types /\ Waiters /\ Watches /\ SnapKind /\ OneKind /\ fault = "none"

\* The assumption: one event in use, no delEvent, no close during addEvent.
ServerUse == (\E k \in Events : Wanted = {k}) /\ Ops \subseteq {"cancel", "all"}

-----------------------------------------------------------------------------
\* Nothing is registered at the start.
LEMMA InitInv == Init => Inv
<1> SUFFICES ASSUME Init PROVE Inv
  OBVIOUS
<1> USE FdEventsAssumption DEF Init
<1>1. Types
  BY DEF Types
<1>2. Waiters
  BY DEF Waiters, WaitsFor, Idle
<1>3. Watches /\ SnapKind /\ OneKind
  BY DEF Watches, SnapKind, OneKind, Nothing
<1> QED BY <1>1, <1>2, <1>3 DEF Inv

\* Triggering registered events wakes exactly the fibers that wait for them.
LEMMA TriggerKeeps ==
  ASSUME Types, Waiters, NEW d \in Fds, NEW E \in SUBSET events[d], Trigger(d, E)
  PROVE  /\ events' \in [Fds -> SUBSET Events]
         /\ waiter' \in [Fds -> [Events -> Clients \cup {NoClient}]]
         /\ scheduler' \in [Fds -> SUBSET Events]
         /\ client' \in [Clients -> {Idle} \cup
              [at : {"waiting"}, fd : Fds, event : Events, late : BOOLEAN]]
         /\ Waiters'
         /\ events' = [events EXCEPT ![d] = @ \ E]
<1>1. /\ events' = [events EXCEPT ![d] = @ \ E]
      /\ waiter' = [waiter EXCEPT ![d] =
                      [e \in Events |-> IF e \in E THEN NoClient ELSE @[e]]]
      /\ scheduler' = [scheduler EXCEPT ![d] = @ \ E]
  BY DEF Trigger
<1>2. \A c \in Clients :
        client'[c] = IF \E e \in E : waiter[d][e] = c THEN Idle ELSE client[c]
  BY DEF Trigger, Wake
<1>3. /\ events' \in [Fds -> SUBSET Events]
      /\ waiter' \in [Fds -> [Events -> Clients \cup {NoClient}]]
      /\ scheduler' \in [Fds -> SUBSET Events]
  BY <1>1 DEF Types
<1>4. client' \in [Clients -> {Idle} \cup
        [at : {"waiting"}, fd : Fds, event : Events, late : BOOLEAN]]
  BY DEF Types, Trigger, Wake
<1>5. ASSUME NEW b \in Fds, NEW e \in Events
      PROVE  /\ e \in events'[b] <=> (e \in events[b] /\ ~(b = d /\ e \in E))
             /\ e \in scheduler'[b] <=> (e \in scheduler[b] /\ ~(b = d /\ e \in E))
             /\ waiter'[b][e] = IF b = d /\ e \in E THEN NoClient ELSE waiter[b][e]
  BY <1>1 DEF Types
<1>6. ASSUME NEW c \in Clients, NEW b \in Fds, NEW e \in Events
      PROVE  WaitsFor(c, b, e)' <=> (WaitsFor(c, b, e) /\ ~(b = d /\ e \in E))
  <2>1. CASE \E x \in E : waiter[d][x] = c
    <3>1. PICK x \in E : waiter[d][x] = c
      BY <2>1
    <3>2. WaitsFor(c, d, x)
      BY <3>1 DEF Waiters, Types
    <3>3. WaitsFor(c, b, e) => b = d /\ e = x
      BY <3>2 DEF WaitsFor
    <3>4. ~WaitsFor(c, b, e)'
      BY <1>2, <2>1 DEF WaitsFor, Idle
    <3> QED BY <3>1, <3>3, <3>4
  <2>2. CASE ~\E x \in E : waiter[d][x] = c
    <3>1. WaitsFor(c, b, e)' <=> WaitsFor(c, b, e)
      BY <1>2, <2>2 DEF WaitsFor
    <3>2. WaitsFor(c, b, e) => waiter[b][e] = c
      BY DEF Waiters
    <3> QED BY <2>2, <3>1, <3>2
  <2> QED BY <2>1, <2>2
<1>7. Waiters'
  <2> SUFFICES ASSUME NEW b \in Fds, NEW e \in Events
               PROVE  /\ e \in events'[b] <=> e \in scheduler'[b]
                      /\ e \in events'[b] <=> waiter'[b][e] # NoClient
                      /\ \A c \in Clients : waiter'[b][e] = c <=> WaitsFor(c, b, e)'
    BY DEF Waiters
  <2>1. /\ e \in events[b] <=> e \in scheduler[b]
        /\ e \in events[b] <=> waiter[b][e] # NoClient
        /\ \A c \in Clients : waiter[b][e] = c <=> WaitsFor(c, b, e)
    BY DEF Waiters
  <2>2. \A c \in Clients : c # NoClient
    BY FdEventsAssumption
  <2> QED BY <1>5, <1>6, <2>1, <2>2
<1> QED BY <1>1, <1>3, <1>4, <1>7

-----------------------------------------------------------------------------
\* A fiber that may call addEvent finds its context empty and epoll agreeing
\* with it; registering keeps the invariant.
LEMMA AddEventInv ==
  ASSUME Inv, NEW c \in Clients, NEW d \in Fds, NEW e \in Wanted, AddEvent(c, d, e)
  PROVE  Inv'
<1> DEFINE op == IF events[d] # {} THEN "MOD" ELSE "ADD"
<1>0. e \in Events /\ client[c] = Idle /\ \A x \in Clients : ~WaitsFor(x, d, e)
  BY FdEventsAssumption DEF AddEvent, Events
<1>1. waiter[d][e] = NoClient /\ e \notin events[d] /\ e \notin scheduler[d]
  BY <1>0 DEF Inv, Waiters, Types
<1>2. ~CtlFails(op, d)
  BY Zenon DEF Inv, Watches, CtlFails, Unwatched, Types, Events
<1>3. Register(c, d, e, op)
  BY <1>1, <1>2 DEF AddEvent
<1>4. /\ events' = [events EXCEPT ![d] = @ \cup {e}]
      /\ waiter' = [waiter EXCEPT ![d][e] = c]
      /\ scheduler' = [scheduler EXCEPT ![d] = @ \cup {e}]
      /\ interest' = [interest EXCEPT ![d] = events[d] \cup {e}]
      /\ client' = [client EXCEPT ![c] = Waiting(d, e)]
      /\ snap' = snap /\ fault' = fault
  BY <1>3 DEF Register, Ctl
<1>5. Types'
  BY <1>0, <1>4 DEF Inv, Types, Waiting
<1>6. ASSUME NEW b \in Fds, NEW x \in Events
      PROVE  /\ x \in events'[b] <=> (x \in events[b] \/ (b = d /\ x = e))
             /\ x \in scheduler'[b] <=> (x \in scheduler[b] \/ (b = d /\ x = e))
             /\ waiter'[b][x] = IF b = d /\ x = e THEN c ELSE waiter[b][x]
  BY <1>0, <1>4 DEF Inv, Types
<1>7. ASSUME NEW y \in Clients, NEW b \in Fds, NEW x \in Events
      PROVE  WaitsFor(y, b, x)' <=> (WaitsFor(y, b, x) \/ (y = c /\ b = d /\ x = e))
  BY <1>0, <1>4 DEF Inv, Types, WaitsFor, Waiting, Idle
<1>8. Waiters'
  <2> SUFFICES ASSUME NEW b \in Fds, NEW x \in Events
               PROVE  /\ x \in events'[b] <=> x \in scheduler'[b]
                      /\ x \in events'[b] <=> waiter'[b][x] # NoClient
                      /\ \A y \in Clients : waiter'[b][x] = y <=> WaitsFor(y, b, x)'
    BY DEF Waiters
  <2>1. /\ x \in events[b] <=> x \in scheduler[b]
        /\ x \in events[b] <=> waiter[b][x] # NoClient
        /\ \A y \in Clients : waiter[b][x] = y <=> WaitsFor(y, b, x)
    BY DEF Inv, Waiters
  <2>2. c # NoClient
    BY FdEventsAssumption
  <2> QED BY <1>0, <1>6, <1>7, <2>1, <2>2
<1>9. Watches'
  BY <1>0, <1>4 DEF Inv, Watches, Types
<1>10. SnapKind' /\ OneKind' /\ fault' = "none"
  BY <1>4 DEF Inv, SnapKind, OneKind, Types
<1> QED BY <1>5, <1>8, <1>9, <1>10 DEF Inv

\* A timeout finds no other event registered and does nothing but mark the
\* fiber.
LEMMA CancelEventInv ==
  ASSUME ServerUse, Inv, NEW c \in Clients, CancelEvent(c)
  PROVE  Inv'
<1> DEFINE d == client[c].fd
           e == client[c].event
<1>1. d \in Fds /\ e \in Events /\ WaitsFor(c, d, e)
  BY DEF CancelEvent, WaitsFor, Inv, Types, Idle
<1>2. e \in events[d]
  BY <1>1, FdEventsAssumption DEF Inv, Waiters
<1>3. events[d] \ {e} = {}
  BY <1>1, <1>2 DEF Inv, OneKind, ServerUse
<1>4. /\ client' = [client EXCEPT ![c].late = TRUE]
      /\ UNCHANGED <<fdVars, kernelVars, snap, fault>>
  BY <1>3 DEF CancelEvent
<1>5. client[c] \in [at : {"waiting"}, fd : Fds, event : Events, late : BOOLEAN]
  BY DEF CancelEvent, Inv, Types, Idle
<1>6. Types'
  BY <1>4, <1>5 DEF Inv, Types, fdVars, kernelVars
<1>7. ASSUME NEW y \in Clients, NEW b \in Fds, NEW x \in Events
      PROVE  WaitsFor(y, b, x)' <=> WaitsFor(y, b, x)
  BY <1>4, <1>5 DEF WaitsFor, Inv, Types
<1>8. Waiters' /\ Watches' /\ SnapKind' /\ OneKind' /\ fault' = "none"
  BY <1>4, <1>7
  DEF Inv, Waiters, Watches, SnapKind, OneKind, fdVars, kernelVars
<1> QED BY <1>6, <1>8 DEF Inv

\* cancelAll triggers what is registered and takes the descriptor out of epoll.
LEMMA CancelAllInv ==
  ASSUME Inv, NEW d \in Fds, CancelAll(d)
  PROVE  Inv'
<1>1. ~CtlFails("DEL", d)
  BY Zenon DEF CancelAll, Inv, Watches, CtlFails, Unwatched, Types, Events
<1>2. /\ interest' = [interest EXCEPT ![d] = Unwatched]
      /\ Trigger(d, events[d])
      /\ snap' = snap /\ fault' = fault
  BY <1>1 DEF CancelAll, Ctl
<1>3. /\ events' \in [Fds -> SUBSET Events]
      /\ waiter' \in [Fds -> [Events -> Clients \cup {NoClient}]]
      /\ scheduler' \in [Fds -> SUBSET Events]
      /\ client' \in [Clients -> {Idle} \cup
           [at : {"waiting"}, fd : Fds, event : Events, late : BOOLEAN]]
      /\ Waiters'
      /\ events' = [events EXCEPT ![d] = @ \ events[d]]
  BY <1>2, TriggerKeeps DEF Inv
<1>4. Types'
  BY <1>2, <1>3 DEF Inv, Types
<1>5. Watches'
  BY <1>2, <1>3 DEF Inv, Watches, Types
<1>6. SnapKind' /\ OneKind' /\ fault' = "none"
  BY <1>2, <1>3 DEF Inv, SnapKind, OneKind, Types
<1> QED BY <1>3, <1>4, <1>5, <1>6 DEF Inv

\* A snapshot that overlaps the registered events is exactly the one event.
LEMMA DispatchInv ==
  ASSUME ServerUse, Inv, NEW p \in Pollers, Dispatch(p)
  PROVE  Inv'
<1> DEFINE d == snap[p].fd
           left == events[d] \ Real(p)
           op == IF left # {} THEN "MOD" ELSE "DEL"
<1>1. d \in Fds /\ snap[p].mask \in SUBSET Mask /\ snap[p].at = "got"
  BY DEF Dispatch, Inv, Types, Nothing
<1>2. Real(p) \subseteq Wanted /\ events[d] \subseteq Wanted
  BY <1>1 DEF Real, Inv, SnapKind, OneKind
<1>3. ~CtlFails(op, d) \/ events[d] = {}
  BY <1>1, Zenon DEF Inv, Watches, CtlFails, Unwatched, Types, Events
<1>4. CASE events[d] \cap Real(p) = {}
  <2>1. snap' = [snap EXCEPT ![p] = Nothing] /\ UNCHANGED <<fdVars, kernelVars, client, fault>>
    BY <1>4 DEF Dispatch
  <2>2. Types' /\ SnapKind'
    BY <2>1 DEF Inv, Types, SnapKind, Nothing, fdVars, kernelVars
  <2>3. Waiters' /\ Watches' /\ OneKind' /\ fault' = "none"
    BY <2>1 DEF Inv, Waiters, Watches, OneKind, WaitsFor, fdVars, kernelVars
  <2> QED BY <2>2, <2>3 DEF Inv
<1>5. CASE events[d] \cap Real(p) # {}
  <2>1. Real(p) = events[d] /\ left = {} /\ Real(p) \in SUBSET events[d]
    BY <1>2, <1>5 DEF ServerUse
  <2>2. /\ Ctl("DEL", d, left)
        /\ Trigger(d, Real(p))
        /\ snap' = [snap EXCEPT ![p] = Nothing]
        /\ fault' = fault
    BY <1>3, <1>5, <2>1 DEF Dispatch
  <2>3. interest' = [interest EXCEPT ![d] = Unwatched]
    BY <2>2 DEF Ctl
  <2>4. /\ events' \in [Fds -> SUBSET Events]
        /\ waiter' \in [Fds -> [Events -> Clients \cup {NoClient}]]
        /\ scheduler' \in [Fds -> SUBSET Events]
        /\ client' \in [Clients -> {Idle} \cup
             [at : {"waiting"}, fd : Fds, event : Events, late : BOOLEAN]]
        /\ Waiters'
        /\ events' = [events EXCEPT ![d] = @ \ Real(p)]
    BY <1>1, <2>1, <2>2, TriggerKeeps DEF Inv
  <2>5. events' = [events EXCEPT ![d] = {}]
    BY <2>1, <2>4
  <2>6. Types'
    BY <2>2, <2>3, <2>4 DEF Inv, Types
  <2>7. Watches'
    BY <1>1, <2>3, <2>5 DEF Inv, Watches, Types
  <2>8. SnapKind' /\ OneKind' /\ fault' = "none"
    BY <2>2, <2>5 DEF Inv, SnapKind, OneKind, Types, Nothing
  <2> QED BY <2>4, <2>6, <2>7, <2>8 DEF Inv
<1> QED BY <1>4, <1>5

\* The kernel reports nothing but watched events and errors.
LEMMA EpollWaitInv ==
  ASSUME Inv, NEW p \in Pollers, NEW d \in Fds, EpollWait(p, d),
         ready \in [Fds -> SUBSET Mask]
  PROVE  Inv'
<1> DEFINE m == {x \in ready[d] : Watched(d, x)}
<1>1. /\ snap' = [snap EXCEPT ![p] = IF m = {} THEN Nothing ELSE Got(d, m)]
      /\ UNCHANGED <<fdVars, interest, client, fault>>
  BY DEF EpollWait
<1>2. m \in SUBSET Mask
  OBVIOUS
<1>3. m \cap Events \subseteq Wanted
  BY DEF Watched, Inv, Watches, OneKind, Types, Events, Unwatched
<1> HIDE DEF m
<1>4. Types' /\ SnapKind'
  BY <1>1, <1>2, <1>3 DEF Inv, Types, SnapKind, Nothing, Got, fdVars
<1>5. Waiters' /\ Watches' /\ OneKind' /\ fault' = "none"
  BY <1>1 DEF Inv, Waiters, Watches, OneKind, WaitsFor, fdVars
<1> QED BY <1>4, <1>5 DEF Inv

\* Steps of the kernel and the peer that leave the registrations alone.
LEMMA KernelInv ==
  ASSUME Inv, UNCHANGED <<fdVars, interest, snap, client, fault>>
  PROVE  Inv'
<1>1. Types' /\ SnapKind'
  BY DEF Inv, Types, SnapKind, fdVars
<1>2. Waiters' /\ Watches' /\ OneKind' /\ fault' = "none"
  BY DEF Inv, Waiters, Watches, OneKind, WaitsFor, fdVars
<1> QED BY <1>1, <1>2 DEF Inv

\* What the kernel may report stays a set of epoll flags.
Ready == ready \in [Fds -> SUBSET Mask]

\* Under ServerUse every step keeps the invariant.
LEMMA NextInv == ASSUME ServerUse, Inv, Ready, [Next]_vars PROVE Inv' /\ Ready'
<1>1. ASSUME NEW d \in Fds, NEW x \in Mask, BecomeReady(d, x) PROVE Inv' /\ Ready'
  <2>1. Inv'
    BY <1>1, KernelInv DEF BecomeReady
  <2>2. Ready'
    BY <1>1 DEF BecomeReady, Ready
  <2> QED BY <2>1, <2>2
<1>2. ASSUME NEW d \in Fds, NEW e \in Events, Drain(d, e) PROVE Inv' /\ Ready'
  <2>1. Inv'
    BY <1>2, KernelInv DEF Drain
  <2>2. Ready'
    BY <1>2 DEF Drain, Ready
  <2> QED BY <2>1, <2>2
<1>3. ASSUME NEW d \in Fds, NEW e \in Events PROVE ~DelEvent(d, e)
  BY DEF ServerUse, DelEvent
<1>4. ASSUME NEW c \in Clients, NEW d \in Fds, NEW e \in Wanted, AddEvent(c, d, e)
      PROVE  Inv' /\ Ready'
  <2>1. Inv'
    BY <1>4, AddEventInv
  <2>2. ready' = ready
    BY <1>4 DEF AddEvent, Abort, Register, Ctl, vars, kernelVars
  <2> QED BY <2>1, <2>2 DEF Ready
<1>5. ASSUME NEW c \in Clients, CancelEvent(c) PROVE Inv' /\ Ready'
  <2>1. Inv'
    BY <1>5, CancelEventInv
  <2>2. ready' = ready
    BY <1>5 DEF CancelEvent, Abort, Ctl, kernelVars
  <2> QED BY <2>1, <2>2 DEF Ready
<1>6. ASSUME NEW d \in Fds, CancelAll(d) PROVE Inv' /\ Ready'
  <2>1. Inv'
    BY <1>6, CancelAllInv
  <2>2. ready' = ready
    BY <1>6 DEF CancelAll, Ctl, vars, kernelVars
  <2> QED BY <2>1, <2>2 DEF Ready
<1>7. ASSUME NEW d \in Fds, KernelClose(d) PROVE Inv' /\ Ready'
  <2>1. events[d] = {}
    BY <1>7 DEF KernelClose, ServerUse
  <2>2. interest' = interest
    BY <1>7, <2>1 DEF KernelClose, Inv, Watches, Types
  <2>3. Inv'
    BY <1>7, <2>2, KernelInv DEF KernelClose
  <2>4. Ready'
    BY <1>7 DEF KernelClose, Ready
  <2> QED BY <2>3, <2>4
<1>8. ASSUME NEW p \in Pollers, Dispatch(p) PROVE Inv' /\ Ready'
  <2>1. Inv'
    BY <1>8, DispatchInv
  <2>2. ready' = ready
    BY <1>8 DEF Dispatch, Abort, Ctl, kernelVars
  <2> QED BY <2>1, <2>2 DEF Ready
<1>9. ASSUME NEW p \in Pollers, NEW d \in Fds, EpollWait(p, d) PROVE Inv' /\ Ready'
  <2>1. Inv'
    BY <1>9, EpollWaitInv DEF Ready
  <2>2. ready' = ready
    BY <1>9 DEF EpollWait
  <2> QED BY <2>1, <2>2 DEF Ready
<1>10. CASE UNCHANGED vars
  BY <1>10, KernelInv DEF vars, kernelVars, Ready
<1> QED BY <1>1, <1>2, <1>3, <1>4, <1>5, <1>6, <1>7, <1>8, <1>9, <1>10 DEF Next

\* For any number of descriptors, idle threads and fibers: if all wait for the
\* same event and nothing is deleted, then no assertion of addEvent or
\* tiggerEvent fails, the contexts name exactly the fibers that wait, and epoll
\* watches exactly what is registered, however stale the snapshots are.
THEOREM ServerSafe ==
  ASSUME ServerUse
  PROVE  Spec => [](NoFault /\ ContextMatches /\ EpollMatches /\ SchedulerSet)
<1>1. Init => Inv /\ Ready
  BY InitInv DEF Init, Ready
<1>2. Inv /\ Ready /\ [Next]_vars => (Inv /\ Ready)'
  BY NextInv
<1>3. Inv => NoFault /\ ContextMatches /\ EpollMatches /\ SchedulerSet
  BY DEF Inv, NoFault, ContextMatches, EpollMatches, SchedulerSet, Waiters, Watches, Types
<1> QED BY <1>1, <1>2, <1>3, PTL DEF Spec

-----------------------------------------------------------------------------
\* All registrations of events.
Registered == {x \in Fds \X Events : x[2] \in events[x[1]]}

\* The types of what the count needs; who waits is not among it.
CountTypes ==
  /\ events \in [Fds -> SUBSET Events]
  /\ scheduler \in [Fds -> SUBSET Events]
  /\ pending \in Nat
  /\ ready \in [Fds -> SUBSET Mask]
  /\ client \in [Clients -> {Idle, Asleep} \cup
       [at : {"waiting"}, fd : Fds, event : Events, late : BOOLEAN]]
  /\ snap \in [Pollers -> {Nothing} \cup [at : {"got"}, fd : Fds, mask : SUBSET Mask]]

\* The count is the number of registrations.
CountInv == CountTypes /\ pending = Cardinality(Registered) /\ SchedulerSet

\* There are finitely many registrations.
LEMMA RegisteredFinite == IsFiniteSet(Registered) /\ Cardinality(Registered) \in Nat
<1>1. IsFiniteSet({"READ"} \cup {"WRITE"})
  <2>1. IsFiniteSet({"READ"}) BY FS_Singleton
  <2>2. QED BY <2>1, FS_AddElement
<1>2. IsFiniteSet(Fds \X Events)
  <2>1. Events = {"READ"} \cup {"WRITE"} BY DEF Events
  <2>2. QED BY <1>1, <2>1, FS_Product, FdEventsAssumption
<1>3. QED BY <1>2, FS_Subset, FS_CardinalityType DEF Registered

\* A set that loses one of its elements.
LEMMA Less ==
  ASSUME NEW S, IsFiniteSet(S), NEW x \in S
  PROVE  /\ IsFiniteSet(S \ {x})
         /\ Cardinality(S) \in Nat
         /\ Cardinality(S \ {x}) = Cardinality(S) - 1
BY FS_RemoveElement, FS_CardinalityType

\* Events that are unregistered are as many registrations fewer.
LEMMA Unregistered ==
  ASSUME CountTypes, NEW d \in Fds, NEW E \in SUBSET events[d],
         events' = [events EXCEPT ![d] = @ \ E]
  PROVE  /\ Cardinality(E) \in Nat
         /\ Cardinality(Registered') = Cardinality(Registered) - Cardinality(E)
         /\ Cardinality(Registered') \in Nat
<1> USE RegisteredFinite
<1>1. Registered' = Registered \ {<<d, e>> : e \in E}
  BY DEF Registered, CountTypes
<1>2. \A e \in E : <<d, e>> \in Registered
  BY DEF Registered, CountTypes
<1>3. IsFiniteSet(Registered') /\ Cardinality(Registered') \in Nat
  BY <1>1, FS_Subset, FS_CardinalityType
<1>4. E \in {{}, {"READ"}, {"WRITE"}, {"READ", "WRITE"}}
  <2>1. E \subseteq {"READ", "WRITE"} BY DEF CountTypes, Events
  <2>2. QED BY <2>1
<1>5. CASE E = {}
  <2>1. Registered' = Registered BY <1>1, <1>5
  <2>2. Cardinality(E) = 0 BY <1>5, FS_EmptySet
  <2>3. QED BY <2>1, <2>2
<1>6. ASSUME NEW e, E = {e}
      PROVE  Cardinality(E) = 1 /\ Cardinality(Registered') = Cardinality(Registered) - 1
  <2>1. Registered' = Registered \ {<<d, e>>} BY <1>1, <1>6
  <2>2. QED BY <1>2, <1>6, <2>1, Less, FS_Singleton
<1>7. CASE E = {"READ", "WRITE"}
  <2>1. Registered' = (Registered \ {<<d, "READ">>}) \ {<<d, "WRITE">>} BY <1>1, <1>7
  <2>2. <<d, "WRITE">> \in Registered \ {<<d, "READ">>} BY <1>2, <1>7
  <2>3. Cardinality(Registered') = Cardinality(Registered) - 2
    <3>1. <<d, "READ">> \in Registered BY <1>2, <1>7
    <3>2. /\ IsFiniteSet(Registered \ {<<d, "READ">>})
          /\ Cardinality(Registered \ {<<d, "READ">>}) = Cardinality(Registered) - 1
      BY <3>1, Less
    <3>3. Cardinality(Registered') = Cardinality(Registered \ {<<d, "READ">>}) - 1
      BY <2>1, <2>2, <3>2, Less
    <3>4. QED BY <3>2, <3>3
  <2>4. Cardinality(E) = 2
    <3>1. E \ {"READ"} = {"WRITE"} BY <1>7
    <3>2. IsFiniteSet(E)
      <4>1. E = {"READ"} \cup {"WRITE"} BY <1>7
      <4>2. IsFiniteSet({"READ"}) BY FS_Singleton
      <4>3. QED BY <4>1, <4>2, FS_AddElement
    <3>3. Cardinality({"WRITE"}) = 1 BY FS_Singleton
    <3>4. Cardinality({"WRITE"}) = Cardinality(E) - 1 /\ Cardinality(E) \in Nat
      BY <1>7, <3>1, <3>2, Less
    <3>5. QED BY <3>3, <3>4
  <2>5. QED BY <1>3, <2>3, <2>4
<1>8. CASE E = {"READ"}
  <2>1. Cardinality(E) = 1 /\ Cardinality(Registered') = Cardinality(Registered) - 1
    BY ONLY <1>6, <1>8
  <2>2. QED BY <1>3, <2>1
<1>9. CASE E = {"WRITE"}
  <2>1. Cardinality(E) = 1 /\ Cardinality(Registered') = Cardinality(Registered) - 1
    BY ONLY <1>6, <1>9
  <2>2. QED BY <1>3, <2>1
<1>10. QED BY <1>4, <1>5, <1>7, <1>8, <1>9

\* One event more is one registration more.
LEMMA Counted ==
  ASSUME CountTypes, NEW d \in Fds, NEW e \in Events, e \notin events[d],
         events' = [events EXCEPT ![d] = @ \cup {e}]
  PROVE  Cardinality(Registered') = Cardinality(Registered) + 1
<1>1. Registered' = Registered \cup {<<d, e>>} BY DEF Registered, CountTypes
<1>2. <<d, e>> \notin Registered BY DEF Registered
<1>3. QED BY <1>1, <1>2, RegisteredFinite, FS_AddElement

-----------------------------------------------------------------------------
\* Triggering events that are registered.
LEMMA TriggerCounts ==
  ASSUME CountInv, NEW d \in Fds, NEW E \in SUBSET events[d], Trigger(d, E)
  PROVE  /\ events' \in [Fds -> SUBSET Events]
         /\ scheduler' \in [Fds -> SUBSET Events]
         /\ pending' \in Nat
         /\ client' \in [Clients -> {Idle, Asleep} \cup
              [at : {"waiting"}, fd : Fds, event : Events, late : BOOLEAN]]
         /\ pending' = Cardinality(Registered')
         /\ SchedulerSet'
<1>1. events' = [events EXCEPT ![d] = @ \ E] BY DEF Trigger
<1>2. pending' = Cardinality(Registered') /\ pending' \in Nat
  BY <1>1, Unregistered DEF CountInv, Trigger
<1>3. QED BY <1>2 DEF CountInv, CountTypes, Trigger, Wake, SchedulerSet

\* addEvent registers one event and counts one, or does nothing.
LEMMA AddEventKeeps ==
  ASSUME CountInv, NEW c \in Clients, NEW d \in Fds, NEW e \in Wanted, AddEvent(c, d, e)
  PROVE  CountInv'
<1> DEFINE op == IF events[d] # {} THEN "MOD" ELSE "ADD"
<1>0. e \in Events BY FdEventsAssumption DEF Events
<1>1. CASE UNCHANGED <<events, scheduler, pending, ready, client, snap>>
  BY <1>1 DEF CountInv, CountTypes, Registered, SchedulerSet
<1>2. CASE e \notin events[d] /\ Register(c, d, e, op)
  <2>0. events' = [events EXCEPT ![d] = @ \cup {e}] BY <1>2 DEF Register
  <2>1. pending' = Cardinality(Registered') /\ pending' \in Nat
    <3>1. Cardinality(Registered') = Cardinality(Registered) + 1
      BY <1>0, <1>2, <2>0, Counted DEF CountInv
    <3>2. pending' = pending + 1 BY <1>2 DEF Register
    <3>3. QED BY <3>1, <3>2, RegisteredFinite DEF CountInv
  <2>2. CountTypes'
    BY <1>0, <1>2, <2>1 DEF CountInv, Register, Ctl, CountTypes, Waiting
  <2>3. SchedulerSet' BY <1>0, <1>2 DEF CountInv, Register, CountTypes, SchedulerSet
  <2>4. QED BY <2>1, <2>2, <2>3 DEF CountInv
<1>3. QED BY <1>1, <1>2 DEF AddEvent, Abort, fdVars, kernelVars, vars

\* delEvent keeps one event and drops the other, whichever was asked for.
LEMMA DelEventKeeps ==
  ASSUME CountInv, NEW d \in Fds, NEW e \in Events, DelEvent(d, e)
  PROVE  CountInv'
<1>1. CASE UNCHANGED vars
  BY <1>1 DEF CountInv, CountTypes, Registered, SchedulerSet, vars, fdVars, kernelVars
<1>2. CASE ~UNCHANGED vars
  <2> DEFINE E == events[d] \ {e}
  <2>1. /\ E # {}
        /\ pending' = pending - 1
        /\ events' = [events EXCEPT ![d] = Kept(d, e)]
        /\ \E left \in {Idle, Asleep} :
             client' = [c \in Clients |-> IF WaitsFor(c, d, e) THEN left ELSE client[c]]
        /\ UNCHANGED <<scheduler, ready, snap>>
    BY <1>2 DEF DelEvent, Ctl, Forget
  <2>2. PICK o \in Events : E = {o}
    BY <2>1 DEF CountInv, CountTypes, Events
  <2>3. events' = [events EXCEPT ![d] = @ \ E]
    BY <2>1 DEF Kept, CountInv, CountTypes
  <2>4. Cardinality(E) = 1 BY <2>2, FS_Singleton
  <2>5. pending' = Cardinality(Registered') /\ pending' \in Nat
    <3>1. E \in SUBSET events[d] OBVIOUS
    <3>2. /\ Cardinality(Registered') = Cardinality(Registered) - 1
          /\ Cardinality(Registered') \in Nat
      BY <2>3, <2>4, <3>1, Unregistered DEF CountInv
    <3>3. QED BY <2>1, <3>2 DEF CountInv
  <2>6. CountTypes' BY <2>1, <2>3, <2>5 DEF CountInv, CountTypes
  <2>7. SchedulerSet' BY <2>1, <2>3 DEF CountInv, CountTypes, SchedulerSet
  <2>8. QED BY <2>5, <2>6, <2>7 DEF CountInv
<1>3. QED BY <1>1, <1>2

\* cancelEvent triggers the event, or comes too late.
LEMMA CancelEventKeeps ==
  ASSUME CountInv, NEW c \in Clients, CancelEvent(c)
  PROVE  CountInv'
<1> DEFINE d == client[c].fd
           e == client[c].event
<1>0. d \in Fds /\ e \in Events BY DEF CancelEvent, CountInv, CountTypes, Idle, Asleep
<1>1. CASE client' = [client EXCEPT ![c].late = TRUE] /\ UNCHANGED <<fdVars, kernelVars, snap>>
  <2>1. client' \in [Clients -> {Idle, Asleep} \cup
          [at : {"waiting"}, fd : Fds, event : Events, late : BOOLEAN]]
    BY <1>1, ZenonT(40) DEF CancelEvent, CountInv, CountTypes, Idle, Asleep
  <2>2. QED BY <1>1, <2>1 DEF CountInv, CountTypes, Registered, SchedulerSet, fdVars, kernelVars
<1>2. CASE Abort
  BY <1>2 DEF Abort, CountInv, CountTypes, Registered, SchedulerSet, fdVars, kernelVars
<1>3. CASE e \in events[d] /\ Trigger(d, {e}) /\ UNCHANGED <<ready, snap>>
  <2>1. {e} \in SUBSET events[d] BY <1>3
  <2>2. QED BY <1>0, <1>3, <2>1, TriggerCounts DEF CountInv, CountTypes
<1>4. QED BY <1>1, <1>2, <1>3 DEF CancelEvent, Ctl

\* cancelAll triggers whatever is registered.
LEMMA CancelAllKeeps ==
  ASSUME CountInv, NEW d \in Fds, CancelAll(d)
  PROVE  CountInv'
<1>1. CASE UNCHANGED vars
  BY <1>1 DEF CountInv, CountTypes, Registered, SchedulerSet, vars, fdVars, kernelVars
<1>2. CASE Trigger(d, events[d]) /\ UNCHANGED <<ready, snap>>
  BY <1>2, TriggerCounts DEF CountInv, CountTypes
<1>3. QED BY <1>1, <1>2 DEF CancelAll, Ctl

\* idle() triggers what the snapshot says, if it is still registered.
LEMMA DispatchKeeps ==
  ASSUME CountInv, NEW p \in Pollers, Dispatch(p)
  PROVE  CountInv'
<1> DEFINE d == snap[p].fd
<1>0. d \in Fds BY DEF Dispatch, CountInv, CountTypes, Nothing
<1>1. CASE UNCHANGED <<fdVars, kernelVars, client>> /\ snap' = [snap EXCEPT ![p] = Nothing]
  BY <1>1 DEF CountInv, CountTypes, Registered, SchedulerSet, fdVars, kernelVars
<1>2. CASE Abort
  BY <1>2 DEF Abort, CountInv, CountTypes, Registered, SchedulerSet, fdVars, kernelVars
<1>3. CASE /\ Real(p) \subseteq events[d] /\ Trigger(d, Real(p)) /\ UNCHANGED ready
           /\ snap' = [snap EXCEPT ![p] = Nothing]
  <2>1. snap' \in [Pollers -> {Nothing} \cup [at : {"got"}, fd : Fds, mask : SUBSET Mask]]
    BY <1>3 DEF CountInv, CountTypes
  <2>2. QED BY <1>0, <1>3, <2>1, TriggerCounts DEF CountInv, CountTypes
<1>4. QED BY <1>1, <1>2, <1>3 DEF Dispatch, Ctl

\* epoll_wait takes a snapshot and changes no context.
LEMMA EpollWaitKeeps ==
  ASSUME CountInv, NEW p \in Pollers, NEW d \in Fds, EpollWait(p, d)
  PROVE  CountInv'
<1> DEFINE m == {x \in ready[d] : Watched(d, x)}
<1>1. m \in SUBSET Mask
  BY DEF CountInv, CountTypes
<1>2. QED BY <1>1 DEF EpollWait, Got, CountInv, CountTypes, Registered, SchedulerSet, fdVars, kernelVars

\* The pending count is exact (ioScheduler.cpp: 142, 186, 222, 256, 260, 360,
\* 364), and the scheduler of a registered event is set (:146), for any mix of
\* operations, events, descriptors, idle threads and fibers.
THEOREM AlwaysCounted == Spec => [](PendingCount /\ SchedulerSet)
<1>1. Init => CountInv
  <2> SUFFICES ASSUME Init PROVE CountInv OBVIOUS
  <2>1. Registered = {} BY DEF Init, Registered
  <2>2. QED BY <2>1, FS_EmptySet DEF Init, CountInv, CountTypes, SchedulerSet
<1>2. CountInv /\ [Next]_vars => CountInv'
  <2> SUFFICES ASSUME CountInv, [Next]_vars PROVE CountInv' OBVIOUS
  <2>1. CASE UNCHANGED <<fdVars, snap, client>> /\ ready' \in [Fds -> SUBSET Mask]
    BY <2>1 DEF CountInv, CountTypes, Registered, SchedulerSet, fdVars
  <2>2. ASSUME NEW d \in Fds, NEW x \in Mask, BecomeReady(d, x)
        PROVE  CountInv'
    BY <2>1, <2>2 DEF BecomeReady, CountInv, CountTypes
  <2>3. ASSUME NEW d \in Fds, NEW e \in Events, Drain(d, e)
        PROVE  CountInv'
    BY <2>1, <2>3 DEF Drain, CountInv, CountTypes
  <2>4. ASSUME NEW d \in Fds, KernelClose(d)
        PROVE  CountInv'
    BY <2>1, <2>4 DEF KernelClose, CountInv, CountTypes
  <2>5. CASE UNCHANGED vars
    BY <2>1, <2>5 DEF vars, kernelVars, CountInv, CountTypes
  <2>6. QED
    BY <2>2, <2>3, <2>4, <2>5, AddEventKeeps, DelEventKeeps, CancelEventKeeps, CancelAllKeeps,
       DispatchKeeps, EpollWaitKeeps
    DEF Next
<1>3. CountInv => PendingCount /\ SchedulerSet BY DEF CountInv, PendingCount, Registered
<1>4. QED BY <1>1, <1>2, <1>3, PTL DEF Spec
=============================================================================
