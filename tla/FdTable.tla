------------------------------ MODULE FdTable -------------------------------
(***************************************************************************)
(* IOScheduler::m_fdContexts: the table from descriptors to FdContexts.    *)
(* Operations look their context up under the table's read lock, let go of *)
(* it, and then lock the context.  addEvent grows the table when the       *)
(* descriptor is beyond its end; it gives up the read lock before it takes *)
(* the write lock and does not look at the size again, so the resize of a  *)
(* late thread may shrink what another one has grown.                      *)
(*                                                                         *)
(* FdEvents models what happens inside one FdContext; here a context only  *)
(* has registered events or not.                                           *)
(***************************************************************************)
EXTENDS Naturals

CONSTANTS Threads,
          Fds,         \* the descriptors in use
          InitialSize, \* contextResize(32) in the constructor
          MaxMade      \* bound of the model: nobody begins to grow the table when
                       \* more contexts than this were made for one descriptor

ASSUME FdTableAssumption ==
  /\ Fds \subseteq Nat
  /\ InitialSize \in Nat \ {0}
  /\ MaxMade \in Nat

VARIABLES size,   \* m_fdContexts.size()
          slot,   \* slot[d]: the context at d, or NoCtx
          made,   \* made[d]: how many contexts were created for d
          reg,    \* the contexts with registered events
          at,     \* at[t]: what thread t is doing
          cut     \* history: the contexts a shrinking resize has dropped

vars == <<size, slot, made, reg, at, cut>>

\* The k-th FdContext made for d; its field fd is d.
Ctx(d, k) == [fd |-> d, nth |-> k]
NoCtx == [fd |-> 0, nth |-> 0]
Contexts == [fd : Fds \cup {0}, nth : Nat]

Idle == [op |-> "idle"]
\* Between the two table locks; the size it saw under the first is history.
Growing(d) == [op |-> "grow", fd |-> d, seen |-> size]
\* Has a context, and not its lock.
Holding(o, c) == [op |-> o, ctx |-> c]
Has(t) == at[t].op \in {"add", "cancel"}

TypeOK ==
  /\ size \in Nat
  /\ slot \in [Fds -> Contexts]
  /\ made \in [Fds -> Nat]
  /\ reg \subseteq Contexts
  /\ at \in [Threads -> {Idle} \cup [op : {"grow"}, fd : Fds, seen : Nat]
                        \cup [op : {"add", "cancel"}, ctx : Contexts]]
  /\ cut \subseteq Contexts

Init ==
  /\ size = InitialSize
  /\ slot = [d \in Fds |-> IF d < InitialSize THEN Ctx(d, 1) ELSE NoCtx]
  /\ made = [d \in Fds |-> IF d < InitialSize THEN 1 ELSE 0]
  /\ reg = {}
  /\ at = [t \in Threads |-> Idle]
  /\ cut = {}

-----------------------------------------------------------------------------
\* addEvent(d, ...) under the read lock.
LookUp(t, d) ==
  /\ at[t] = Idle
  /\ size > d \/ \A e \in Fds : made[e] <= MaxMade
  /\ at' = [at EXCEPT ![t] = IF size > d THEN Holding("add", slot[d]) ELSE Growing(d)]
  /\ UNCHANGED <<size, slot, made, reg, cut>>

\* The contexts a resize to n drops.
Dropped(n) == {slot[d] : d \in {e \in Fds : n <= e /\ e < size}}

ContextResizeFresh(n) ==  \* mutant: every context of the table is made anew
  /\ size' = n
  /\ slot' = [d \in Fds |-> IF d >= n THEN NoCtx ELSE Ctx(d, made[d] + 1)]
  /\ made' = [d \in Fds |-> IF d < n THEN made[d] + 1 ELSE made[d]]
  /\ cut' = cut \cup Dropped(n)

\* contextResize(n): what is beyond the new end is dropped, what is new is made.
ContextResize(n) ==
  /\ size' = n
  /\ slot' = [d \in Fds |-> IF d >= n THEN NoCtx
                            ELSE IF d < size THEN slot[d] ELSE Ctx(d, made[d] + 1)]
  /\ made' = [d \in Fds |-> IF d < n /\ d >= size THEN made[d] + 1 ELSE made[d]]
  /\ cut' = cut \cup Dropped(n)

\* addEvent under the write lock.
Grow(t) ==
  /\ at[t].op = "grow"
  /\ ContextResize(at[t].fd * 2)
  /\ at' = [at EXCEPT ![t] = Holding("add", slot'[at[t].fd])]
  /\ UNCHANGED reg

\* addEvent under the lock of the context.  epoll_ctl(ADD) fails if another
\* context has the descriptor registered.
Register(t) ==
  /\ at[t].op = "add"
  /\ LET c == at[t].ctx IN
       reg' = IF \E x \in reg : x # c /\ x.fd = c.fd THEN reg ELSE reg \cup {c}
  /\ at' = [at EXCEPT ![t] = Idle]
  /\ UNCHANGED <<size, slot, made, cut>>

\* cancelAll(d), as close calls it: under the read lock ...
CancelLookUp(t, d) ==
  /\ at[t] = Idle
  /\ size > d
  /\ at' = [at EXCEPT ![t] = Holding("cancel", slot[d])]
  /\ UNCHANGED <<size, slot, made, reg, cut>>

\* ... and under the lock of the context.
CancelAll(t) ==
  /\ at[t].op = "cancel"
  /\ reg' = reg \ {at[t].ctx}
  /\ at' = [at EXCEPT ![t] = Idle]
  /\ UNCHANGED <<size, slot, made, cut>>

\* The events of a context are dispatched; epoll holds its address.
Dispatch(c) ==
  /\ c \in reg
  /\ reg' = reg \ {c}
  /\ UNCHANGED <<size, slot, made, at, cut>>

Next ==
  \/ \E t \in Threads, d \in Fds : LookUp(t, d) \/ CancelLookUp(t, d)
  \/ \E t \in Threads : Grow(t) \/ Register(t) \/ CancelAll(t)
  \/ \E c \in reg : Dispatch(c)

Spec == Init /\ [][Next]_vars

-----------------------------------------------------------------------------
\* Where a context belongs.
InTable(c) == c.fd < size /\ slot[c.fd] = c

\* A context with registered events is the one the table has for its descriptor,
\* unless a shrinking resize has dropped it: nothing else loses a context, however
\* the growth of several threads interleaves.
FoundUnlessCut == \A c \in reg \ cut : InTable(c)

\* A context that a thread looked up and is about to lock is still the one in the
\* table, unless it was dropped: short of that two threads never work on two
\* contexts of one descriptor.
HeldUnlessCut == \A t \in Threads : Has(t) /\ at[t].ctx \notin cut => InTable(at[t].ctx)

\* A context leaves the table only when a thread resizes to a size it had decided
\* on before another thread resized: growth by one thread at a time loses nothing.
DropsOnlyLate ==
  [][\A d \in Fds : d < size /\ slot'[d] # slot[d] =>
       \E t \in Threads : at[t].op = "grow" /\ at'[t] # at[t] /\ at[t].seen # size]_vars

\* Every context with registered events is in the table, where cancelAll, which is
\* to trigger and delete all events of the descriptor (ioScheduler.h:109-112),
\* looks for it.  A late resize breaks this (ioScheduler.cpp:115).
Findable == \A c \in reg : InTable(c)
=============================================================================
