---------------------------- MODULE TimerManager ----------------------------
(***************************************************************************)
(* GGo::TimerManager and the timer side of IOScheduler::idle: a std::set   *)
(* of timers, idle threads that sleep until the first of them is due, and  *)
(* the m_tickled protocol that wakes them when an earlier one comes.       *)
(*                                                                         *)
(* A timer is its address, a number.  The set's comparator compares due    *)
(* times and then addresses, but a slip (rhs with rhs on line 211) makes   *)
(* it answer by address whenever the due times do not say "less"; it is no *)
(* strict weak order.  What a balanced tree does with such a comparator    *)
(* depends on its shape: Slots and Finds allow what some shape does.       *)
(***************************************************************************)
EXTENDS Integers, SequencesExt

CONSTANTS Timers,     \* addresses of Timer objects
          Pollers,    \* worker threads that run idle()
          Durations,  \* the ms of timers
          Loops,      \* the values of reloop in use
          MaxWait,    \* MAX_TIMEOUT of idle()
          Hour,       \* a step back of the clock that counts as a rollover
          ClockBack,  \* whether the clock is ever set back
          MaxTime,    \* bound of the model: the clock stops here
          MaxTelling  \* bound of the model: threads that tickle at one moment

ASSUME TimerAssumption ==
  /\ Timers \subseteq Nat \ {0} /\ Pollers # {}
  /\ Durations \subseteq Nat
  /\ Loops \subseteq BOOLEAN
  /\ MaxWait \in Nat \ {0} /\ Hour \in Nat /\ MaxTime \in Nat /\ MaxTelling \in Nat
  /\ ClockBack \in BOOLEAN

VARIABLES now,        \* getCurrentMS()
          set,        \* m_timers in iteration order
          made,       \* timers that exist
          ms, next, cb, loop,  \* of each timer; cb: whether m_cb is set
          tickled,    \* m_tickled
          previous,   \* m_previouseTime
          telling,    \* threads between unlock and onTimerInsertedAtFront
          edge,       \* the tickle pipe has an edge epoll_wait will report
          at,         \* at[p]: "busy" (not in idle), "awake", "asleep", "woken"
          until,      \* until[p]: when p's epoll_wait times out
          nowMs,      \* nowMs[p]: now_ms of p's listExpriedCb
          handed,     \* handed[t]: callbacks of t handed out, modulo 3
          cancelled,  \* timers cancel() was called on
          misled      \* whether the idle threads were ever misled: line 211
                      \* could answer against the due times, or refresh
                      \* brought a timer forward (handed, cancelled and
                      \* misled are history, which no operation reads)

timerVars  == <<made, ms, next, cb, loop>>
pollerVars == <<at, until, nowMs>>
vars == <<now, set, timerVars, tickled, previous, telling, edge, pollerVars, handed,
          cancelled, misled>>

TypeOK ==
  /\ now \in 0..MaxTime
  /\ set \in Seq(Timers) /\ IsInjective(set) /\ ToSet(set) \subseteq made
  /\ made \subseteq Timers
  /\ ms \in [Timers -> Nat] /\ next \in [Timers -> Nat]
  /\ cb \in [Timers -> BOOLEAN] /\ loop \in [Timers -> BOOLEAN]
  /\ tickled \in BOOLEAN /\ edge \in BOOLEAN
  /\ previous \in Nat /\ telling \in Nat
  /\ at \in [Pollers -> {"busy", "awake", "asleep", "woken"}]
  /\ until \in [Pollers -> Nat] /\ nowMs \in [Pollers -> Nat]
  /\ handed \in [Timers -> 0..2]
  /\ cancelled \subseteq made
  /\ misled \in BOOLEAN

Init ==
  /\ now = 0 /\ previous = 0
  /\ set = <<>> /\ made = {}
  /\ ms = [t \in Timers |-> 0] /\ next = [t \in Timers |-> 0]
  /\ cb = [t \in Timers |-> FALSE] /\ loop = [t \in Timers |-> FALSE]
  /\ tickled = FALSE /\ telling = 0 /\ edge = FALSE
  /\ at = [p \in Pollers |-> "busy"]
  /\ until = [p \in Pollers |-> 0] /\ nowMs = [p \in Pollers |-> 0]
  /\ handed = [t \in Timers |-> 0] /\ cancelled = {} /\ misled = FALSE

-----------------------------------------------------------------------------
(* The container.                                                          *)

\* Timer::Comparator with due times nx.
Less(nx, a, b) == nx[a] < nx[b] \/ a < b

\* A search ends between two neighbours it has passed: right of s[i], left of
\* s[i + 1].  Goes(k) says whether it goes right at s[k].
Ends(n, Goes(_)) == {i \in 0..n : (i > 0 => Goes(i)) /\ (i < n => ~Goes(i + 1))}

\* The addresses of the timers in s agree with their due times.
Agree(nx, s) == \A i, k \in DOMAIN s : s[i] < s[k] => nx[s[i]] <= nx[s[k]]

\* History: did an insertion bring together timers whose addresses disagree?
Watch == misled' = (misled \/ ~Agree(next', set'))

\* insert: the positions at which t may be put in.
Slots(nx, s, t) ==
  LET Goes(k) == ~Less(nx, t, s[k])
  IN  Ends(Len(s), Goes)

\* The sequences that may result from inserting t into one of qs.
Insertions(nx, qs, t) ==
  UNION {{InsertAt(q, i + 1, t) : i \in Slots(nx, q, t)} : q \in qs}

\* The expired timers that loop are inserted into s one after the other.
Reinserted(nx, s, expired) ==
  LET after[i \in 0..Len(expired)] ==
        IF i = 0 THEN {s}
        ELSE IF loop[expired[i]] THEN Insertions(nx, after[i - 1], expired[i])
        ELSE after[i - 1]
  IN  after[Len(expired)]

\* find: whether it may find, and whether it may miss, t.
Finds(s, t) ==
  LET Goes(k) == Less(next, s[k], t)
  IN  {i < Len(s) /\ s[i + 1] = t : i \in Ends(Len(s), Goes)}

\* erase of the iterator that find has returned.
Erase(t) == RemoveAt(set, CHOOSE i \in DOMAIN set : set[i] = t)

-----------------------------------------------------------------------------
(* Operations on timers, each under the write lock of m_mutex.             *)

\* TimerManager::addTimer(timer, lock): t goes into s; the caller is to tickle
\* if t is first and nobody was tickled since the last getNextTimer.
AddToSet(nx, s, t) ==
  \E i \in Slots(nx, s, t) :
    LET atFront == i = 0 /\ ~tickled IN
    /\ atFront => telling < MaxTelling
    /\ set' = InsertAt(s, i + 1, t)
    /\ tickled' = (tickled \/ atFront)
    /\ telling' = IF atFront THEN telling + 1 ELSE telling
    /\ Watch

AddTimer(t, d, l) ==
  /\ t \notin made
  /\ made' = made \cup {t}
  /\ ms' = [ms EXCEPT ![t] = d]
  /\ next' = [next EXCEPT ![t] = now + d]
  /\ cb' = [cb EXCEPT ![t] = TRUE]
  /\ loop' = [loop EXCEPT ![t] = l]
  /\ AddToSet(next', set, t)
  /\ UNCHANGED <<now, previous, edge, pollerVars, handed, cancelled>>

\* onTimerInsertedAtFront: the pipe is written if a thread is idle.
Tickle ==
  /\ telling > 0
  /\ telling' = telling - 1
  /\ edge' = (edge \/ \E p \in Pollers : at[p] # "busy")
  /\ UNCHANGED <<now, set, timerVars, tickled, previous, pollerVars, handed, cancelled,
                 misled>>

CancelInverted(t) ==  \* mutant: it returns early when there is a callback
  /\ t \in made /\ cb[t]
  /\ cancelled' = cancelled \cup {t}
  /\ UNCHANGED <<now, set, timerVars, tickled, previous, telling, edge, pollerVars,
                 handed, misled>>

Cancel(t) ==
  /\ t \in made /\ cb[t]
  /\ cancelled' = cancelled \cup {t}
  /\ cb' = [cb EXCEPT ![t] = FALSE]
  /\ \E found \in Finds(set, t) : set' = IF found THEN Erase(t) ELSE set
  /\ UNCHANGED <<now, made, ms, next, loop, tickled, previous, telling, edge, pollerVars,
                 handed, misled>>

\* refresh tickles nobody, so a timer that it brings forward, as it can after the
\* clock was set back, misleads the threads that sleep.
Refresh(t) ==
  /\ t \in made /\ cb[t]
  /\ TRUE \in Finds(set, t)
  /\ next' = [next EXCEPT ![t] = now + ms[t]]
  /\ \E i \in Slots(next', Erase(t), t) : set' = InsertAt(Erase(t), i + 1, t)
  /\ misled' = (misled \/ ~Agree(next', set') \/ next'[t] < next[t])
  /\ UNCHANGED <<now, made, ms, cb, loop, tickled, previous, telling, edge, pollerVars,
                 handed, cancelled>>

Reset(t, d, fromNow) ==
  /\ t \in made /\ cb[t]
  /\ ms[t] # d \/ fromNow
  /\ TRUE \in Finds(set, t)
  /\ ms' = [ms EXCEPT ![t] = d]
  /\ next' = [next EXCEPT ![t] = (IF fromNow THEN now ELSE next[t] - ms[t]) + d]
  /\ AddToSet(next', Erase(t), t)
  /\ UNCHANGED <<now, made, cb, loop, previous, edge, pollerVars, handed, cancelled>>

-----------------------------------------------------------------------------
(* The idle threads.                                                       *)

EnterIdle(p) ==
  /\ at[p] = "busy"
  /\ at' = [at EXCEPT ![p] = "awake"]
  /\ UNCHANGED <<now, set, timerVars, tickled, previous, telling, edge, until, nowMs,
                 handed, cancelled, misled>>

GetNextTimerTickled(p) ==  \* mutant: m_tickled is not reset
  /\ at[p] = "awake"
  /\ at' = [at EXCEPT ![p] = "asleep"]
  /\ until' = [until EXCEPT ![p] =
       IF set # <<>> /\ next[Head(set)] < now + MaxWait THEN next[Head(set)]
       ELSE now + MaxWait]
  /\ UNCHANGED <<now, set, timerVars, tickled, previous, telling, edge, nowMs, handed,
                 cancelled, misled>>

\* getNextTimer, and the time epoll_wait is given.
GetNextTimer(p) ==
  /\ at[p] = "awake"
  /\ tickled' = FALSE
  /\ at' = [at EXCEPT ![p] = "asleep"]
  /\ until' = [until EXCEPT ![p] =
       IF set # <<>> /\ next[Head(set)] < now + MaxWait THEN next[Head(set)]
       ELSE now + MaxWait]
  /\ UNCHANGED <<now, set, timerVars, previous, telling, edge, nowMs, handed, cancelled,
                 misled>>

\* epoll_wait returns: after its time, for the tickle, or for another event.
WakeUp(p, tickle) ==
  /\ at[p] = "asleep"
  /\ tickle => edge
  /\ edge' = (edge /\ ~tickle)
  /\ at' = [at EXCEPT ![p] = "woken"]
  /\ nowMs' = [nowMs EXCEPT ![p] = now]
  /\ until' = [until EXCEPT ![p] = 0]
  /\ UNCHANGED <<now, set, timerVars, tickled, previous, telling, handed, cancelled,
                 misled>>

Rollover(p) == nowMs[p] < previous /\ nowMs[p] + Hour < previous

\* How many timers from the front are expired.  now_timer lies between the
\* addresses a and a + 1.
ExpiredCounts(p) ==
  LET n == Len(set)
      Goes(a, k) == next[set[k]] < nowMs[p] \/ set[k] <= a
      Past(i) == CHOOSE j \in i..n :
                   /\ \A k \in (i + 1)..j : next[set[k]] = nowMs[p]
                   /\ j < n => next[set[j + 1]] # nowMs[p]
      Bounds(a) == LET G(k) == Goes(a, k) IN Ends(n, G)
  IN  IF Rollover(p) THEN {n}
      ELSE {Past(i) : i \in UNION {Bounds(a) : a \in {0} \cup Timers}}

FrontDueStrict(p) ==  \* mutant: a timer that is due right now has to wait
  set # <<>> /\ (Rollover(p) \/ next[Head(set)] < nowMs[p])

FrontDue(p) == set # <<>> /\ (Rollover(p) \/ next[Head(set)] <= nowMs[p])

\* listExpriedCb finds nothing to do.
ListNothing(p) ==
  /\ at[p] = "woken"
  /\ ~FrontDue(p)
  /\ previous' = IF set = <<>> THEN previous ELSE nowMs[p]
  /\ at' = [at EXCEPT ![p] = "busy"]
  /\ nowMs' = [nowMs EXCEPT ![p] = 0]
  /\ UNCHANGED <<now, set, timerVars, tickled, telling, edge, until, handed, cancelled,
                 misled>>

ListExpiredKeeps(p) ==  \* mutant: expired timers stay in the set
  /\ at[p] = "woken"
  /\ FrontDue(p)
  /\ \E n \in ExpiredCounts(p) :
       handed' = [t \in Timers |-> IF t \in ToSet(SubSeq(set, 1, n)) /\ cb[t]
                                   THEN (handed[t] + 1) % 3 ELSE handed[t]]
  /\ previous' = nowMs[p]
  /\ at' = [at EXCEPT ![p] = "busy"]
  /\ nowMs' = [nowMs EXCEPT ![p] = 0]
  /\ UNCHANGED <<now, set, timerVars, tickled, telling, edge, until, cancelled, misled>>

\* listExpriedCb takes the expired timers out, hands out the callbacks that are
\* set, and puts the looping ones back.  Scheduling the callbacks may tickle.
ListExpired(p) ==
  /\ at[p] = "woken"
  /\ FrontDue(p)
  /\ \E n \in ExpiredCounts(p) :
       LET expired == SubSeq(set, 1, n)
       IN  /\ handed' = [t \in Timers |-> IF t \in ToSet(expired) /\ cb[t]
                                          THEN (handed[t] + 1) % 3 ELSE handed[t]]
           /\ next' = [t \in Timers |-> IF t \in ToSet(expired) /\ loop[t]
                                        THEN nowMs[p] + ms[t] ELSE next[t]]
           /\ cb' = [t \in Timers |-> cb[t] /\ (t \in ToSet(expired) => loop[t])]
           /\ set' \in Reinserted(next', SubSeq(set, n + 1, Len(set)), expired)
           /\ Watch
           /\ edge' \in {edge, edge \/ n > 0}
  /\ previous' = nowMs[p]
  /\ at' = [at EXCEPT ![p] = "busy"]
  /\ nowMs' = [nowMs EXCEPT ![p] = 0]
  /\ UNCHANGED <<now, made, ms, loop, tickled, telling, until, cancelled>>

-----------------------------------------------------------------------------
\* The clock advances; it may be set back.
Tick ==
  /\ now' \in {now + 1} \cup (IF ClockBack THEN 0..(now - 1) ELSE {})
  /\ now' <= MaxTime
  /\ UNCHANGED <<set, timerVars, tickled, previous, telling, edge, pollerVars, handed,
                 cancelled, misled>>

Next ==
  \/ Tick \/ Tickle
  \/ \E t \in Timers, d \in Durations :
       \/ \E l \in Loops : AddTimer(t, d, l)
       \/ \E f \in BOOLEAN : Reset(t, d, f)
  \/ \E t \in Timers : Cancel(t) \/ Refresh(t)
  \/ \E p \in Pollers :
       \/ EnterIdle(p) \/ GetNextTimer(p) \/ ListNothing(p) \/ ListExpired(p)
       \/ \E k \in BOOLEAN : WakeUp(p, k)

Spec == Init /\ [][Next]_vars

\* Threads run, the clock advances unless it is set back again and again, and
\* epoll_wait returns when its time has come.
FairSpec ==
  /\ Spec
  /\ WF_vars(Tick /\ now' > now)
  /\ WF_vars(Tickle)
  /\ \A p \in Pollers :
       /\ WF_vars(EnterIdle(p))
       /\ WF_vars(GetNextTimer(p))
       /\ WF_vars(now >= until[p] /\ WakeUp(p, FALSE))
       /\ WF_vars(edge /\ WakeUp(p, TRUE))
       /\ WF_vars(ListNothing(p) \/ ListExpired(p))

-----------------------------------------------------------------------------
(* Safety.                                                                 *)

\* The callback of a timer that does not loop is handed out at most once,
\* whichever idle threads list the expired timers, whatever is cancelled,
\* refreshed and reset in between, and wherever the comparator has put it.
OneShotOnce == \A t \in Timers : ~loop[t] => handed[t] <= 1

\* After cancel() no callback is handed out, although a cancelled timer may
\* stay in the set because find misses it.
CancelledSilent == [][\A t \in cancelled : handed'[t] = handed[t]]_vars

\* When every idle thread sleeps and no tickle is on its way, m_tickled is clear,
\* so that the next earlier timer does wake one; and one of them wakes up in time
\* for each timer, unless they were misled by line 211 or by refresh after the
\* clock was set back: m_tickled suppresses no tickle that is needed.
OnTime ==
  (\A p \in Pollers : at[p] = "asleep") /\ ~edge /\ telling = 0 =>
    /\ ~tickled
    /\ misled \/ \A t \in ToSet(set) : \E p \in Pollers : until[p] <= next[t]

(* Liveness.                                                               *)

\* A timer that is due is handed out or given another time, unless the threads
\* were misled: behind a line 211 that answered wrongly it may stand behind timers
\* that are always put off.
DueFires == \A t \in Timers :
  t \in ToSet(set) /\ next[t] <= now ~> t \notin ToSet(set) \/ next[t] > now \/ misled

(* What is said of the timers, and does not hold because of line 211.      *)

\* begin() is the timer that is due first: getNextTimer is to give the time to
\* the nearest timer (timer.h:93).
BeginEarliest == set # <<>> => \A t \in ToSet(set) : next[Head(set)] <= next[t]

\* A timer in the set has its callback: cancel(), which is to cancel the timer
\* (timer.h:26), takes it out.  One that stays keeps the scheduler from stopping,
\* for ever if it loops.
SetHasCallbacks == \A t \in ToSet(set) : cb[t]

\* No callback is handed out before its timer's m_next, the time it is to run
\* (timer.h:53), unless the thread takes the clock to have been set back: then
\* all of them are.
NeverEarly ==
  [][\A p \in Pollers : at[p] = "woken" /\ at'[p] = "busy" /\ ~Rollover(p) =>
       \A t \in Timers : handed'[t] # handed[t] => next[t] <= now]_vars
=============================================================================
