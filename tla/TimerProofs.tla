----------------------------- MODULE TimerProofs -----------------------------
(***************************************************************************)
(* Two theorems about timers.                                              *)
(*                                                                         *)
(* OnceAndSilent holds whatever the comparator, the shape of the tree and  *)
(* the clock do, since it rests on m_cb alone: a one-shot callback is      *)
(* handed out at most once, and never after cancel().                      *)
(*                                                                         *)
(* AwakeInTime is what the m_tickled protocol was written for.  It covers  *)
(* every history: m_tickled never keeps the next tickle back, and a timer  *)
(* nobody wakes up for is there only after line 211 has answered against   *)
(* the due times or refresh has brought a timer forward.  Until then the   *)
(* set is in order however the tree is shaped, find finds, and no thread   *)
(* sleeps longer than the first timer.                                     *)
(***************************************************************************)
EXTENDS TimerManager, SequenceTheorems, WellFoundedInduction, TLAPS

-----------------------------------------------------------------------------
(* Callbacks.                                                              *)

Types ==
  /\ made \subseteq Timers
  /\ cb \in [Timers -> BOOLEAN]
  /\ loop \in [Timers -> BOOLEAN]
  /\ handed \in [Timers -> 0..2]
  /\ cancelled \subseteq made

\* A timer has its callback until it is cancelled or, once only, handed out.
CallbackKept ==
  \A t \in Timers :
    /\ ~loop[t] => handed[t] = 0 \/ (handed[t] = 1 /\ ~cb[t])
    /\ t \notin made => handed[t] = 0 /\ ~cb[t] /\ ~loop[t]
    /\ t \in cancelled => ~cb[t]

Inv == Types /\ CallbackKept

\* A callback is handed out only by listExpriedCb and only if it is set.
LEMMA HandedOut ==
  ASSUME Inv, NEW p \in Pollers, ListExpired(p), NEW t \in Timers
  PROVE  /\ handed'[t] \in {handed[t], (handed[t] + 1) % 3}
         /\ handed'[t] # handed[t] => cb[t] /\ (loop[t] \/ ~cb'[t])
         /\ cb'[t] \in BOOLEAN
         /\ cb'[t] => cb[t]
<1>1. PICK E \in SUBSET Timers :
        /\ \A u \in Timers : handed'[u] = IF u \in E /\ cb[u] THEN (handed[u] + 1) % 3
                                          ELSE handed[u]
        /\ \A u \in Timers : cb'[u] = (cb[u] /\ (u \in E => loop[u]))
  <2>1. PICK n \in ExpiredCounts(p) :
          /\ handed' = [u \in Timers |-> IF u \in ToSet(SubSeq(set, 1, n)) /\ cb[u]
                                         THEN (handed[u] + 1) % 3 ELSE handed[u]]
          /\ cb' = [u \in Timers |-> cb[u] /\ (u \in ToSet(SubSeq(set, 1, n)) => loop[u])]
    BY DEF ListExpired
  <2> WITNESS Timers \cap ToSet(SubSeq(set, 1, n)) \in SUBSET Timers
  <2>2. QED BY <2>1
<1>2. cb[t] \in BOOLEAN /\ loop[t] \in BOOLEAN BY DEF Inv, Types
<1>3. QED BY <1>1, <1>2

LEMMA InitInv == Init => Inv
BY DEF Init, Inv, Types, CallbackKept

\* Every operation and every idle thread keeps the callback's record.
LEMMA StepInv == Inv /\ [Next]_vars => Inv'
<1> SUFFICES ASSUME Inv, [Next]_vars PROVE Inv' OBVIOUS
<1> USE DEF Inv
<1>1. CASE UNCHANGED <<made, cb, loop, handed, cancelled>>
  BY <1>1 DEF Types, CallbackKept
<1>2. CASE \E t \in Timers, d \in Durations, l \in Loops : AddTimer(t, d, l)
  <2>1. PICK t \in Timers, l \in BOOLEAN :
          /\ t \notin made
          /\ made' = made \cup {t}
          /\ cb' = [cb EXCEPT ![t] = TRUE]
          /\ loop' = [loop EXCEPT ![t] = l]
          /\ UNCHANGED <<handed, cancelled>>
    BY <1>2, TimerAssumption DEF AddTimer
  <2>2. Types' BY <2>1 DEF Types
  <2>3. CallbackKept'
    <3> USE DEF CallbackKept
    <3> TAKE u \in Timers
    <3>1. CASE u = t BY <2>1, <3>1 DEF Types, CallbackKept
    <3>2. CASE u # t BY <2>1, <3>2 DEF Types, CallbackKept
    <3>3. QED BY <3>1, <3>2
  <2>4. QED BY <2>2, <2>3
<1>3. CASE \E t \in Timers : Cancel(t)
  <2>1. PICK t \in made :
          /\ cancelled' = cancelled \cup {t}
          /\ cb' = [cb EXCEPT ![t] = FALSE]
          /\ UNCHANGED <<made, loop, handed>>
    BY <1>3 DEF Cancel
  <2>2. Types' BY <2>1 DEF Types
  <2>3. CallbackKept'
    <3> USE DEF CallbackKept
    <3> TAKE u \in Timers
    <3>1. CASE u = t BY <2>1, <3>1 DEF Types, CallbackKept
    <3>2. CASE u # t BY <2>1, <3>2 DEF Types, CallbackKept
    <3>3. QED BY <3>1, <3>2
  <2>4. QED BY <2>2, <2>3
<1>4. CASE \E p \in Pollers : ListExpired(p)
  <2>1. PICK p \in Pollers : ListExpired(p) BY <1>4
  <2>2. UNCHANGED <<made, loop, cancelled>> BY <2>1 DEF ListExpired
  <2>3. \A t \in Timers : handed[t] \in 0..2 /\ handed'[t] \in 0..2 /\ cb'[t] \in BOOLEAN
    BY <2>1, HandedOut DEF Types
  <2>4. handed' \in [Timers -> 0..2] /\ cb' \in [Timers -> BOOLEAN]
    <3>1. DOMAIN handed' = Timers /\ DOMAIN cb' = Timers
          /\ handed' = [t \in Timers |-> handed'[t]] /\ cb' = [t \in Timers |-> cb'[t]]
      BY <2>1 DEF ListExpired
    <3>2. QED BY <2>3, <3>1
  <2>5. Types' BY <2>2, <2>4 DEF Types
  <2>6. CallbackKept'
    <3> USE DEF CallbackKept
    <3> TAKE t \in Timers
    <3>1. handed'[t] \in {handed[t], (handed[t] + 1) % 3}
          /\ (handed'[t] # handed[t] => cb[t] /\ (loop[t] \/ ~cb'[t]))
          /\ (cb'[t] => cb[t])
      BY <2>1, HandedOut
    <3>2. QED BY <2>2, <3>1 DEF CallbackKept, Types
  <2>7. QED BY <2>5, <2>6
<1>5. QED
  BY <1>1, <1>2, <1>3, <1>4
  DEF Next, Tick, Tickle, Reset, Refresh, EnterIdle, GetNextTimer, ListNothing,
      WakeUp, vars, timerVars

\* A one-shot callback is handed out at most once (timer.cpp:126-163), and no
\* callback after cancel() (timer.cpp:5-19): for any timers at any addresses,
\* any number of idle threads, and a clock that is set back at will.
THEOREM OnceAndSilent == Spec => []OneShotOnce /\ CancelledSilent
<1>1. Inv => OneShotOnce BY DEF Inv, CallbackKept, Types, OneShotOnce
<1>2. Inv /\ [Next]_vars => [\A t \in cancelled : handed'[t] = handed[t]]_vars
  <2> SUFFICES ASSUME Inv, Next, NEW t \in cancelled PROVE handed'[t] = handed[t]
    OBVIOUS
  <2>1. t \in Timers /\ ~cb[t] BY DEF Inv, Types, CallbackKept
  <2>2. CASE \E p \in Pollers : ListExpired(p) BY <2>1, <2>2, HandedOut
  <2>3. CASE UNCHANGED handed BY <2>3
  <2>4. QED
    BY <2>2, <2>3 DEF Next, Tick, Tickle, AddTimer, Cancel, Reset, Refresh, EnterIdle,
       GetNextTimer, ListNothing, WakeUp
<1>3. QED BY <1>1, <1>2, InitInv, StepInv, PTL DEF Spec, CancelledSilent

-----------------------------------------------------------------------------
(* The container in order.                                                 *)

\* Increasing addresses.
Sorted(q) == \A i, k \in DOMAIN q : i < k => q[i] < q[k]
\* A queue of timers in the order of their addresses, which is the one of the
\* due times nx, too.
Line(nx, q) == q \in Seq(Timers) /\ Sorted(q) /\ Agree(nx, q)

\* A non-empty set of numbers has a least one: inductions are done with it.
LEMMA LeastExists ==
  ASSUME NEW S \in SUBSET Nat, S # {}
  PROVE  \E d \in S : \A x \in S : d <= x
<1>1. \E m \in S : \A k \in S : ~(<<k, m>> \in OpToRel(<, Nat))
  BY WFMin, NatLessThanWellFounded, Zenon
<1>2. PICK m \in S : \A k \in S : ~(<<k, m>> \in OpToRel(<, Nat))
  BY <1>1
<1>3. \A k \in S : ~ (k < m)
  BY <1>2, Zenon DEF OpToRel
<1>4. QED BY <1>3

\* What InsertAt and RemoveAt make of a sequence, position by position.
LEMMA InsertShape ==
  ASSUME NEW S, NEW s \in Seq(S), NEW i \in 0..Len(s), NEW e \in S
  PROVE  /\ InsertAt(s, i + 1, e) \in Seq(S)
         /\ Len(InsertAt(s, i + 1, e)) = Len(s) + 1
         /\ \A j \in 1..Len(s) + 1 : InsertAt(s, i + 1, e)[j] =
              IF j <= i THEN s[j] ELSE IF j = i + 1 THEN e ELSE s[j - 1]
<1> DEFINE a == SubSeq(s, 1, i)
           b == SubSeq(s, i + 1, Len(s))
<1>1. a \in Seq(S) /\ Len(a) = i /\ \A j \in 1..i : a[j] = s[j]
  BY SubSeqProperties
<1>2. b \in Seq(S) /\ Len(b) = Len(s) - i /\ \A j \in 1..Len(s) - i : b[j] = s[i + j]
  <2>1. \A j \in i + 1..Len(s) : s[j] \in S OBVIOUS
  <2>2. b \in Seq(S) /\ Len(b) = (IF i + 1 <= Len(s) THEN Len(s) - (i + 1) + 1 ELSE 0)
        /\ \A j \in 1..Len(s) - (i + 1) + 1 : b[j] = s[(i + 1) + j - 1]
    BY <2>1, SubSeqProperties
  <2>3. QED BY <2>2
<1> DEFINE c == a \o <<e>>
<1> HIDE DEF a, b
<1>3. c \in Seq(S) /\ Len(c) = i + 1
      /\ \A j \in 1..i + 1 : c[j] = IF j <= i THEN a[j] ELSE e
  BY <1>1, ConcatProperties
<1> HIDE DEF c
<1>4. c \o b \in Seq(S) /\ Len(c \o b) = Len(s) + 1
      /\ \A j \in 1..Len(s) + 1 : (c \o b)[j] = IF j <= i + 1 THEN c[j] ELSE b[j - (i + 1)]
  <2>1. c \o b \in Seq(S) /\ Len(c \o b) = Len(c) + Len(b)
        /\ \A j \in 1..Len(c) + Len(b) : (c \o b)[j] = IF j <= Len(c) THEN c[j] ELSE b[j - Len(c)]
    BY <1>2, <1>3, ConcatProperties
  <2>2. Len(c) + Len(b) = Len(s) + 1 /\ Len(c) = i + 1 BY <1>2, <1>3
  <2>3. QED BY <2>1, <2>2
<1>5. InsertAt(s, i + 1, e) = c \o b
  <2>1. (i + 1) - 1 = i OBVIOUS
  <2>2. QED BY <2>1 DEF InsertAt, a, b, c
<1>6. ASSUME NEW j \in 1..Len(s) + 1
      PROVE  (c \o b)[j] = IF j <= i THEN s[j] ELSE IF j = i + 1 THEN e ELSE s[j - 1]
  <2>1. CASE j <= i BY <1>1, <1>3, <1>4, <2>1
  <2>2. CASE j = i + 1 BY <1>3, <1>4, <2>2
  <2>3. CASE j > i + 1
    <3>1. j - (i + 1) \in 1..Len(s) - i /\ i + (j - (i + 1)) = j - 1 BY <2>3
    <3>2. (c \o b)[j] = b[j - (i + 1)] BY <1>4, <2>3
    <3>3. b[j - (i + 1)] = s[i + (j - (i + 1))] BY <1>2, <3>1
    <3>4. QED BY <2>3, <3>1, <3>2, <3>3
  <2>4. j <= i \/ j = i + 1 \/ j > i + 1 OBVIOUS
  <2>5. QED BY ONLY <2>1, <2>2, <2>3, <2>4
<1>7. c \o b \in Seq(S) /\ Len(c \o b) = Len(s) + 1
      /\ \A j \in 1..Len(s) + 1 : (c \o b)[j] =
           IF j <= i THEN s[j] ELSE IF j = i + 1 THEN e ELSE s[j - 1]
  BY ONLY <1>4, <1>6
<1>8. QED
  <2>1. PICK r : r = InsertAt(s, i + 1, e) OBVIOUS
  <2>2. PICK q : q = c \o b OBVIOUS
  <2>3. r = q BY ONLY <1>5, <2>1, <2>2
  <2>4. q \in Seq(S) /\ Len(q) = Len(s) + 1
        /\ \A j \in 1..Len(s) + 1 : q[j] =
             IF j <= i THEN s[j] ELSE IF j = i + 1 THEN e ELSE s[j - 1]
    BY ONLY <1>7, <2>2
  <2>5. r \in Seq(S) /\ Len(r) = Len(s) + 1
        /\ \A j \in 1..Len(s) + 1 : r[j] =
             IF j <= i THEN s[j] ELSE IF j = i + 1 THEN e ELSE s[j - 1]
    BY ONLY <2>3, <2>4
  <2>6. QED BY ONLY <2>1, <2>5

LEMMA RemoveShape ==
  ASSUME NEW S, NEW s \in Seq(S), NEW i \in 1..Len(s)
  PROVE  /\ RemoveAt(s, i) \in Seq(S)
         /\ Len(RemoveAt(s, i)) = Len(s) - 1
         /\ \A j \in 1..Len(s) - 1 : RemoveAt(s, i)[j] = IF j < i THEN s[j] ELSE s[j + 1]
<1> DEFINE a == SubSeq(s, 1, i - 1)
           b == SubSeq(s, i + 1, Len(s))
<1>1. a \in Seq(S) /\ Len(a) = i - 1 /\ \A j \in 1..i - 1 : a[j] = s[j]
  BY SubSeqProperties
<1>2. b \in Seq(S) /\ Len(b) = Len(s) - i /\ \A j \in 1..Len(s) - i : b[j] = s[i + j]
  <2>1. \A j \in i + 1..Len(s) : s[j] \in S OBVIOUS
  <2>2. b \in Seq(S) /\ Len(b) = (IF i + 1 <= Len(s) THEN Len(s) - (i + 1) + 1 ELSE 0)
        /\ \A j \in 1..Len(s) - (i + 1) + 1 : b[j] = s[(i + 1) + j - 1]
    BY <2>1, SubSeqProperties
  <2>3. QED BY <2>2
<1> HIDE DEF a, b
<1>3. a \o b \in Seq(S) /\ Len(a \o b) = Len(s) - 1
      /\ \A j \in 1..Len(s) - 1 : (a \o b)[j] = IF j <= i - 1 THEN a[j] ELSE b[j - (i - 1)]
  <2>1. a \o b \in Seq(S) /\ Len(a \o b) = Len(a) + Len(b)
        /\ \A j \in 1..Len(a) + Len(b) : (a \o b)[j] = IF j <= Len(a) THEN a[j] ELSE b[j - Len(a)]
    BY <1>1, <1>2, ConcatProperties
  <2>2. Len(a) + Len(b) = Len(s) - 1 /\ Len(a) = i - 1 BY <1>1, <1>2
  <2>3. QED BY <2>1, <2>2
<1>4. RemoveAt(s, i) = a \o b
  BY DEF RemoveAt, a, b
<1>5. ASSUME NEW j \in 1..Len(s) - 1
      PROVE  (a \o b)[j] = IF j < i THEN s[j] ELSE s[j + 1]
  <2>1. CASE j < i BY <1>1, <1>3, <2>1
  <2>2. CASE j >= i
    <3>1. j - (i - 1) \in 1..Len(s) - i /\ i + (j - (i - 1)) = j + 1 BY <2>2
    <3>2. (a \o b)[j] = b[j - (i - 1)] BY <1>3, <2>2
    <3>3. b[j - (i - 1)] = s[i + (j - (i - 1))] BY <1>2, <3>1
    <3>4. QED BY <2>2, <3>1, <3>2, <3>3
  <2>3. j < i \/ j >= i OBVIOUS
  <2>4. QED BY ONLY <2>1, <2>2, <2>3
<1>6. QED BY <1>3, <1>4, <1>5

\* Agree is about the timers in the queue, not their places.
LEMMA AgreeWithin ==
  ASSUME NEW nx, NEW q, Agree(nx, q), NEW s, ToSet(s) \subseteq ToSet(q)
  PROVE  Agree(nx, s)
<1> SUFFICES ASSUME NEW i \in DOMAIN s, NEW k \in DOMAIN s, s[i] < s[k]
             PROVE  nx[s[i]] <= nx[s[k]]
  BY DEF Agree
<1>1. s[i] \in ToSet(q) /\ s[k] \in ToSet(q) BY DEF ToSet
<1>2. PICK x \in DOMAIN q : q[x] = s[i] BY <1>1 DEF ToSet
<1>3. PICK y \in DOMAIN q : q[y] = s[k] BY <1>1 DEF ToSet
<1>4. QED BY <1>2, <1>3 DEF Agree

\* What a timer is inserted into has its timers, and the new one.
LEMMA SlotSet ==
  ASSUME NEW nx, NEW s \in Seq(Timers), NEW t \in Timers, NEW i \in Slots(nx, s, t)
  PROVE  /\ InsertAt(s, i + 1, t) \in Seq(Timers)
         /\ ToSet(InsertAt(s, i + 1, t)) = ToSet(s) \cup {t}
<1> DEFINE r == InsertAt(s, i + 1, t)
<1>1. i \in 0..Len(s) BY DEF Slots, Ends
<1>2. /\ r \in Seq(Timers) /\ Len(r) = Len(s) + 1
      /\ \A j \in 1..Len(s) + 1 : r[j] =
           IF j <= i THEN s[j] ELSE IF j = i + 1 THEN t ELSE s[j - 1]
  BY <1>1, InsertShape
<1> HIDE DEF r
<1>3. ToSet(r) = ToSet(s) \cup {t}
  <2>1. \A j \in 1..Len(s) : s[j] = r[IF j <= i THEN j ELSE j + 1]
    BY <1>1, <1>2
  <2>2. t = r[i + 1] BY <1>1, <1>2
  <2>3. \A j \in 1..Len(s) + 1 : r[j] = t \/ \E k \in 1..Len(s) : r[j] = s[k]
    <3> TAKE j \in 1..Len(s) + 1
    <3>1. CASE j <= i BY <1>1, <1>2, <3>1
    <3>2. CASE j = i + 1 BY <1>1, <1>2, <3>2
    <3>3. CASE j > i + 1
      <4>1. j - 1 \in 1..Len(s) /\ r[j] = s[j - 1] BY <1>1, <1>2, <3>3
      <4>2. QED BY <4>1
    <3>4. QED BY <1>1, <3>1, <3>2, <3>3
  <2>4. \A j \in 1..Len(s) : (IF j <= i THEN j ELSE j + 1) \in 1..Len(r)
    BY <1>1, <1>2
  <2>5. DOMAIN r = 1..Len(s) + 1 /\ DOMAIN s = 1..Len(s) /\ i + 1 \in 1..Len(s) + 1
    BY <1>1, <1>2
  <2>6. ToSet(r) \subseteq ToSet(s) \cup {t}
    BY <2>3, <2>5 DEF ToSet
  <2>7. ToSet(s) \subseteq ToSet(r)
    BY <1>2, <2>1, <2>4, <2>5 DEF ToSet
  <2>8. t \in ToSet(r)
    BY <2>2, <2>5 DEF ToSet
  <2>9. QED BY <2>6, <2>7, <2>8
<1>4. QED BY <1>2, <1>3 DEF r

\* Inserting into a queue in order (std::set::insert with the comparator of
\* timer.cpp:197-215) keeps the order as long as the addresses agree with the due
\* times, and a timer that is not first has a first one before it that is due no
\* later.
LEMMA SlotLine ==
  ASSUME NEW nx \in [Timers -> Nat], NEW s, Line(nx, s),
         NEW t \in Timers, t \notin ToSet(s), NEW i \in Slots(nx, s, t),
         Agree(nx, InsertAt(s, i + 1, t))
  PROVE  /\ Line(nx, InsertAt(s, i + 1, t))
         /\ ToSet(InsertAt(s, i + 1, t)) = ToSet(s) \cup {t}
         /\ i # 0 => s # <<>> /\ nx[s[1]] <= nx[t]
<1> DEFINE r == InsertAt(s, i + 1, t)
<1>0. s \in Seq(Timers) /\ Sorted(s) BY DEF Line
<1>1. /\ i \in 0..Len(s) /\ Agree(nx, r)
      /\ i > 0 => ~Less(nx, t, s[i])
      /\ i < Len(s) => Less(nx, t, s[i + 1])
  BY DEF Slots, Ends
<1>2. /\ r \in Seq(Timers) /\ Len(r) = Len(s) + 1
      /\ \A j \in 1..Len(s) + 1 : r[j] =
           IF j <= i THEN s[j] ELSE IF j = i + 1 THEN t ELSE s[j - 1]
  BY <1>0, <1>1, InsertShape
<1> HIDE DEF r
<1>3. ToSet(r) = ToSet(s) \cup {t} BY <1>0, SlotSet DEF r
<1>4. \A j \in 1..Len(s) : s[j] \in Timers /\ s[j] \in Nat /\ s[j] # t /\ nx[s[j]] \in Nat
  <2> TAKE j \in 1..Len(s)
  <2>1. s[j] \in Timers /\ j \in DOMAIN s BY <1>0
  <2>2. s[j] # t BY <2>1 DEF ToSet
  <2>3. QED BY <2>1, <2>2, TimerAssumption
<1>5. t \in Nat /\ nx[t] \in Nat BY TimerAssumption
<1>6. i > 0 => s[i] < t /\ nx[s[i]] <= nx[t]
  BY <1>1, <1>4, <1>5 DEF Less
<1>7. i < Len(s) => t < s[i + 1]
  <2> SUFFICES ASSUME i < Len(s), s[i + 1] < t PROVE FALSE
    BY <1>0, <1>1, <1>4, <1>5
  <2>1. nx[t] < nx[s[i + 1]]
    BY <1>0, <1>1, <1>4, <1>5 DEF Less
  <2>2. i + 2 \in DOMAIN r /\ i + 1 \in DOMAIN r /\ r[i + 2] = s[i + 1] /\ r[i + 1] = t
    <3> PICK n \in Nat : n = Len(s) BY <1>0
    <3>1. /\ i \in 0..n /\ i < n /\ DOMAIN r = 1..n + 1
          /\ \A x \in 1..n + 1 : r[x] = IF x <= i THEN s[x] ELSE IF x = i + 1 THEN t
                                                      ELSE s[x - 1]
      BY <1>1, <1>2
    <3>2. /\ i + 2 \in 1..n + 1 /\ ~(i + 2 <= i) /\ i + 2 # i + 1 /\ (i + 2) - 1 = i + 1
          /\ i + 1 \in 1..n + 1 /\ ~(i + 1 <= i)
      BY ONLY <3>1, n \in Nat
    <3>3. QED BY ONLY <3>1, <3>2
  <2>3. nx[s[i + 1]] <= nx[t]
    BY <1>1, <2>2 DEF Agree, r
  <2>4. QED BY <1>0, <1>1, <1>4, <1>5, <2>1, <2>3
<1>8. Sorted(r)
  <2> SUFFICES ASSUME NEW j \in 1..Len(s) + 1, NEW k \in 1..Len(s) + 1, j < k
               PROVE  r[j] < r[k]
    BY <1>2 DEF Sorted
  <2>1. \A x, y \in 1..Len(s) : x < y => s[x] < s[y]
    BY <1>0 DEF Sorted
  <2>2. \A x \in 1..Len(s) : x <= i => s[x] < t
    <3> TAKE x \in 1..Len(s)
    <3> HAVE x <= i
    <3>1. i > 0 /\ i \in 1..Len(s) /\ (x = i \/ x < i) BY <1>0, <1>1
    <3>2. s[i] < t BY <1>6, <3>1
    <3>3. s[x] = s[i] \/ s[x] < s[i] BY <2>1, <3>1
    <3>4. s[x] \in Nat /\ s[i] \in Nat /\ t \in Nat BY <1>4, <1>5, <3>1
    <3>5. QED BY ONLY <3>2, <3>3, <3>4
  <2>3. \A x \in 1..Len(s) : x > i => t < s[x]
    <3> TAKE x \in 1..Len(s)
    <3> HAVE x > i
    <3>1. CASE x = i + 1 BY <1>0, <1>1, <1>7, <3>1
    <3>2. CASE x > i + 1
      <4>1. i + 1 \in 1..Len(s) /\ i < Len(s) BY <1>0, <1>1, <3>2
      <4>2. t < s[i + 1] /\ s[i + 1] < s[x] BY <1>7, <2>1, <3>2, <4>1
      <4>3. QED BY <1>4, <1>5, <4>1, <4>2
    <3>3. QED BY <1>0, <1>1, <3>1, <3>2
  <2> PICK n \in Nat : n = Len(s) BY <1>0
  <2>a. /\ i \in 0..n /\ j \in 1..n + 1 /\ k \in 1..n + 1 /\ j < k
        /\ \A x \in 1..n + 1 : r[x] = IF x <= i THEN s[x] ELSE IF x = i + 1 THEN t
                                                    ELSE s[x - 1]
    BY <1>1, <1>2
  <2>b. /\ \A x, y \in 1..n : x < y => s[x] < s[y]
        /\ \A x \in 1..n : x <= i => s[x] < t
        /\ \A x \in 1..n : x > i => t < s[x]
    BY <2>1, <2>2, <2>3
  <2>4. CASE k <= i
    <3>1. j \in 1..n /\ k \in 1..n /\ j <= i BY ONLY <2>a, <2>4, n \in Nat
    <3>2. r[j] = s[j] /\ r[k] = s[k] BY ONLY <2>a, <2>4, <3>1
    <3>3. QED BY ONLY <2>a, <2>b, <3>1, <3>2
  <2>5. CASE k = i + 1
    <3>1. j \in 1..n /\ j <= i /\ ~(k <= i) BY ONLY <2>a, <2>5, n \in Nat
    <3>2. r[j] = s[j] /\ r[k] = t BY ONLY <2>a, <2>5, <3>1
    <3>3. QED BY ONLY <2>b, <3>1, <3>2
  <2>6. CASE k > i + 1
    <3>0. k - 1 \in 1..n /\ k - 1 > i /\ ~(k <= i) /\ k # i + 1
      BY ONLY <2>a, <2>6, n \in Nat
    <3>k. r[k] = s[k - 1] BY ONLY <2>a, <3>0
    <3>1. CASE j <= i
      <4>1. j \in 1..n /\ j < k - 1 BY ONLY <2>a, <3>0, <3>1, n \in Nat
      <4>2. r[j] = s[j] BY ONLY <2>a, <3>1
      <4>3. QED BY ONLY <2>b, <3>0, <3>k, <4>1, <4>2
    <3>2. CASE j = i + 1
      <4>1. ~(j <= i) BY ONLY <2>a, <3>2, n \in Nat
      <4>2. r[j] = t BY ONLY <2>a, <3>2, <4>1
      <4>3. QED BY ONLY <2>b, <3>0, <3>k, <4>2
    <3>3. CASE j > i + 1
      <4>1. j - 1 \in 1..n /\ j - 1 < k - 1 /\ ~(j <= i) /\ j # i + 1
        BY ONLY <2>a, <3>3, n \in Nat
      <4>2. r[j] = s[j - 1] BY ONLY <2>a, <4>1
      <4>3. QED BY ONLY <2>b, <3>0, <3>k, <4>1, <4>2
    <3>4. j <= i \/ j = i + 1 \/ j > i + 1 BY ONLY <2>a, n \in Nat
    <3>5. QED BY ONLY <3>1, <3>2, <3>3, <3>4
  <2>7. QED BY <1>1, <2>4, <2>5, <2>6
<1>9. i # 0 => s # <<>> /\ nx[s[1]] <= nx[t]
  <2> SUFFICES ASSUME i # 0 PROVE s # <<>> /\ nx[s[1]] <= nx[t]
    OBVIOUS
  <2>1. i > 0 /\ 1 \in 1..Len(s) /\ i \in 1..Len(s) BY <1>0, <1>1
  <2>2. s[1] = s[i] \/ s[1] < s[i] BY <1>0, <1>1, <2>1 DEF Sorted
  <2>3. nx[s[1]] <= nx[s[i]]
    BY <1>0, <1>4, <2>1, <2>2 DEF Line, Agree
  <2>4. QED BY <1>0, <1>4, <1>5, <1>6, <2>1, <2>3
<1>10. QED BY <1>1, <1>2, <1>3, <1>8, <1>9 DEF Line, r

\* The facts about a set in order that the steps use.
LEMMA LineTypes ==
  ASSUME Line(next, set)
  PROVE  /\ set \in Seq(Timers) /\ Sorted(set) /\ DOMAIN set = 1..Len(set) /\ Len(set) \in Nat
         /\ \A j \in 1..Len(set) : set[j] \in Timers /\ set[j] \in Nat
         /\ \A x, y \in 1..Len(set) : x < y => set[x] < set[y]
         /\ \A x, y \in 1..Len(set) : x # y => set[x] # set[y]
         /\ \A x, y \in 1..Len(set) : set[x] < set[y] => next[set[x]] <= next[set[y]]
<1>1. set \in Seq(Timers) /\ Sorted(set) BY DEF Line
<1>2. DOMAIN set = 1..Len(set) /\ Len(set) \in Nat
      /\ \A j \in 1..Len(set) : set[j] \in Timers
  BY <1>1
<1>3. \A j \in 1..Len(set) : set[j] \in Nat BY <1>2, TimerAssumption
<1>4. \A x, y \in 1..Len(set) : x < y => set[x] < set[y] BY <1>1, <1>2 DEF Sorted
<1>5. \A x, y \in 1..Len(set) : x # y => set[x] # set[y]
  <2> SUFFICES ASSUME NEW x \in 1..Len(set), NEW y \in 1..Len(set), x # y
               PROVE  set[x] # set[y]
    OBVIOUS
  <2>1. set[x] < set[y] \/ set[y] < set[x] BY <1>2, <1>4
  <2>2. QED BY <1>3, <2>1
<1>6. \A x, y \in 1..Len(set) : set[x] < set[y] => next[set[x]] <= next[set[y]]
  BY <1>2 DEF Line, Agree
<1>7. QED BY <1>1, <1>2, <1>3, <1>4, <1>5, <1>6

\* erase (timer.cpp:17) keeps the order, whatever m_next of the erased timer.
LEMMA EraseLine ==
  ASSUME Line(next, set), NEW t \in ToSet(set),
         NEW nx, \A u \in Timers : u # t => nx[u] = next[u]
  PROVE  /\ Line(nx, Erase(t))
         /\ ToSet(Erase(t)) = ToSet(set) \ {t}
<1>0. set \in Seq(Timers) /\ Sorted(set) /\ DOMAIN set = 1..Len(set) /\ Len(set) \in Nat
      /\ \A j \in 1..Len(set) : set[j] \in Timers /\ set[j] \in Nat
  BY LineTypes
<1>1. PICK m \in 1..Len(set) : m = CHOOSE i \in DOMAIN set : set[i] = t
  BY <1>0 DEF ToSet
<1>2. set[m] = t
  BY <1>0, <1>1 DEF ToSet
<1>3. PICK r : r = Erase(t) OBVIOUS
<1>4. /\ r \in Seq(Timers) /\ Len(r) = Len(set) - 1
      /\ \A j \in 1..Len(set) - 1 : r[j] = IF j < m THEN set[j] ELSE set[j + 1]
  BY <1>0, <1>1, <1>3, RemoveShape DEF Erase
<1>5. \A x, y \in 1..Len(set) : x < y => set[x] < set[y]
  BY LineTypes
<1>6. \A x, y \in 1..Len(set) : x # y => set[x] # set[y]
  BY LineTypes
<1>7. ASSUME NEW j \in 1..Len(set) - 1
      PROVE  \E x \in 1..Len(set) : x # m /\ r[j] = set[x] /\ x = IF j < m THEN j ELSE j + 1
  BY <1>0, <1>4
<1>8. Sorted(r)
  <2> SUFFICES ASSUME NEW j \in 1..Len(set) - 1, NEW k \in 1..Len(set) - 1, j < k
               PROVE  r[j] < r[k]
    <3>1. DOMAIN r = 1..Len(set) - 1 BY <1>0, <1>4
    <3>2. QED BY <3>1 DEF Sorted
  <2>1. PICK x \in 1..Len(set) : r[j] = set[x] /\ x = IF j < m THEN j ELSE j + 1
    BY <1>7
  <2>2. PICK y \in 1..Len(set) : r[k] = set[y] /\ y = IF k < m THEN k ELSE k + 1
    BY <1>7
  <2>3. x < y BY <2>1, <2>2
  <2>4. QED BY <1>5, <2>1, <2>2, <2>3
<1>9. Agree(nx, r)
  <2> SUFFICES ASSUME NEW j \in 1..Len(set) - 1, NEW k \in 1..Len(set) - 1, r[j] < r[k]
               PROVE  nx[r[j]] <= nx[r[k]]
    BY <1>4 DEF Agree
  <2>1. PICK x \in 1..Len(set) : x # m /\ r[j] = set[x] BY <1>7
  <2>2. PICK y \in 1..Len(set) : y # m /\ r[k] = set[y] BY <1>7
  <2>3. next[set[x]] <= next[set[y]]
    BY <1>0, <2>1, <2>2 DEF Line, Agree
  <2>4. set[x] # t /\ set[y] # t
    BY <1>2, <1>6, <2>1, <2>2
  <2>5. QED BY <1>0, <2>1, <2>2, <2>3, <2>4
<1>10. ToSet(r) = ToSet(set) \ {t}
  <2>1. DOMAIN r = 1..Len(set) - 1 BY <1>0, <1>4
  <2>2. ToSet(r) \subseteq ToSet(set) \ {t}
    <3> SUFFICES ASSUME NEW j \in 1..Len(set) - 1 PROVE r[j] \in ToSet(set) \ {t}
      BY <2>1 DEF ToSet
    <3>1. PICK x \in 1..Len(set) : x # m /\ r[j] = set[x] BY <1>7
    <3>2. set[x] # t BY <1>2, <1>6, <3>1
    <3>3. set[x] \in ToSet(set) BY <1>0 DEF ToSet
    <3>4. QED BY <3>1, <3>2, <3>3
  <2>3. ASSUME NEW x \in 1..Len(set), set[x] # t PROVE set[x] \in ToSet(r)
    <3>1. x < m \/ x > m BY <1>2, <2>3
    <3>2. CASE x < m
      <4>1. x \in 1..Len(set) - 1 /\ r[x] = set[x] BY <1>0, <1>4, <3>2
      <4>2. QED BY <2>1, <4>1 DEF ToSet
    <3>3. CASE x > m
      <4>1. x - 1 \in 1..Len(set) - 1 /\ r[x - 1] = set[x] BY <1>0, <1>4, <3>3
      <4>2. QED BY <2>1, <4>1 DEF ToSet
    <3>4. QED BY <3>1, <3>2, <3>3
  <2>4. QED BY <1>0, <2>2, <2>3 DEF ToSet
<1>11. QED BY <1>3, <1>4, <1>8, <1>9, <1>10 DEF Line

\* In a set in order find never misses a timer, and finds no other.
LEMMA FindsIn ==
  ASSUME Line(next, set), next \in [Timers -> Nat], NEW t \in Timers
  PROVE  /\ t \in ToSet(set) => FALSE \notin Finds(set, t)
         /\ TRUE \in Finds(set, t) => t \in ToSet(set)
<1>0. set \in Seq(Timers) /\ Sorted(set) /\ DOMAIN set = 1..Len(set) /\ Len(set) \in Nat
      /\ \A j \in 1..Len(set) : set[j] \in Timers /\ set[j] \in Nat
  BY LineTypes
<1>1. ASSUME TRUE \in Finds(set, t) PROVE t \in ToSet(set)
  <2>1. PICK i \in 0..Len(set) : i < Len(set) /\ set[i + 1] = t
    BY <1>1 DEF Finds, Ends
  <2>2. i + 1 \in DOMAIN set BY <1>0, <2>1
  <2>3. QED BY <2>1, <2>2 DEF ToSet
<1>2. ASSUME t \in ToSet(set), FALSE \in Finds(set, t) PROVE FALSE
  <2>1. PICK i \in 0..Len(set) :
          /\ i > 0 => Less(next, set[i], t)
          /\ i < Len(set) => ~Less(next, set[i + 1], t)
          /\ ~(i < Len(set) /\ set[i + 1] = t)
    BY <1>2 DEF Finds, Ends
  <2>2. PICK m \in 1..Len(set) : set[m] = t
    BY <1>0, <1>2 DEF ToSet
  <2>3. ASSUME NEW j \in 1..Len(set) PROVE Less(next, set[j], t) <=> set[j] < t
    <3>1. t < set[j] => next[t] <= next[set[j]] BY <2>2, LineTypes
    <3>2. set[j] \in Nat /\ t \in Nat /\ next[t] \in Nat /\ next[set[j]] \in Nat
      BY <1>0, <2>2
    <3>3. t < set[j] \/ t = set[j] \/ set[j] < t BY <3>2
    <3>4. QED BY <3>1, <3>2, <3>3 DEF Less
  <2>4. \A x, y \in 1..Len(set) : x < y => set[x] < set[y]
    BY LineTypes
  <2>5. i > 0 => i < m
    <3> SUFFICES ASSUME i > 0, m <= i PROVE FALSE BY <1>0
    <3>1. i \in 1..Len(set) /\ set[i] < t BY <1>0, <2>1, <2>3
    <3>2. QED BY <1>0, <2>2, <2>4, <3>1
  <2>6. i < Len(set) /\ i + 1 \in 1..Len(set) BY <1>0, <2>5
  <2>7. ~(set[i + 1] < t) BY <2>1, <2>3, <2>6
  <2>8. m <= i + 1 BY <1>0, <2>2, <2>4, <2>6, <2>7
  <2>9. m = i + 1 BY <2>5, <2>6, <2>8
  <2>10. QED BY <2>1, <2>2, <2>6, <2>9
<1>3. QED BY <1>1, <1>2

\* f[i]: the sequences that may be there when i of the expired timers were dealt with.
Chain(f, nx, s, expired) ==
  /\ f[0] = {s}
  /\ \A i \in 1..Len(expired) : f[i] =
       IF loop[expired[i]] THEN Insertions(nx, f[i - 1], expired[i]) ELSE f[i - 1]

\* Reinserted, step by step.
LEMMA ReinsertedSteps ==
  ASSUME NEW nx, NEW s, NEW expired, Len(expired) \in Nat
  PROVE  \E f : Chain(f, nx, s, expired) /\ Reinserted(nx, s, expired) = f[Len(expired)]
<1> DEFINE n == Len(expired)
           Is(f, m) == f = [i \in 0..m |->
             IF i = 0 THEN {s}
             ELSE IF loop[expired[i]] THEN Insertions(nx, f[i - 1], expired[i])
             ELSE f[i - 1]]
           Bad == {m \in 0..n : ~\E f : Is(f, m)}
<1>0. ASSUME NEW m \in Nat, NEW f, Is(f, m)
      PROVE  \A i \in 0..m : f[i] =
               IF i = 0 THEN {s}
               ELSE IF loop[expired[i]] THEN Insertions(nx, f[i - 1], expired[i])
               ELSE f[i - 1]
  BY <1>0
<1>1. Is([i \in {0} |-> {s}], 0) OBVIOUS
<1>2. ASSUME NEW m \in Nat \ {0}, NEW f, Is(f, m - 1)
      PROVE  \E g : Is(g, m)
  <2> DEFINE g == [i \in 0..m |->
             IF i = 0 THEN {s}
             ELSE IF loop[expired[i]] THEN Insertions(nx, f[i - 1], expired[i])
             ELSE f[i - 1]]
  <2>1. ASSUME NEW i \in 0..m - 1 PROVE g[i] = f[i]
    <3>1. i \in 0..m /\ m - 1 \in Nat OBVIOUS
    <3> HIDE DEF Is
    <3>2. f[i] = IF i = 0 THEN {s}
               ELSE IF loop[expired[i]] THEN Insertions(nx, f[i - 1], expired[i])
               ELSE f[i - 1]
      BY <1>0, <1>2, <3>1
    <3>3. QED BY <3>1, <3>2
  <2>2. ASSUME NEW i \in 0..m, i # 0 PROVE g[i - 1] = f[i - 1]
    <3>1. i - 1 \in 0..m - 1 BY <2>2
    <3> HIDE DEF g
    <3>2. QED BY <2>1, <3>1
  <2>3. Is(g, m) BY <2>2
  <2> HIDE DEF g, Is
  <2>4. QED BY <2>3
<1> HIDE DEF Is
<1>3. Bad = {}
  <2> SUFFICES ASSUME Bad # {} PROVE FALSE OBVIOUS
  <2>1. PICK m \in Bad : \A x \in Bad : m <= x
    <3>1. Bad \in SUBSET Nat OBVIOUS
    <3> HIDE DEF Bad
    <3>2. QED BY <3>1, LeastExists
  <2>2. m \in 0..n /\ ~\E f : Is(f, m) OBVIOUS
  <2>3. m # 0 BY <1>1, <2>2
  <2>4. m - 1 \in 0..n BY <2>2, <2>3
  <2>5. m - 1 \notin Bad BY <2>1, <2>2
  <2>6. PICK f : Is(f, m - 1) BY <2>4, <2>5
  <2>7. QED BY <1>2, <2>2, <2>3, <2>6
<1>4. \E f : Is(f, n) BY <1>3
<1> DEFINE h == CHOOSE f : Is(f, n)
<1>5. Is(h, n) BY <1>4
<1>6. Reinserted(nx, s, expired) = h[n] BY DEF Reinserted, Is
<1> HIDE DEF h
<1>7. \A i \in 0..n : h[i] =
               IF i = 0 THEN {s}
               ELSE IF loop[expired[i]] THEN Insertions(nx, h[i - 1], expired[i])
               ELSE h[i - 1]
  BY <1>0, <1>5
<1>8. QED BY <1>6, <1>7 DEF Chain

\* The looping timers that listExpriedCb puts back (timer.cpp:154-162) leave the
\* set in order if the addresses agree in the end, and nothing but them is added.
LEMMA ReinsertedLine ==
  ASSUME NEW nx \in [Timers -> Nat], NEW s, Line(nx, s), NEW expired \in Seq(Timers),
         \A i \in 1..Len(expired) : expired[i] \notin ToSet(s),
         \A i, j \in 1..Len(expired) : i # j => expired[i] # expired[j],
         NEW q \in Reinserted(nx, s, expired), Agree(nx, q)
  PROVE  /\ Line(nx, q)
         /\ \A t \in ToSet(q) :
              t \in ToSet(s) \/ \E i \in 1..Len(expired) : loop[expired[i]] /\ t = expired[i]
<1> DEFINE n == Len(expired)
           Good(x, m) == /\ x \in Seq(Timers)
                         /\ Agree(nx, x) => Line(nx, x)
                         /\ \A t \in ToSet(x) : t \in ToSet(s) \/
                              \E i \in 1..m : loop[expired[i]] /\ t = expired[i]
<1>0. n \in Nat OBVIOUS
<1>1. PICK f : Chain(f, nx, s, expired) /\ Reinserted(nx, s, expired) = f[n]
  BY <1>0, ReinsertedSteps
<1>2. \A x \in f[0] : Good(x, 0)
  BY <1>1 DEF Chain, Line
<1>3. ASSUME NEW m \in 1..n, \A x \in f[m - 1] : Good(x, m - 1)
      PROVE  \A x \in f[m] : Good(x, m)
  <2> SUFFICES ASSUME NEW x \in f[m] PROVE Good(x, m)
    OBVIOUS
  <2>0. m - 1 \in 0..n /\ 1..m - 1 \subseteq 1..m /\ m \in 1..m OBVIOUS
  <2>1. CASE ~loop[expired[m]]
    <3>1. x \in f[m - 1] BY <1>1, <2>1 DEF Chain
    <3>2. Good(x, m - 1) BY <1>3, <3>1
    <3>3. QED BY <2>0, <3>2
  <2>2. CASE loop[expired[m]]
    <3>1. x \in Insertions(nx, f[m - 1], expired[m]) BY <1>1, <2>2 DEF Chain
    <3>2. PICK y \in f[m - 1] : \E i \in Slots(nx, y, expired[m]) : x = InsertAt(y, i + 1, expired[m])
      BY <3>1 DEF Insertions
    <3>3. PICK i \in Slots(nx, y, expired[m]) : x = InsertAt(y, i + 1, expired[m])
      BY <3>2
    <3>4. Good(y, m - 1) BY <1>3
    <3>5. y \in Seq(Timers) BY <3>4
    <3>6. expired[m] \in Timers /\ expired[m] \notin ToSet(y)
      <4>1. expired[m] \in Timers OBVIOUS
      <4>2. ASSUME NEW k \in 1..m - 1 PROVE expired[m] # expired[k]
        <5>1. k \in 1..Len(expired) /\ m \in 1..Len(expired) /\ k # m OBVIOUS
        <5>2. QED BY <5>1
      <4>3. expired[m] \notin ToSet(s) OBVIOUS
      <4>4. QED BY <3>4, <4>1, <4>2, <4>3
    <3>7. x \in Seq(Timers) /\ ToSet(x) = ToSet(y) \cup {expired[m]}
      BY <3>3, <3>5, <3>6, SlotSet
    <3>8. Agree(nx, x) => Line(nx, x)
      <4> SUFFICES ASSUME Agree(nx, x) PROVE Line(nx, x)
        OBVIOUS
      <4>1. Agree(nx, y) BY <3>7, AgreeWithin
      <4>2. Line(nx, y) BY <3>4, <4>1
      <4>3. QED BY <3>3, <3>6, <4>2, SlotLine
    <3>9. QED BY <2>0, <2>2, <3>4, <3>7, <3>8
  <2>3. QED BY <2>1, <2>2
<1> HIDE DEF Good
<1> DEFINE Bad == {m \in 0..n : ~\A x \in f[m] : Good(x, m)}
<1>4. Bad = {}
  <2> SUFFICES ASSUME Bad # {} PROVE FALSE OBVIOUS
  <2>1. PICK m \in Bad : \A x \in Bad : m <= x
    <3>1. Bad \in SUBSET Nat BY <1>0
    <3> HIDE DEF Bad
    <3>2. QED BY <3>1, LeastExists
  <2>2. m \in 0..n /\ ~\A x \in f[m] : Good(x, m) OBVIOUS
  <2>3. m # 0 BY <1>2, <2>2
  <2>4. m \in 1..n /\ m - 1 \in 0..n BY <1>0, <2>2, <2>3
  <2>5. m - 1 \notin Bad BY <2>1, <2>2
  <2>6. \A x \in f[m - 1] : Good(x, m - 1) BY <2>4, <2>5
  <2>7. QED BY <1>3, <2>2, <2>4, <2>6
<1>5. Good(q, n)
  <2>1. n \notin Bad /\ n \in 0..n BY <1>0, <1>4
  <2>2. q \in f[n] BY <1>1
  <2>3. QED BY <2>1, <2>2
<1>6. QED BY <1>5 DEF Good

\* listExpriedCb takes a front part of the set out (timer.cpp:146-151).
LEMMA CountExpired ==
  ASSUME Line(next, set), NEW p \in Pollers, NEW n \in ExpiredCounts(p)
  PROVE  n \in 0..Len(set)
<1>0. Len(set) \in Nat BY LineTypes
<1>1. CASE Rollover(p)
  BY <1>0, <1>1 DEF ExpiredCounts
<1>2. CASE ~Rollover(p)
  <2> DEFINE P(i, j) == /\ \A k \in (i + 1)..j : next[set[k]] = nowMs[p]
                        /\ j < Len(set) => next[set[j + 1]] # nowMs[p]
  <2>1. PICK i \in 0..Len(set) : n = CHOOSE j \in i..Len(set) : P(i, j)
    BY <1>2 DEF ExpiredCounts, Ends
  <2>2. \E j \in i..Len(set) : P(i, j)
    <3> DEFINE S == {j \in i..Len(set) : j < Len(set) => next[set[j + 1]] # nowMs[p]}
    <3>1. S \in SUBSET Nat /\ S # {} BY <1>0
    <3>2. PICK j \in S : \A x \in S : j <= x
      <4> HIDE DEF S
      <4>1. QED BY <3>1, LeastExists
    <3>3. ASSUME NEW k \in (i + 1)..j PROVE next[set[k]] = nowMs[p]
      <4>1. k - 1 \in i..Len(set) /\ k - 1 < j /\ (k - 1) + 1 = k BY <1>0
      <4>2. k - 1 \notin S
        <5>1. j \in Nat /\ k - 1 \in Int /\ ~(j <= k - 1) BY <1>0, <4>1
        <5> HIDE DEF S
        <5>2. QED BY <3>2, <5>1
      <4>3. next[set[(k - 1) + 1]] = nowMs[p] BY <4>1, <4>2
      <4>4. QED BY <4>1, <4>3
    <3>4. P(i, j) BY <3>3
    <3>5. QED BY <3>4
  <2> HIDE DEF P
  <2>3. n \in i..Len(set) BY <2>1, <2>2
  <2>4. QED BY <1>0, <2>3
<1>3. QED BY <1>1, <1>2

-----------------------------------------------------------------------------
(* The invariant of the order, until the threads are misled.               *)

\* Types: the numbers that are compared.
Clocks ==
  /\ now \in Nat /\ next \in [Timers -> Nat] /\ ms \in [Timers -> Nat]
  /\ until \in [Pollers -> Nat] /\ nowMs \in [Pollers -> Nat]
  /\ at \in [Pollers -> {"busy", "awake", "asleep", "woken"}]
  /\ tickled \in BOOLEAN /\ edge \in BOOLEAN /\ telling \in Nat

\* m_timers is in order, and holds timers that have their callbacks.
Queue ==
  /\ Line(next, set)
  /\ \A t \in ToSet(set) : t \in made /\ cb[t]

\* m_next - m_ms is a moment that has been, so reset(ms, false) never wraps round.
Starts == \A t \in Timers : ms[t] <= next[t]

\* When every idle thread sleeps and no tickle is under way, m_tickled is clear,
\* and each timer has a thread that wakes up in time.  OnTime alone is not
\* inductive: with m_tickled set the next addTimer would not tickle.
Covered ==
  (\A p \in Pollers : at[p] = "asleep") /\ ~edge /\ telling = 0 =>
    ~tickled /\ \A t \in ToSet(set) : \E p \in Pollers : until[p] <= next[t]

OrderInv == Clocks /\ Queue /\ Starts /\ Covered

\* addTimer(timer, lock) (timer.cpp:183-195): the order is kept, and a timer that
\* comes without a tickle is covered by the thread that covers the first one.
LEMMA AddKeepsOrder ==
  ASSUME OrderInv, NEW t \in Timers, NEW s, ToSet(s) \subseteq ToSet(set), t \notin ToSet(s),
         NEW nx \in [Timers -> Nat], \A u \in Timers : u # t => nx[u] = next[u],
         Line(nx, s), next' = nx, AddToSet(nx, s, t), ~misled', UNCHANGED <<at, until, edge>>
  PROVE  /\ Line(next', set') /\ ToSet(set') = ToSet(s) \cup {t}
         /\ telling' \in Nat /\ tickled' \in BOOLEAN
         /\ Covered'
<1>1. PICK i \in Slots(nx, s, t) :
        /\ set' = InsertAt(s, i + 1, t)
        /\ tickled' = (tickled \/ (i = 0 /\ ~tickled))
        /\ telling' = IF i = 0 /\ ~tickled THEN telling + 1 ELSE telling
  BY DEF AddToSet
<1>a. Agree(nx, InsertAt(s, i + 1, t))
  <2>1. Agree(next', set') BY DEF AddToSet, Watch
  <2>2. QED BY <1>1, <2>1
<1>2. /\ Line(nx, set') /\ ToSet(set') = ToSet(s) \cup {t}
      /\ i # 0 => s # <<>> /\ nx[s[1]] <= nx[t]
  BY <1>1, <1>a, SlotLine
<1>3. telling' \in Nat /\ tickled' \in BOOLEAN
  BY <1>1 DEF OrderInv, Clocks
<1>4. Covered'
  <2> SUFFICES ASSUME \A p \in Pollers : at[p] = "asleep", ~edge, telling' = 0
               PROVE  ~tickled' /\ \A u \in ToSet(set') : \E p \in Pollers : until[p] <= nx[u]
    BY DEF Covered
  <2>1. telling = 0 /\ ~(i = 0 /\ ~tickled) BY <1>1 DEF OrderInv, Clocks
  <2>2. ~tickled /\ \A u \in ToSet(set) : \E p \in Pollers : until[p] <= next[u]
    BY <2>1 DEF OrderInv, Covered
  <2>3. i # 0 /\ ~tickled' BY <1>1, <2>1, <2>2
  <2>4. s \in Seq(Timers) BY DEF Line
  <2>5. ASSUME NEW u \in ToSet(s) PROVE \E p \in Pollers : until[p] <= nx[u]
    <3>1. u \in Timers /\ u # t BY <2>4 DEF ToSet
    <3>2. nx[u] = next[u] BY <3>1
    <3>3. QED BY <2>2, <3>2
  <2>6. s[1] \in ToSet(s) /\ s[1] \in Timers
    <3>1. 1 \in DOMAIN s BY <1>2, <2>3, <2>4
    <3>2. QED BY <2>4, <3>1 DEF ToSet
  <2>7. PICK p \in Pollers : until[p] <= nx[s[1]] BY <2>5, <2>6
  <2>8. until[p] <= nx[t]
    <3>1. until[p] \in Nat /\ nx[s[1]] \in Nat /\ nx[t] \in Nat BY <2>6 DEF OrderInv, Clocks
    <3>2. QED BY <1>2, <2>3, <2>7, <3>1
  <2>9. QED BY <1>2, <2>3, <2>5, <2>8
<1>5. QED BY <1>2, <1>3, <1>4

\* The operations on timers and the steps of the idle threads, one lemma each.
LEMMA AddTimerKeeps ==
  ASSUME Inv, OrderInv, ~misled', NEW t \in Timers, NEW d \in Durations, NEW l \in Loops,
         AddTimer(t, d, l)
  PROVE  OrderInv'
<1>0. d \in Nat /\ l \in BOOLEAN BY TimerAssumption
<1>1. PICK nx : nx = next' OBVIOUS
<1>2. /\ nx = [next EXCEPT ![t] = now + d] /\ AddToSet(nx, set, t)
      /\ t \notin made /\ made' = made \cup {t}
      /\ ms' = [ms EXCEPT ![t] = d] /\ cb' = [cb EXCEPT ![t] = TRUE]
      /\ UNCHANGED <<now, edge, at, until, nowMs>>
  BY <1>1 DEF AddTimer, pollerVars
<1>3. nx \in [Timers -> Nat] /\ \A u \in Timers : u # t => nx[u] = next[u]
  BY <1>0, <1>2 DEF OrderInv, Clocks
<1>4. t \notin ToSet(set) BY <1>2 DEF OrderInv, Queue
<1>5. Line(nx, set)
  <2>1. set \in Seq(Timers) /\ \A j \in DOMAIN set : set[j] \in Timers /\ set[j] # t
    BY <1>4, LineTypes DEF OrderInv, Queue, ToSet
  <2>2. QED BY <1>3, <2>1 DEF OrderInv, Queue, Line, Agree
<1>6. /\ Line(next', set') /\ ToSet(set') = ToSet(set) \cup {t}
      /\ telling' \in Nat /\ tickled' \in BOOLEAN /\ Covered'
  BY <1>1, <1>2, <1>3, <1>4, <1>5, AddKeepsOrder
<1>7. Clocks' BY <1>0, <1>1, <1>2, <1>3, <1>6 DEF OrderInv, Clocks
<1>8. Queue' BY <1>2, <1>6 DEF OrderInv, Queue, Inv, Types
<1>9. Starts' BY <1>0, <1>1, <1>2 DEF OrderInv, Starts, Clocks
<1>10. QED BY <1>6, <1>7, <1>8, <1>9 DEF OrderInv

LEMMA ResetKeeps ==
  ASSUME OrderInv, ~misled', NEW t \in Timers, NEW d \in Durations, NEW b \in BOOLEAN,
         Reset(t, d, b)
  PROVE  OrderInv'
<1>0. d \in Nat BY TimerAssumption
<1>1. PICK nx : nx = next' OBVIOUS
<1>2. /\ nx = [next EXCEPT ![t] = (IF b THEN now ELSE next[t] - ms[t]) + d]
      /\ AddToSet(nx, Erase(t), t) /\ TRUE \in Finds(set, t)
      /\ ms' = [ms EXCEPT ![t] = d]
      /\ UNCHANGED <<now, made, cb, edge, at, until, nowMs>>
  BY <1>1 DEF Reset, pollerVars
<1>3. t \in ToSet(set) BY <1>2, FindsIn DEF OrderInv, Queue, Clocks
<1>4. /\ next[t] \in Nat /\ ms[t] \in Nat /\ now \in Nat
      /\ ms[t] <= next[t]
  BY DEF OrderInv, Clocks, Starts
<1>5. nx \in [Timers -> Nat] /\ (\A u \in Timers : u # t => nx[u] = next[u])
      /\ d <= nx[t]
  BY <1>0, <1>2, <1>4 DEF OrderInv, Clocks
<1>6. Line(nx, Erase(t)) /\ ToSet(Erase(t)) = ToSet(set) \ {t}
  BY <1>3, <1>5, EraseLine DEF OrderInv, Queue
<1>7. /\ Line(next', set') /\ ToSet(set') = ToSet(Erase(t)) \cup {t}
      /\ telling' \in Nat /\ tickled' \in BOOLEAN /\ Covered'
  <2>1. PICK s : s = Erase(t) OBVIOUS
  <2>2. QED BY <1>1, <1>2, <1>5, <1>6, <2>1, AddKeepsOrder
<1>8. ToSet(set') = ToSet(set) BY <1>3, <1>6, <1>7
<1>9. Clocks' BY <1>0, <1>1, <1>2, <1>5, <1>7 DEF OrderInv, Clocks
<1>10. Queue' BY <1>2, <1>7, <1>8 DEF OrderInv, Queue
<1>11. Starts' BY <1>0, <1>1, <1>2, <1>5 DEF OrderInv, Starts, Clocks
<1>12. QED BY <1>7, <1>9, <1>10, <1>11 DEF OrderInv

LEMMA RefreshKeeps ==
  ASSUME OrderInv, ~misled', NEW t \in Timers, Refresh(t)
  PROVE  OrderInv'
<1>1. PICK nx : nx = next' OBVIOUS
<1>2. /\ nx = [next EXCEPT ![t] = now + ms[t]] /\ TRUE \in Finds(set, t)
      /\ \E i \in Slots(nx, Erase(t), t) : set' = InsertAt(Erase(t), i + 1, t)
      /\ UNCHANGED <<now, made, ms, cb, tickled, telling, edge, at, until, nowMs>>
  BY <1>1 DEF Refresh, pollerVars
<1>3. t \in ToSet(set) BY <1>2, FindsIn DEF OrderInv, Queue, Clocks
<1>4. /\ next[t] \in Nat /\ ms[t] \in Nat /\ now \in Nat
      /\ ms[t] <= next[t]
  BY DEF OrderInv, Clocks, Starts
<1>5. nx \in [Timers -> Nat] /\ (\A u \in Timers : u # t => nx[u] = next[u])
      /\ nx[t] = now + ms[t]
  BY <1>2, <1>4 DEF OrderInv, Clocks
<1>a. Agree(next', set') /\ next[t] <= nx[t]
  <2>1. Agree(next', set') /\ ~(nx[t] < next[t]) BY <1>1 DEF Refresh
  <2>2. QED BY <1>4, <1>5, <2>1
<1>6. Line(nx, Erase(t)) /\ ToSet(Erase(t)) = ToSet(set) \ {t}
  BY <1>3, <1>5, EraseLine DEF OrderInv, Queue
<1>7. Line(nx, set') /\ ToSet(set') = ToSet(set)
  <2>1. PICK s : s = Erase(t) OBVIOUS
  <2>2. PICK i \in Slots(nx, s, t) : set' = InsertAt(s, i + 1, t) BY <1>2, <2>1
  <2>a. Agree(nx, InsertAt(s, i + 1, t)) BY <1>1, <1>a, <2>2
  <2>3. Line(nx, InsertAt(s, i + 1, t)) /\ ToSet(InsertAt(s, i + 1, t)) = ToSet(s) \cup {t}
    BY <1>5, <1>6, <2>1, <2>a, SlotLine
  <2>4. QED BY <1>3, <1>6, <2>1, <2>2, <2>3
<1>8. Clocks' BY <1>1, <1>2, <1>5 DEF OrderInv, Clocks
<1>9. Queue' BY <1>1, <1>2, <1>7 DEF OrderInv, Queue
<1>10. Starts' BY <1>1, <1>2, <1>4, <1>5 DEF OrderInv, Starts, Clocks
<1>11. Covered'
  <2>1. ASSUME NEW u \in ToSet(set), NEW p \in Pollers, until[p] <= next[u]
        PROVE  until[p] <= nx[u]
    <3>1. u \in Timers BY LineTypes DEF ToSet, OrderInv, Queue
    <3>2. until[p] \in Nat /\ next[u] \in Nat /\ nx[u] \in Nat /\ next[u] <= nx[u]
      BY <1>5, <1>a, <3>1 DEF OrderInv, Clocks
    <3>3. QED BY <2>1, <3>2
  <2>2. QED BY <1>1, <1>2, <1>7, <2>1 DEF OrderInv, Covered
<1>12. QED BY <1>8, <1>9, <1>10, <1>11 DEF OrderInv

LEMMA CancelKeeps ==
  ASSUME Inv, OrderInv, NEW t \in Timers, Cancel(t)
  PROVE  OrderInv'
<1>1. /\ cb' = [cb EXCEPT ![t] = FALSE]
      /\ \E found \in Finds(set, t) : set' = IF found THEN Erase(t) ELSE set
      /\ UNCHANGED <<now, made, ms, next, tickled, telling, edge, at, until, nowMs>>
  BY DEF Cancel, pollerVars
<1>2. PICK found \in Finds(set, t) : set' = IF found THEN Erase(t) ELSE set BY <1>1
<1>3. found \in BOOLEAN BY DEF Finds
<1>4. (t \in ToSet(set) => found) /\ (found => t \in ToSet(set))
  BY <1>2, <1>3, FindsIn DEF OrderInv, Queue, Clocks
<1>5. Line(next, set') /\ ToSet(set') = ToSet(set) \ {t}
  <2>1. CASE found
    <3>1. PICK nx : nx = next OBVIOUS
    <3>2. Line(nx, Erase(t)) /\ ToSet(Erase(t)) = ToSet(set) \ {t}
      BY <1>4, <2>1, <3>1, EraseLine DEF OrderInv, Queue
    <3>3. QED BY <1>2, <2>1, <3>1, <3>2
  <2>2. CASE ~found
    BY <1>2, <1>4, <2>2 DEF OrderInv, Queue
  <2>3. QED BY <2>1, <2>2
<1>6. Clocks' BY <1>1 DEF OrderInv, Clocks
<1>7. Queue'
  <2>1. \A u \in ToSet(set') : u \in made /\ u \in Timers /\ u # t /\ cb[u] /\ cb'[u] = cb[u]
    BY <1>1, <1>5 DEF OrderInv, Queue, Inv, Types
  <2>2. QED BY <1>1, <1>5, <2>1 DEF Queue
<1>8. Starts' BY <1>1 DEF OrderInv, Starts
<1>9. Covered' BY <1>1, <1>5 DEF OrderInv, Covered
<1>10. QED BY <1>6, <1>7, <1>8, <1>9 DEF OrderInv

LEMMA InitOrder == Init => OrderInv
<1> SUFFICES ASSUME Init PROVE OrderInv OBVIOUS
<1>1. set = <<>> /\ ToSet(set) = {} BY DEF Init, ToSet
<1>2. Queue BY <1>1 DEF Init, Queue, Line, Sorted, Agree
<1>3. Clocks BY DEF Init, Clocks
<1>4. Starts BY DEF Init, Starts
<1>5. Covered BY TimerAssumption DEF Init, Covered
<1>6. QED BY <1>2, <1>3, <1>4, <1>5 DEF OrderInv

LEMMA TickleKeeps ==
  ASSUME OrderInv, Tickle
  PROVE  OrderInv'
<1>1. /\ telling > 0 /\ telling' = telling - 1
      /\ edge' = (edge \/ \E p \in Pollers : at[p] # "busy")
      /\ UNCHANGED <<now, set, made, ms, next, cb, tickled, at, until, nowMs>>
  BY DEF Tickle, timerVars, pollerVars
<1>2. Clocks' BY <1>1 DEF OrderInv, Clocks
<1>3. Queue' BY <1>1 DEF OrderInv, Queue
<1>4. Starts' BY <1>1 DEF OrderInv, Starts
<1>5. Covered'
  <2>1. PICK p \in Pollers : TRUE BY TimerAssumption
  <2>2. (\A q \in Pollers : at[q] = "asleep") => edge' BY <1>1, <2>1
  <2>3. QED BY <1>1, <2>2 DEF Covered
<1>6. QED BY <1>2, <1>3, <1>4, <1>5 DEF OrderInv

LEMMA TickKeeps ==
  ASSUME OrderInv, Tick
  PROVE  OrderInv'
<1>1. /\ now' \in Nat
      /\ UNCHANGED <<set, made, ms, next, cb, tickled, telling, edge, at, until, nowMs>>
  <2>1. now' \in {now + 1} \cup 0..(now - 1) BY DEF Tick
  <2>2. QED BY <2>1 DEF Tick, timerVars, pollerVars, OrderInv, Clocks
<1>2. Clocks' BY <1>1 DEF OrderInv, Clocks
<1>3. Queue' BY <1>1 DEF OrderInv, Queue
<1>4. Starts' BY <1>1 DEF OrderInv, Starts
<1>5. Covered' BY <1>1 DEF OrderInv, Covered
<1>6. QED BY <1>2, <1>3, <1>4, <1>5 DEF OrderInv

\* The first of the set is due first.
LEMMA FirstDue ==
  ASSUME OrderInv, set # <<>>
  PROVE  Head(set) \in Timers /\ \A t \in ToSet(set) : next[Head(set)] <= next[t]
<1>1. set \in Seq(Timers) /\ DOMAIN set = 1..Len(set) /\ Len(set) \in Nat
      /\ (\A j \in 1..Len(set) : set[j] \in Timers)
      /\ (\A x, y \in 1..Len(set) : x < y => set[x] < set[y])
      /\ \A x, y \in 1..Len(set) : set[x] < set[y] => next[set[x]] <= next[set[y]]
  BY LineTypes DEF OrderInv, Queue
<1>2. 1 \in 1..Len(set) /\ Head(set) = set[1] BY <1>1
<1>3. ASSUME NEW j \in 1..Len(set) PROVE next[set[1]] <= next[set[j]]
  <2>1. j = 1 \/ 1 < j BY <1>1
  <2>2. next[set[1]] \in Nat BY <1>1, <1>2 DEF OrderInv, Clocks
  <2>3. QED BY <1>1, <1>2, <2>1, <2>2
<1>4. QED BY <1>1, <1>2, <1>3 DEF ToSet

LEMMA GetNextTimerKeeps ==
  ASSUME OrderInv, NEW p \in Pollers, GetNextTimer(p)
  PROVE  OrderInv'
<1>1. /\ tickled' = FALSE /\ at' = [at EXCEPT ![p] = "asleep"]
      /\ until' = [until EXCEPT ![p] =
           IF set # <<>> /\ next[Head(set)] < now + MaxWait THEN next[Head(set)]
           ELSE now + MaxWait]
      /\ UNCHANGED <<now, set, made, ms, next, cb, telling, edge, nowMs>>
  BY DEF GetNextTimer, timerVars
<1>2. until' \in [Pollers -> Nat] /\ until'[p] \in Nat
      /\ \A t \in ToSet(set) : until'[p] <= next[t]
  <2>1. MaxWait \in Nat /\ now \in Nat /\ now + MaxWait \in Nat /\ until \in [Pollers -> Nat]
        /\ until'[p] = IF set # <<>> /\ next[Head(set)] < now + MaxWait THEN next[Head(set)]
                       ELSE now + MaxWait
    BY <1>1, TimerAssumption DEF OrderInv, Clocks
  <2>2. CASE set = <<>>
    <3>1. ToSet(set) = {} BY <2>2 DEF ToSet
    <3>2. until'[p] = now + MaxWait BY <2>1, <2>2
    <3>3. until' \in [Pollers -> Nat] BY <1>1, <2>1, <2>2
    <3>4. QED BY <2>1, <3>1, <3>2, <3>3
  <2>3. CASE set # <<>>
    <3>1. Head(set) \in Timers /\ \A t \in ToSet(set) : next[Head(set)] <= next[t]
      BY <2>3, FirstDue
    <3>2. next[Head(set)] \in Nat /\ \A t \in ToSet(set) : next[t] \in Nat
      BY <3>1, LineTypes DEF OrderInv, Clocks, Queue, ToSet
    <3>3. until'[p] \in Nat /\ until'[p] <= next[Head(set)] BY <2>1, <2>3, <3>2
    <3>4. \A t \in ToSet(set) : until'[p] <= next[t] BY <3>1, <3>2, <3>3
    <3>5. until' \in [Pollers -> Nat] BY <1>1, <2>1, <3>2
    <3>6. QED BY <3>3, <3>4, <3>5
  <2>4. QED BY <2>2, <2>3
<1>3. Clocks' BY <1>1, <1>2 DEF OrderInv, Clocks
<1>4. Queue' BY <1>1 DEF OrderInv, Queue
<1>5. Starts' BY <1>1 DEF OrderInv, Starts
<1>6. Covered' BY <1>1, <1>2 DEF Covered
<1>7. QED BY <1>3, <1>4, <1>5, <1>6 DEF OrderInv

LEMMA IdleKeeps ==
  ASSUME OrderInv, NEW p \in Pollers,
         EnterIdle(p) \/ ListNothing(p) \/ \E k \in BOOLEAN : WakeUp(p, k)
  PROVE  OrderInv'
<1>1. PICK a \in {"awake", "busy", "woken"}, u \in {until[p], 0}, m \in {nowMs[p], now, 0} :
        /\ at' = [at EXCEPT ![p] = a]
        /\ until' = [until EXCEPT ![p] = u] /\ nowMs' = [nowMs EXCEPT ![p] = m]
        /\ edge' \in {edge, FALSE}
        /\ UNCHANGED <<now, set, made, ms, next, cb, tickled, telling>>
  <2>0. until = [until EXCEPT ![p] = until[p]] /\ nowMs = [nowMs EXCEPT ![p] = nowMs[p]]
        /\ edge \in BOOLEAN
    BY DEF OrderInv, Clocks
  <2>1. CASE EnterIdle(p) BY <2>0, <2>1 DEF EnterIdle, timerVars
  <2>2. CASE ListNothing(p) BY <2>0, <2>2 DEF ListNothing, timerVars
  <2>3. CASE \E k \in BOOLEAN : WakeUp(p, k)
    <3>1. PICK k \in BOOLEAN : WakeUp(p, k) BY <2>3
    <3>2. edge' \in {edge, FALSE} BY <2>0, <3>1 DEF WakeUp
    <3>3. QED BY <2>0, <3>1, <3>2 DEF WakeUp, timerVars
  <2>4. QED BY <2>1, <2>2, <2>3
<1>2. Clocks'
  <2>1. u \in Nat /\ m \in Nat BY DEF OrderInv, Clocks
  <2>2. at' \in [Pollers -> {"busy", "awake", "asleep", "woken"}]
        /\ until' \in [Pollers -> Nat] /\ nowMs' \in [Pollers -> Nat]
    BY <1>1, <2>1 DEF OrderInv, Clocks
  <2>3. edge' \in BOOLEAN BY <1>1 DEF OrderInv, Clocks
  <2>4. QED BY <1>1, <2>2, <2>3 DEF OrderInv, Clocks
<1>3. Queue' BY <1>1 DEF OrderInv, Queue
<1>4. Starts' BY <1>1 DEF OrderInv, Starts
<1>5. Covered'
  <2>1. at'[p] # "asleep" BY <1>1 DEF OrderInv, Clocks
  <2>2. QED BY <2>1 DEF Covered
<1>6. QED BY <1>2, <1>3, <1>4, <1>5 DEF OrderInv

\* The two parts listExpriedCb divides the set into.
LEMMA TakenOut ==
  ASSUME Line(next, set), NEW n \in 0..Len(set), NEW nx,
         \A k \in n + 1..Len(set) : nx[set[k]] = next[set[k]]
  PROVE  LET rest == SubSeq(set, n + 1, Len(set))
             expired == SubSeq(set, 1, n)
         IN  /\ Line(nx, rest)
             /\ ToSet(rest) = {set[k] : k \in n + 1..Len(set)}
             /\ expired \in Seq(Timers) /\ Len(expired) = n
             /\ \A k \in 1..n : expired[k] = set[k]
             /\ ToSet(expired) = {set[k] : k \in 1..n}
<1> DEFINE rest == SubSeq(set, n + 1, Len(set))
           expired == SubSeq(set, 1, n)
<1>0. /\ set \in Seq(Timers) /\ Sorted(set) /\ DOMAIN set = 1..Len(set) /\ Len(set) \in Nat
      /\ \A j \in 1..Len(set) : set[j] \in Timers /\ set[j] \in Nat
      /\ \A x, y \in 1..Len(set) : x < y => set[x] < set[y]
      /\ \A x, y \in 1..Len(set) : set[x] < set[y] => next[set[x]] <= next[set[y]]
  BY LineTypes
<1>1. expired \in Seq(Timers) /\ Len(expired) = n /\ \A j \in 1..n : expired[j] = set[j]
  BY <1>0, SubSeqProperties
<1>2. rest \in Seq(Timers) /\ Len(rest) = Len(set) - n
      /\ \A j \in 1..Len(set) - n : rest[j] = set[n + j]
  <2>1. \A j \in n + 1..Len(set) : set[j] \in Timers BY <1>0
  <2>2. rest \in Seq(Timers)
        /\ Len(rest) = (IF n + 1 <= Len(set) THEN Len(set) - (n + 1) + 1 ELSE 0)
        /\ \A j \in 1..Len(set) - (n + 1) + 1 : rest[j] = set[(n + 1) + j - 1]
    BY <1>0, <2>1, SubSeqProperties
  <2>3. Len(set) - (n + 1) + 1 = Len(set) - n
        /\ (IF n + 1 <= Len(set) THEN Len(set) - (n + 1) + 1 ELSE 0) = Len(set) - n
        /\ \A j \in 1..Len(set) - n : (n + 1) + j - 1 = n + j
    <3>1. Len(set) \in Nat /\ n \in Nat /\ n <= Len(set) BY <1>0
    <3>2. PICK m : m = Len(set) OBVIOUS
    <3>3. m \in Nat /\ n \in Nat /\ n <= m BY <3>1, <3>2
    <3>4. m - (n + 1) + 1 = m - n BY ONLY <3>3
    <3>5. (IF n + 1 <= m THEN m - (n + 1) + 1 ELSE 0) = m - n BY ONLY <3>3
    <3>6. \A j \in 1..m - n : (n + 1) + j - 1 = n + j BY ONLY <3>3
    <3>7. QED BY <3>2, <3>4, <3>5, <3>6
  <2>4. QED BY ONLY <2>2, <2>3
<1> HIDE DEF rest, expired
<1>3. DOMAIN rest = 1..Len(set) - n /\ DOMAIN expired = 1..n BY <1>1, <1>2
<1>4. ToSet(expired) = {set[k] : k \in 1..n} BY <1>1, <1>3 DEF ToSet
<1>5. \A j \in 1..Len(set) - n : n + j \in n + 1..Len(set) /\ n + j \in 1..Len(set)
  BY <1>0
<1>6. ToSet(rest) = {set[k] : k \in n + 1..Len(set)}
  <2>1. ASSUME NEW k \in n + 1..Len(set) PROVE \E j \in 1..Len(set) - n : rest[j] = set[k]
    <3>1. k - n \in 1..Len(set) - n /\ n + (k - n) = k BY <1>0
    <3>2. QED BY <1>2, <3>1
  <2>2. ToSet(rest) \subseteq {set[k] : k \in n + 1..Len(set)}
    BY <1>2, <1>3, <1>5 DEF ToSet
  <2>3. {set[k] : k \in n + 1..Len(set)} \subseteq ToSet(rest)
    <3> SUFFICES ASSUME NEW k \in n + 1..Len(set) PROVE set[k] \in ToSet(rest)
      OBVIOUS
    <3>1. PICK j \in 1..Len(set) - n : rest[j] = set[k] BY <2>1
    <3>2. QED BY <1>3, <3>1 DEF ToSet
  <2>4. QED BY <2>2, <2>3
<1>7. Sorted(rest)
  <2> SUFFICES ASSUME NEW j \in 1..Len(set) - n, NEW k \in 1..Len(set) - n, j < k
               PROVE  rest[j] < rest[k]
    BY <1>3 DEF Sorted
  <2>1. rest[j] = set[n + j] /\ rest[k] = set[n + k] /\ n + j < n + k BY <1>2
  <2>2. QED BY <1>0, <1>5, <2>1
<1>8. Agree(nx, rest)
  <2> SUFFICES ASSUME NEW j \in 1..Len(set) - n, NEW k \in 1..Len(set) - n, rest[j] < rest[k]
               PROVE  nx[rest[j]] <= nx[rest[k]]
    BY <1>3 DEF Agree
  <2>1. rest[j] = set[n + j] /\ rest[k] = set[n + k] BY <1>2
  <2>2. next[set[n + j]] <= next[set[n + k]] BY <1>0, <1>5, <2>1
  <2>3. nx[set[n + j]] = next[set[n + j]] /\ nx[set[n + k]] = next[set[n + k]] BY <1>5
  <2>4. QED BY <2>1, <2>2, <2>3
<1>9. QED BY <1>1, <1>2, <1>4, <1>6, <1>7, <1>8 DEF Line, rest, expired

LEMMA ListExpiredOrder ==
  ASSUME Inv, OrderInv, ~misled', NEW p \in Pollers, ListExpired(p)
  PROVE  OrderInv'
<1>1. PICK n \in ExpiredCounts(p) :
        /\ next' = [t \in Timers |-> IF t \in ToSet(SubSeq(set, 1, n)) /\ loop[t]
                                     THEN nowMs[p] + ms[t] ELSE next[t]]
        /\ cb' = [t \in Timers |-> cb[t] /\ (t \in ToSet(SubSeq(set, 1, n)) => loop[t])]
        /\ set' \in Reinserted(next', SubSeq(set, n + 1, Len(set)), SubSeq(set, 1, n))
        /\ edge' \in {edge, edge \/ n > 0}
  BY DEF ListExpired
<1>2. /\ at' = [at EXCEPT ![p] = "busy"] /\ nowMs' = [nowMs EXCEPT ![p] = 0]
      /\ UNCHANGED <<now, made, ms, tickled, telling, until>>
  BY DEF ListExpired
<1>3. PICK nx, rest, expired : nx = next' /\ rest = SubSeq(set, n + 1, Len(set))
                               /\ expired = SubSeq(set, 1, n)
  OBVIOUS
<1>4. n \in 0..Len(set) BY CountExpired DEF OrderInv, Queue
<1>5. /\ \A t \in Timers : /\ ms[t] \in Nat /\ next[t] \in Nat
                           /\ ms[t] <= next[t]
      /\ nowMs[p] \in Nat
  BY DEF OrderInv, Clocks, Starts
<1>6. /\ nx \in [Timers -> Nat]
      /\ \A t \in Timers : nx[t] = IF t \in ToSet(expired) /\ loop[t]
                                   THEN nowMs[p] + ms[t] ELSE next[t]
  BY <1>1, <1>3, <1>5
<1>7. /\ (\A j \in 1..Len(set) : set[j] \in Timers)
      /\ (\A x, y \in 1..Len(set) : x # y => set[x] # set[y])
      /\ Len(set) \in Nat /\ DOMAIN set = 1..Len(set)
  BY LineTypes DEF OrderInv, Queue
<1>8. /\ expired \in Seq(Timers) /\ Len(expired) = n
      /\ \A k \in 1..n : expired[k] = set[k]
      /\ ToSet(expired) = {set[k] : k \in 1..n}
  <2>1. \A k \in n + 1..Len(set) : next[set[k]] = next[set[k]] OBVIOUS
  <2>2. PICK mx : mx = next OBVIOUS
  <2>3. QED BY <1>3, <1>4, <2>2, TakenOut DEF OrderInv, Queue
<1>9. ASSUME NEW k \in n + 1..Len(set) PROVE set[k] \in Timers /\ set[k] \notin ToSet(expired)
  <2>1. k \in 1..Len(set) BY <1>4, <1>7
  <2>2. \A j \in 1..n : j \in 1..Len(set) /\ j # k BY <1>4, <1>7
  <2>3. QED BY <1>7, <1>8, <2>1, <2>2
<1>10. Line(nx, rest) /\ ToSet(rest) = {set[k] : k \in n + 1..Len(set)}
  <2>1. \A k \in n + 1..Len(set) : nx[set[k]] = next[set[k]] BY <1>6, <1>9
  <2>2. QED BY <1>3, <1>4, <2>1, TakenOut DEF OrderInv, Queue
<1>11. /\ Line(nx, set')
       /\ \A t \in ToSet(set') :
            t \in ToSet(rest) \/ \E i \in 1..n : loop[expired[i]] /\ t = expired[i]
  <2>1. \A i \in 1..n : expired[i] \notin ToSet(rest)
    <3> SUFFICES ASSUME NEW i \in 1..n, NEW k \in n + 1..Len(set), expired[i] = set[k]
                 PROVE  FALSE
      BY <1>10
    <3>1. expired[i] \in ToSet(expired) BY <1>8
    <3>2. QED BY <1>9, <3>1
  <2>2. \A i, j \in 1..n : i # j => expired[i] # expired[j] BY <1>4, <1>7, <1>8
  <2>3. PICK q : q = set' OBVIOUS
  <2>4. q \in Reinserted(nx, rest, expired) BY <1>1, <1>3, <2>3
  <2>a. Agree(nx, q)
    <3>1. Agree(next', set') BY DEF ListExpired, Watch
    <3>2. QED BY <1>3, <2>3, <3>1
  <2>5. /\ Line(nx, q)
        /\ \A t \in ToSet(q) : t \in ToSet(rest) \/
             \E i \in 1..Len(expired) : loop[expired[i]] /\ t = expired[i]
    <3>1. nx \in [Timers -> Nat] /\ Line(nx, rest) /\ expired \in Seq(Timers)
          /\ (\A i \in 1..Len(expired) : expired[i] \notin ToSet(rest))
          /\ \A i, j \in 1..Len(expired) : i # j => expired[i] # expired[j]
      BY <1>6, <1>8, <1>10, <2>1, <2>2
    <3>2. Line(nx, q) BY ONLY <2>4, <2>a, <3>1, ReinsertedLine
    <3>3. \A t \in ToSet(q) : t \in ToSet(rest) \/
            \E i \in 1..Len(expired) : loop[expired[i]] /\ t = expired[i]
      BY ONLY <2>4, <2>a, <3>1, ReinsertedLine
    <3>4. QED BY ONLY <3>2, <3>3
  <2>6. QED BY ONLY <1>8, <2>3, <2>5
<1>12. Clocks'
  <2>1. edge' \in BOOLEAN BY <1>1 DEF OrderInv, Clocks
  <2>2. QED BY <1>2, <1>3, <1>6, <2>1 DEF OrderInv, Clocks
<1>13. Queue'
  <2>1. ASSUME NEW t \in ToSet(set') PROVE t \in made /\ cb'[t]
    <3>1. t \in ToSet(set) /\ t \in Timers /\ (t \in ToSet(expired) => loop[t])
      <4>1. CASE t \in ToSet(rest)
        <5>1. PICK k \in n + 1..Len(set) : t = set[k] BY <1>10, <4>1
        <5>2. k \in DOMAIN set BY <1>4, <1>7
        <5>3. QED BY <1>9, <5>1, <5>2 DEF ToSet
      <4>2. CASE \E i \in 1..n : loop[expired[i]] /\ t = expired[i]
        <5>1. PICK i \in 1..n : loop[t] /\ t = set[i] BY <1>8, <4>2
        <5>2. i \in DOMAIN set BY <1>4, <1>7
        <5>3. QED BY <1>7, <5>1, <5>2 DEF ToSet
      <4>3. QED BY <1>11, <4>1, <4>2
    <3>2. t \in made /\ cb[t] BY <3>1 DEF OrderInv, Queue
    <3>3. QED BY <1>1, <1>3, <3>1, <3>2
  <2>2. QED BY <1>2, <1>3, <1>11, <2>1 DEF Queue
<1>14. Starts'
  <2>1. \A t \in Timers : ms[t] <= nx[t] BY <1>5, <1>6
  <2>2. QED BY <1>2, <1>3, <2>1 DEF Starts
<1>15. Covered'
  <2>1. at'[p] # "asleep" BY <1>2 DEF OrderInv, Clocks
  <2>2. QED BY <2>1 DEF Covered
<1>16. QED BY <1>12, <1>13, <1>14, <1>15 DEF OrderInv

\* Every step keeps the invariant of the order unless it misleads the threads.
LEMMA StepOrder ==
  ASSUME Inv, OrderInv, [Next]_vars, ~misled'
  PROVE  OrderInv'
<1>1. CASE Tick BY <1>1, TickKeeps
<1>2. CASE Tickle BY <1>2, TickleKeeps
<1>3. CASE \E t \in Timers, d \in Durations, l \in Loops : AddTimer(t, d, l)
  BY <1>3, AddTimerKeeps
<1>4. CASE \E t \in Timers, d \in Durations, f \in BOOLEAN : Reset(t, d, f)
  BY <1>4, ResetKeeps
<1>5. CASE \E t \in Timers : Cancel(t) BY <1>5, CancelKeeps
<1>6. CASE \E t \in Timers : Refresh(t) BY <1>6, RefreshKeeps
<1>7. CASE \E p \in Pollers : EnterIdle(p) \/ ListNothing(p) \/ \E k \in BOOLEAN : WakeUp(p, k)
  BY <1>7, IdleKeeps
<1>8. CASE \E p \in Pollers : GetNextTimer(p) BY <1>8, GetNextTimerKeeps
<1>9. CASE \E p \in Pollers : ListExpired(p) BY <1>9, ListExpiredOrder
<1>10. CASE UNCHANGED vars
  <2>1. UNCHANGED <<now, set, made, ms, next, cb, tickled, telling, edge, at, until, nowMs>>
    BY <1>10 DEF vars, timerVars, pollerVars
  <2>2. Clocks' BY <2>1 DEF OrderInv, Clocks
  <2>3. Queue' BY <2>1 DEF OrderInv, Queue
  <2>4. Starts' BY <2>1 DEF OrderInv, Starts
  <2>5. Covered' BY <2>1 DEF OrderInv, Covered
  <2>6. QED BY <2>2, <2>3, <2>4, <2>5 DEF OrderInv
<1>11. QED
  BY <1>1, <1>2, <1>3, <1>4, <1>5, <1>6, <1>7, <1>8, <1>9, <1>10 DEF Next

-----------------------------------------------------------------------------
(* Every history.                                                          *)

\* m_tickled is clear when nobody is left to wake a thread.
Untickled ==
  /\ at \in [Pollers -> {"busy", "awake", "asleep", "woken"}]
  /\ tickled \in BOOLEAN /\ edge \in BOOLEAN /\ telling \in Nat /\ misled \in BOOLEAN
  /\ (\A p \in Pollers : at[p] = "asleep") /\ ~edge /\ telling = 0 => ~tickled

AwakeInv == Untickled /\ (misled \/ OrderInv)

LEMMA InitAwake == Init => AwakeInv
BY InitOrder DEF Init, AwakeInv, Untickled, OrderInv, Clocks

\* m_tickled is set by a thread that goes on to tickle, and cleared by each thread
\* that goes to sleep.
LEMMA StepUntickled ==
  ASSUME Untickled, [Next]_vars
  PROVE  Untickled'
<1>1. CASE \/ \E t \in Timers, d \in Durations, l \in Loops : AddTimer(t, d, l)
           \/ \E t \in Timers, d \in Durations, f \in BOOLEAN : Reset(t, d, f)
  <2>1. PICK nx, s, t : AddToSet(nx, s, t) BY <1>1 DEF AddTimer, Reset
  <2>2. PICK front \in BOOLEAN :
          /\ tickled' = (tickled \/ front)
          /\ telling' = IF front THEN telling + 1 ELSE telling
          /\ tickled' \in BOOLEAN /\ misled' \in BOOLEAN
    BY <2>1 DEF AddToSet, Watch, Untickled
  <2>3. UNCHANGED <<at, edge>> BY <1>1 DEF AddTimer, Reset, pollerVars
  <2>4. telling' \in Nat /\ (telling' = 0 => ~front /\ telling = 0)
    BY <2>2 DEF Untickled
  <2>5. ~front => (tickled' => tickled) BY <2>2
  <2>6. QED BY <2>2, <2>3, <2>4, <2>5 DEF Untickled
<1>2. CASE Tickle
  <2>1. PICK p \in Pollers : TRUE BY TimerAssumption
  <2>2. /\ telling' = telling - 1 /\ telling > 0
        /\ edge' = (edge \/ \E q \in Pollers : at[q] # "busy")
        /\ UNCHANGED <<at, tickled, misled>>
    BY <1>2 DEF Tickle, pollerVars
  <2>3. (\A q \in Pollers : at[q] = "asleep") => edge' BY <2>1, <2>2
  <2>4. edge' \in BOOLEAN BY <2>2
  <2>5. QED BY <2>2, <2>3, <2>4 DEF Untickled
<1>3. CASE \E p \in Pollers : GetNextTimer(p)
  <2>1. PICK p \in Pollers : at' = [at EXCEPT ![p] = "asleep"] BY <1>3 DEF GetNextTimer
  <2>2. tickled' = FALSE /\ UNCHANGED <<edge, telling, misled>> BY <1>3 DEF GetNextTimer
  <2>3. QED BY <2>1, <2>2 DEF Untickled
<1>4. CASE \E p \in Pollers : \/ EnterIdle(p) \/ ListNothing(p) \/ ListExpired(p)
                              \/ \E k \in BOOLEAN : WakeUp(p, k)
  <2>1. PICK p \in Pollers, a \in {"awake", "busy", "woken"} : at' = [at EXCEPT ![p] = a]
    BY <1>4 DEF EnterIdle, ListNothing, ListExpired, WakeUp
  <2>2. UNCHANGED <<tickled, telling>>
    BY <1>4 DEF EnterIdle, ListNothing, ListExpired, WakeUp
  <2>3. edge' \in BOOLEAN /\ misled' \in BOOLEAN
    BY <1>4 DEF EnterIdle, ListNothing, ListExpired, WakeUp, Watch, Untickled
  <2>4. at'[p] # "asleep" BY <2>1 DEF Untickled
  <2>5. QED BY <2>1, <2>2, <2>3, <2>4 DEF Untickled
<1>5. CASE UNCHANGED <<at, tickled, edge, telling>> /\ misled' \in BOOLEAN
  BY <1>5 DEF Untickled
<1>6. CASE Tick \/ (\E t \in Timers : Cancel(t) \/ Refresh(t)) \/ UNCHANGED vars
  BY <1>5, <1>6 DEF Tick, Cancel, Refresh, Watch, vars, pollerVars, Untickled
<1>7. QED BY <1>1, <1>2, <1>3, <1>4, <1>6 DEF Next

\* When all idle threads sleep and no tickle is on its way, the next tickle is not
\* kept back, and every timer has a thread that wakes up in time unless line 211 of
\* timer.cpp, or refresh after the clock was set back, has misled the threads:
\* IOScheduler::idle (ioScheduler.cpp:279-328) against addTimer, reset, refresh and
\* cancel.  Any timers at any addresses, threads, durations, looping or not, any
\* interleaving and any clock.
THEOREM AwakeInTime == Spec => []OnTime
<1>1. AwakeInv => OnTime BY DEF AwakeInv, Untickled, OrderInv, Covered, OnTime
<1>2. Inv /\ AwakeInv /\ [Next]_vars => AwakeInv'
  <2> SUFFICES ASSUME Inv, AwakeInv, [Next]_vars PROVE AwakeInv'
    OBVIOUS
  <2>1. Untickled' BY StepUntickled DEF AwakeInv
  <2>2. ASSUME ~misled' PROVE OrderInv'
    <3>1. ~misled
      BY <2>2 DEF Next, Tick, Tickle, AddTimer, AddToSet, Cancel, Reset, Refresh, EnterIdle,
         GetNextTimer, WakeUp, ListNothing, ListExpired, Watch, vars
    <3>2. QED BY <2>2, <3>1, StepOrder DEF AwakeInv
  <2>3. QED BY <2>1, <2>2 DEF AwakeInv, Untickled
<1>3. QED BY <1>1, <1>2, InitAwake, InitInv, StepInv, PTL DEF Spec
=============================================================================
