--------------------------- MODULE FdTableProofs ----------------------------
(***************************************************************************)
(* What the table of descriptor contexts keeps although its growth is not  *)
(* atomic: for any threads and descriptors, also those that make a late    *)
(* resize shrink the table.                                                *)
(***************************************************************************)
EXTENDS FdTable, TLAPS

\* A context sits in the slot of its own descriptor.
OwnSlot == \A d \in Fds : d < size => slot[d] \in [fd : {d}, nth : Nat]

\* A thread that grows the table found its descriptor beyond the end.
GrowsBeyond == \A t \in Threads :
  at[t].op = "grow" => at[t].fd \in Fds /\ at[t].seen \in Nat \ {0} /\ at[t].seen <= at[t].fd

\* Registered and held contexts are in the table unless a resize dropped them.
RegInUse == \A c \in reg \ cut : c.fd \in Fds /\ InTable(c)
HeldInUse == \A t \in Threads :
  Has(t) /\ at[t].ctx \notin cut => at[t].ctx.fd \in Fds /\ InTable(at[t].ctx)

Inv == TypeOK /\ size # 0 /\ OwnSlot /\ GrowsBeyond /\ RegInUse /\ HeldInUse

\* The constructor's table satisfies the invariant.
LEMMA InitInv == Init => Inv
  BY FdTableAssumption, SMT
  DEF Init, Inv, TypeOK, OwnSlot, GrowsBeyond, RegInUse, HeldInUse, Has, InTable,
      Idle, Ctx, NoCtx, Contexts

\* A resize keeps the slots up to the new end, and records what was behind it.
LEMMA ResizeKeeps ==
  ASSUME Inv, NEW n \in Nat, ContextResize(n)
  PROVE  /\ size' = n
         /\ slot' \in [Fds -> Contexts]
         /\ made' \in [Fds -> Nat]
         /\ cut' \subseteq Contexts /\ cut \subseteq cut'
         /\ OwnSlot'
         /\ \A d \in Fds : d < size /\ slot[d] \notin cut' => d < size' /\ slot'[d] = slot[d]
<1>1. size' = n BY DEF ContextResize
<1>2. cut' = cut \cup Dropped(n) /\ Dropped(n) \subseteq Contexts
  BY DEF ContextResize, Dropped, Inv, TypeOK
<1>3. slot' \in [Fds -> Contexts] /\ made' \in [Fds -> Nat] /\ OwnSlot'
  BY FdTableAssumption, SMT
  DEF Inv, TypeOK, OwnSlot, ContextResize, Ctx, NoCtx, Contexts
<1>4. ASSUME NEW d \in Fds, d < size, slot[d] \notin cut' PROVE d < size' /\ slot'[d] = slot[d]
  <2>1. ~(n <= d) BY <1>2, <1>4 DEF Dropped
  <2>2. d \in Nat BY FdTableAssumption
  <2>3. d < n BY <2>1, <2>2
  <2>4. QED BY <1>1, <1>4, <2>2, <2>3, SMT DEF ContextResize
<1>5. cut' \subseteq Contexts BY <1>2 DEF Inv, TypeOK
<1>6. QED BY <1>1, <1>2, <1>3, <1>4, <1>5

\* The size a late thread resizes to is more than its descriptor.
LEMMA GrowSize ==
  ASSUME Inv, NEW t \in Threads, Grow(t)
  PROVE  LET d == at[t].fd
         IN  d \in Fds /\ d \in Nat \ {0} /\ d < d * 2 /\ d * 2 \in Nat /\ ContextResize(d * 2)
<1> DEFINE d == at[t].fd
<1>1. d \in Fds /\ at[t].seen \in Nat \ {0} /\ at[t].seen <= d /\ ContextResize(d * 2)
  BY DEF Grow, Inv, GrowsBeyond
<1>2. d \in Nat BY <1>1, FdTableAssumption
<1> HIDE DEF d
<1>3. d \in Nat \ {0} /\ d < d * 2 /\ d * 2 \in Nat BY <1>1, <1>2
<1>4. QED BY <1>1, <1>3 DEF d

\* Every step keeps the invariant.
LEMMA NextInv == ASSUME Inv, [Next]_vars PROVE Inv'
<1>1. ASSUME NEW t \in Threads, NEW d \in Fds, LookUp(t, d) PROVE Inv'
  BY <1>1, FdTableAssumption, SMT
  DEF Inv, TypeOK, OwnSlot, GrowsBeyond, RegInUse, HeldInUse, Has, InTable, LookUp,
      Idle, Growing, Holding, Contexts
<1>2. ASSUME NEW t \in Threads, NEW d \in Fds, CancelLookUp(t, d) PROVE Inv'
  BY <1>2, FdTableAssumption, SMT
  DEF Inv, TypeOK, OwnSlot, GrowsBeyond, RegInUse, HeldInUse, Has, InTable,
      CancelLookUp, Idle, Holding, Contexts
<1>3. ASSUME NEW t \in Threads, Grow(t) PROVE Inv'
  <2>1. PICK d \in Fds : /\ d = at[t].fd /\ d \in Nat \ {0} /\ d < d * 2 /\ d * 2 \in Nat
                         /\ ContextResize(d * 2)
    BY <1>3, GrowSize
  <2>2. PICK n \in Nat : n = d * 2 /\ d < n /\ ContextResize(n) BY <2>1
  <2>3. /\ size' = n
        /\ slot' \in [Fds -> Contexts]
        /\ made' \in [Fds -> Nat]
        /\ cut' \subseteq Contexts /\ cut \subseteq cut'
        /\ OwnSlot'
        /\ \A e \in Fds : e < size /\ slot[e] \notin cut' => e < size' /\ slot'[e] = slot[e]
    BY <2>2, ResizeKeeps
  <2>4. d < size' /\ slot'[d] \in Contexts /\ slot'[d].fd = d /\ size' # 0
    <3>1. d < size' BY <2>2, <2>3
    <3>2. slot'[d] \in [fd : {d}, nth : Nat] BY <2>3, <3>1 DEF OwnSlot
    <3>3. QED BY <2>1, <2>3, <3>1, <3>2, SMT
  <2>5. reg' = reg /\ at' = [at EXCEPT ![t] = Holding("add", slot'[d])]
    BY <1>3, <2>1 DEF Grow
  <2>6. TypeOK'
    BY <2>3, <2>4, <2>5, SMT DEF Inv, TypeOK, Holding
  <2>7. GrowsBeyond'
    BY <2>5, SMT DEF Inv, TypeOK, GrowsBeyond, Holding
  <2>8. RegInUse'
    BY <2>3, <2>5, SMT DEF Inv, RegInUse, InTable
  <2>9. HeldInUse'
    <3> SUFFICES ASSUME NEW u \in Threads, Has(u)', at'[u].ctx \notin cut'
                 PROVE  at'[u].ctx.fd \in Fds /\ InTable(at[u].ctx)'
      BY DEF HeldInUse
    <3>1. CASE u = t
      <4>1. at'[u].ctx = slot'[d] BY <2>5, <3>1 DEF Inv, TypeOK, Holding
      <4>2. QED BY <2>4, <4>1 DEF InTable
    <3>2. CASE u # t
      <4>1. at'[u] = at[u] BY <2>5, <3>2 DEF Inv, TypeOK
      <4>2. at[u].ctx.fd \in Fds /\ InTable(at[u].ctx)
        BY <2>3, <4>1 DEF Inv, HeldInUse, Has
      <4>3. QED BY <2>3, <4>1, <4>2 DEF InTable
    <3>3. QED BY <3>1, <3>2
  <2>10. QED BY <2>3, <2>4, <2>6, <2>7, <2>8, <2>9 DEF Inv
<1>4. ASSUME NEW t \in Threads, Register(t) PROVE Inv'
  BY <1>4, FdTableAssumption, SMT
  DEF Inv, TypeOK, OwnSlot, GrowsBeyond, RegInUse, HeldInUse, Has, InTable, Register,
      Idle
<1>5. ASSUME NEW t \in Threads, CancelAll(t) PROVE Inv'
  BY <1>5, FdTableAssumption, SMT
  DEF Inv, TypeOK, OwnSlot, GrowsBeyond, RegInUse, HeldInUse, Has, InTable, CancelAll,
      Idle
<1>6. ASSUME NEW c \in reg, Dispatch(c) PROVE Inv'
  BY <1>6, SMT
  DEF Inv, TypeOK, OwnSlot, GrowsBeyond, RegInUse, HeldInUse, Has, InTable, Dispatch
<1>7. CASE UNCHANGED vars
  BY <1>7
  DEF vars, Inv, TypeOK, OwnSlot, GrowsBeyond, RegInUse, HeldInUse, Has, InTable
<1>8. QED BY <1>1, <1>2, <1>3, <1>4, <1>5, <1>6, <1>7 DEF Next

\* A slot changes only in a resize by a thread that saw another size.
LEMMA LateStep ==
  ASSUME Inv, Next, NEW d \in Fds, d < size, slot'[d] # slot[d]
  PROVE  \E t \in Threads : at[t].op = "grow" /\ at'[t] # at[t] /\ at[t].seen # size
<1>1. PICK t \in Threads : Grow(t)
  BY DEF Next, LookUp, CancelLookUp, Register, CancelAll, Dispatch
<1>2. PICK e \in Fds : e = at[t].fd /\ e \in Nat \ {0} /\ e * 2 \in Nat /\ ContextResize(e * 2)
  BY <1>1, GrowSize
<1>3. at[t].op = "grow" /\ at'[t].op = "add"
  BY <1>1, SMT DEF Grow, Holding, Inv, TypeOK
<1>4. e * 2 <= d
  <2>1. PICK n \in Nat : n = e * 2 /\ ContextResize(n) BY <1>2
  <2>2. d \in Nat /\ (d < n => slot'[d] = slot[d]) BY <2>1, FdTableAssumption DEF ContextResize
  <2>3. QED BY <2>1, <2>2
<1>5. at[t].seen \in Nat /\ at[t].seen <= e /\ size \in Nat
  BY <1>2, <1>3 DEF Inv, GrowsBeyond, TypeOK
<1>6. at[t].seen # size
  <2>1. d \in Nat BY FdTableAssumption
  <2>2. QED BY <1>2, <1>4, <1>5, <2>1
<1>7. QED BY <1>3, <1>6

\* For any number of threads and any descriptors, shrinking resizes included: the
\* context of a registered event, and the one a thread is about to lock, is the one
\* in the table unless a resize dropped it (ioScheduler.cpp:103-121), and only a
\* thread whose size check another resize has overtaken drops one (lines 115-116).
THEOREM TableKeeps == Spec => [](TypeOK /\ FoundUnlessCut /\ HeldUnlessCut) /\ DropsOnlyLate
<1>1. Init => Inv
  BY InitInv
<1>2. Inv /\ [Next]_vars => Inv'
  BY NextInv
<1>3. Inv => TypeOK /\ FoundUnlessCut /\ HeldUnlessCut
  BY DEF Inv, FoundUnlessCut, HeldUnlessCut, RegInUse, HeldInUse
<1>4. Inv /\ [Next]_vars =>
        [\A d \in Fds : d < size /\ slot'[d] # slot[d] =>
           \E t \in Threads : at[t].op = "grow" /\ at'[t] # at[t] /\ at[t].seen # size]_vars
  BY LateStep
<1>5. QED BY <1>1, <1>2, <1>3, <1>4, PTL DEF Spec, DropsOnlyLate
=============================================================================
