--------------------------- MODULE TcpSeverProofs ---------------------------
(***************************************************************************)
(* The descriptor numbers of a server, for any number of connections and   *)
(* of descriptors, threads and timeouts: what the hooks keep about a       *)
(* number beside the kernel is gone when the number is handed out again,   *)
(* and no hooked call puts its thread to sleep.                            *)
(*                                                                         *)
(* The argument is ownership.  A socket has one number and one fiber whose *)
(* business it is: the handler of a connection, the client, the callback   *)
(* of stop.  That fiber alone makes calls on the number and closes it once *)
(* (Calling), so that the number is its own from socket() or accept() to   *)
(* close_f (Numbers).  Only the accept fiber uses a number that another    *)
(* fiber closes: what can happen to it is Stopping and OneThread.          *)
(***************************************************************************)
EXTENDS TcpSever, FiniteSetTheorems, WellFoundedInduction, TLAPS

\* Where a call that uses a descriptor can be, where one that closes it can be,
\* and where the programs make no call.
Uses  == {"lookup", "try", "arm", "add", "wait", "woken", "done"}
Shuts == {"lookup", "del", "close_f", "done"}
Quiet == {"none", "check", "listed", "over"}

\* The number d is f's; the accept fiber has the connection that it has just
\* accepted, which no handler knows yet.  Live: with a FdCtx, and not blocking;
\* Bare: as the kernel gave it.
Holds(f, d) ==
  /\ d \in Fds
  /\ IF f = Acceptor THEN file[d] \in Conns /\ prog[file[d]] = "none" ELSE file[d] = Own(f)
Live(f, d) == Holds(f, d) /\ ctx[d] # "none" /\ d \notin blocking
Bare(f, d) == Holds(f, d) /\ ctx[d] = "none"

\* Each call is the one that f's program makes, on a number that f holds.  A
\* number that is given back has no FdCtx any more, and one that accept() or
\* socket() returned has one.
Calling(f) ==
  /\ f \in Conns   => prog[f] \in {"none", "recv", "close"}
  /\ f = Client   => prog[f] \in {"socket", "connect", "recv", "close"}
  /\ f = Closer   => prog[f] \in {"none", "listed", "close", "over"}
  /\ f = Acceptor => prog[f] \in {"none", "check", "accept", "over"}
  /\ IF prog[f] \in Quiet THEN call[f] = Idle ELSE call[f].op = prog[f]
  /\ prog[f] \in {"recv", "connect"} => call[f].at \in Uses /\ Live(f, call[f].fd)
  /\ prog[f] = "close" =>
       /\ call[f].at \in Shuts
       /\ call[f].at # "done" => Holds(f, call[f].fd)
       /\ call[f].at = "close_f" => ctx[call[f].fd] = "none"
  /\ prog[f] = "accept" =>
       /\ call[f].at \in Uses \cup {"direct", "made"}
       /\ call[f].fd \in Fds
       /\ sock = NoFd \/ call[f].fd = sock
  /\ prog[f] = "socket" =>
       /\ call[f].at \in {"lookup", "made", "done"}
       /\ call[f].at = "done" => call[f].rt = "ok"
  /\ prog[f] \in {"accept", "socket"} =>
       /\ call[f].at = "made" => Bare(f, call[f].got)
       /\ call[f].at = "done" /\ call[f].rt = "ok" => Live(f, call[f].got)

\* A socket has one number, and a number without a socket has no FdCtx.  The
\* listening socket is behind m_socket until it is closed; the client's is not
\* there before socket() and after close().
Numbers ==
  /\ \A d, x \in Fds : file[d] = file[x] /\ file[d] # NoFile => d = x
  /\ \A d \in Fds : file[d] = NoFile => ctx[d] = "none"
  /\ \A d \in Fds : file[d] = Listener =>
       d = sock /\ d \notin blocking /\ ~(prog[Closer] = "close" /\ call[Closer].at = "done")
  /\ \A d \in Fds : file[d] = Out =>
       ~(prog[Client] = "socket" /\ call[Client].at = "lookup") /\
       ~(prog[Client] = "close" /\ call[Client].at = "done")

\* A connection has a number once it was accepted, and its name is not used
\* again before its handler is over.
Peers ==
  /\ \A d \in Fds : file[d] \in Conns => peer[file[d]] \notin {"away", "queued"}
  /\ \A k \in Conns : peer[k] = "queued" => prog[k] = "none"

\* How far the callback of stop() is, and what m_socket is meanwhile.
Stopping ==
  /\ prog[Closer] # "none" => isStop
  /\ prog[Closer] \in {"none", "listed"} => sock \in Fds /\ file[sock] = Listener
  /\ prog[Closer] = "close" => sock \in Fds /\ call[Closer].fd = sock
  /\ prog[Closer] = "over" => sock = NoFd

\* FdContext and the fibers agree on who waits, for which event, on which number.
Waits ==
  \A d \in Fds, e \in Events, f \in Fibers :
    waiter[d][e] = f <=> call[f].at = "wait" /\ call[f].fd = d /\ Event(call[f].op) = e

\* On a single accept thread the callback of stop() runs as a whole while the
\* accept fiber is held in accept, and its cancelAll wakes it.
OneThread ==
  OneAcceptThread =>
    /\ call[Acceptor].at \in {"arm", "add", "wait"} => prog[Closer] \in {"none", "listed"}
    /\ prog[Closer] = "close" => call[Acceptor].at \in {"woken", "idle"}
    /\ call[Acceptor].at = "wait" => call[Acceptor].fd \in watched

Inv ==
  /\ TypeOK
  /\ \A f \in Fibers : Calling(f)
  /\ Numbers /\ Peers /\ Stopping /\ Waits /\ OneThread
  /\ fault # "none" => Strayed

\* A set of numbers has a least one: the kernel can hand out the lowest.
LEMMA LeastExists ==
  ASSUME NEW S \in SUBSET Nat, S # {}
  PROVE  \E d \in S : \A x \in S : d <= x
<1>1. \E m \in S : \A k \in S : ~(<<k, m>> \in OpToRel(<, Nat))
  BY WFMin, NatLessThanWellFounded, Zenon
<1>2. PICK m \in S : \A k \in S : ~(<<k, m>> \in OpToRel(<, Nat))
  BY <1>1
<1>3. \A k \in S : ~ (k < m)
  BY <1>2, Zenon DEF OpToRel
<1>4. QED BY <1>3

\* Without one of them there are as many sockets as connections, and one more.
LEMMA SocksLeft ==
  ASSUME NEW s \in Socks
  PROVE  /\ IsFiniteSet(Socks \ {s})
         /\ Cardinality(Socks \ {s}) = Cardinality(Conns) + 1
         /\ Cardinality(Conns) \in Nat
<1> USE TcpSeverAssumption
<1>1. IsFiniteSet(Conns \cup {Listener}) /\ Cardinality(Conns \cup {Listener}) = Cardinality(Conns) + 1
  BY FS_AddElement, Listener \notin Conns
<1>2. Socks = (Conns \cup {Listener}) \cup {Out}
  BY DEF Socks
<1>3. IsFiniteSet(Socks) /\ Cardinality(Socks) = Cardinality(Conns) + 2
  <2>1. Cardinality(Conns) \in Nat
    BY FS_CardinalityType
  <2>2. Out \notin Conns \cup {Listener}
    OBVIOUS
  <2>3. Cardinality((Conns \cup {Listener}) \cup {Out}) = Cardinality(Conns \cup {Listener}) + 1
        /\ IsFiniteSet((Conns \cup {Listener}) \cup {Out})
    BY <1>1, <2>2, FS_AddElement
  <2>4. QED BY <1>1, <1>2, <2>1, <2>3
<1>4. Cardinality(Conns) \in Nat
  BY FS_CardinalityType
<1>5. IsFiniteSet(Socks \ {s}) /\ Cardinality(Socks \ {s}) = Cardinality(Socks) - 1
  BY <1>3, FS_RemoveElement
<1>6. QED BY <1>3, <1>4, <1>5

\* The pigeonhole principle, with the sets as variables.
LEMMA TwoShare ==
  \A S, T, g :
    /\ IsFiniteSet(S) /\ IsFiniteSet(T) /\ Cardinality(T) < Cardinality(S)
    /\ g \in [S -> T]
    => \E d, x \in S : d # x /\ g[d] = g[x]
BY FS_PigeonHole

\* As long as a socket has no number there is a number for it (no EMFILE).
LEMMA NumberLeft ==
  ASSUME file \in [Fds -> Socks \cup {NoFile}],
         \A d, x \in Fds : file[d] = file[x] /\ file[d] # NoFile => d = x,
         NEW s \in Socks, \A d \in Fds : file[d] # s
  PROVE  NewFd \in Fds /\ file[NewFd] = NoFile
<1> USE TcpSeverAssumption
<1>1. Free # {}
  <2> SUFFICES ASSUME Free = {} PROVE FALSE
    OBVIOUS
  <2>1. file \in [Fds -> Socks \ {s}]
    BY DEF Free
  <2>2. Cardinality(Socks \ {s}) < Cardinality(Fds)
    <3>1. Cardinality(Fds) \in Nat
      BY FS_CardinalityType
    <3>2. Cardinality(Socks \ {s}) = Cardinality(Conns) + 1 /\ Cardinality(Conns) \in Nat
      BY SocksLeft
    <3>3. QED BY <3>1, <3>2
  <2>3. IsFiniteSet(Fds) /\ IsFiniteSet(Socks \ {s})
    BY SocksLeft
  <2>4. \E d, x \in Fds : d # x /\ file[d] = file[x]
    <3>1. PICK g : g = file
      OBVIOUS
    <3>2. PICK T : T = Socks \ {s}
      OBVIOUS
    <3>3. g \in [Fds -> T] /\ IsFiniteSet(T) /\ Cardinality(T) < Cardinality(Fds)
      BY <2>1, <2>2, <2>3, <3>1, <3>2
    <3>4. \E d, x \in Fds : d # x /\ g[d] = g[x]
      <4> HIDE TcpSeverAssumption
      <4>1. IsFiniteSet(Fds)
        BY <2>3
      <4>2. /\ IsFiniteSet(Fds) /\ IsFiniteSet(T) /\ Cardinality(T) < Cardinality(Fds)
            /\ g \in [Fds -> T]
        BY <3>3, <4>1
      <4>3. QED BY ONLY <4>2, TwoShare
    <3>5. QED BY <3>1, <3>4
  <2>5. QED BY <2>4 DEF Free
<1>2. Free \in SUBSET Nat
  BY DEF Free
<1>3. \E d \in Free : \A x \in Free : d <= x
  BY <1>1, <1>2, LeastExists
<1>4. NewFd \in Free
  BY <1>3 DEF NewFd
<1>5. QED BY <1>4 DEF Free

-----------------------------------------------------------------------------
\* What TcpSeverAssumption says of who is who.
LEMMA Distinct ==
  /\ Fibers = Conns \cup {Acceptor, Closer, Client}
  /\ Acceptor # Closer /\ Acceptor # Client /\ Closer # Client
  /\ Acceptor \notin Conns /\ Closer \notin Conns /\ Client \notin Conns
  /\ Listener \notin Conns /\ Out \notin Conns /\ Listener # Out
  /\ Socks = Conns \cup {Listener, Out}
  /\ NoFile \notin Conns /\ NoFile # Listener /\ NoFile # Out
  /\ NoFiber \notin Fibers /\ NoFd \notin Fds
BY TcpSeverAssumption DEF Socks

\* The numbers that fiber g holds are not d.
LEMMA OtherKeeps ==
  ASSUME NEW g \in Fibers, Calling(g), NEW d,
         \A x \in Fds : x # d =>
           file'[x] = file[x] /\ ctx'[x] = ctx[x] /\ (x \in blocking' <=> x \in blocking),
         call[g] \in Calls, prog'[g] = prog[g], sock' \in {sock, NoFd},
         \/ call'[g] = call[g]
         \/ call[g].at = "wait" /\ call'[g] = [call[g] EXCEPT !.at = "woken"],
         prog[g] \notin Quiet => ~Holds(g, d),
         \A k \in Conns : prog[k] = "none" => prog'[k] = "none"
  PROVE  Calling(g)'
<1>1. call[g].at # "wait" => call'[g] = call[g]
  OBVIOUS
<1>2. call[g].at = "wait" => call'[g].at \in {"wait", "woken"}
  BY DEF Calls
<1>3. /\ call'[g].fd = call[g].fd /\ call'[g].op = call[g].op
      /\ call'[g].got = call[g].got /\ call'[g].rt = call[g].rt
  BY DEF Calls
<1> HIDE DEF Calls
<1>4. call[g].at = "wait" => prog[g] \in {"recv", "connect", "accept"}
  BY Distinct DEF Calling, Idle, Quiet, Shuts
<1>5. QED BY <1>1, <1>2, <1>3, <1>4, Distinct DEF Calling, Holds, Live, Bare, Own, Quiet, Uses, Shuts

\* A step of f that changes its call and its program and nothing in the tables.
LEMMA LocalStep ==
  ASSUME Inv, fault = "none", NEW f \in Fibers, NEW r \in Calls, NEW p,
         call' = [call EXCEPT ![f] = r], prog' = [prog EXCEPT ![f] = p],
         UNCHANGED <<file, blocking, watched, ctx, waiter, fault>>,
         sock' = sock \/ (sock' = NoFd /\ \A d \in Fds : file[d] # Listener),
         isStop' \in BOOLEAN, peer' \in [Socks -> PeerStates],
         \A k \in Conns : peer'[k] = peer[k] \/ peer'[k] \notin {"away", "queued"},
         Calling(f)', Stopping', OneThread',
         r.at = "wait" <=> call[f].at = "wait",
         r.at = "wait" => r.fd = call[f].fd /\ r.op = call[f].op,
         f \in Conns /\ prog[f] = "none" => p = "none",
         f = Closer /\ p = "close" /\ r.at = "done" => prog[f] = "close" /\ call[f].at = "done",
         f = Client /\ ((p = "socket" /\ r.at = "lookup") \/ (p = "close" /\ r.at = "done")) =>
           (prog[f] = "socket" /\ call[f].at = "lookup") \/ (prog[f] = "close" /\ call[f].at = "done")
  PROVE  Inv'
<1>1. TypeOK'
  <2>1. p \in {"none", "check", "accept", "recv", "socket", "connect", "close", "listed", "over"}
    BY Distinct DEF Calling, Inv, TypeOK
  <2>2. QED BY <2>1 DEF Inv, TypeOK, HookTypeOK
<1>2. ASSUME NEW g \in Fibers PROVE Calling(g)'
  <2>1. CASE g = f
    BY <2>1
  <2>2. CASE g # f
    <3>1. call[g] \in Calls /\ call'[g] = call[g] /\ prog'[g] = prog[g]
      BY <2>2 DEF Inv, TypeOK, HookTypeOK
    <3>2. \A k \in Conns : prog[k] = "none" => prog'[k] = "none"
      BY DEF Inv, TypeOK
    <3>3. ~Holds(g, NoFd)
      BY Distinct DEF Holds
    <3>4. QED BY <3>1, <3>2, <3>3, OtherKeeps DEF Inv
  <2>3. QED BY <2>1, <2>2
<1>00. call \in [Fibers -> Calls] /\ DOMAIN prog = Fibers
  BY DEF Inv, TypeOK, HookTypeOK
<1>0. \A g \in Fibers : call'[g] = IF g = f THEN r ELSE call[g]
  BY ONLY <1>00, call' = [call EXCEPT ![f] = r]
<1>0a. \A g \in Fibers : prog'[g] = IF g = f THEN p ELSE prog[g]
  BY ONLY <1>00, prog' = [prog EXCEPT ![f] = p]
<1>3. Numbers'
  <2> USE <1>0, <1>0a, Distinct DEF Inv
  <2>1. \A d, x \in Fds : file'[d] = file'[x] /\ file'[d] # NoFile => d = x
    BY DEF Numbers
  <2>2. \A d \in Fds : file'[d] = NoFile => ctx'[d] = "none"
    BY DEF Numbers
  <2>3. \A d \in Fds : file'[d] = Listener =>
          d = sock' /\ d \notin blocking' /\ ~(prog'[Closer] = "close" /\ call'[Closer].at = "done")
    BY DEF Numbers
  <2>4. \A d \in Fds : file'[d] = Out =>
       ~(prog'[Client] = "socket" /\ call'[Client].at = "lookup") /\
       ~(prog'[Client] = "close" /\ call'[Client].at = "done")
    BY DEF Numbers
  <2>5. QED BY <2>1, <2>2, <2>3, <2>4 DEF Numbers
<1>4. Peers'
  BY Distinct DEF Inv, Peers, TypeOK, HookTypeOK
<1>5. Waits'
  <2> SUFFICES ASSUME NEW d \in Fds, NEW e \in Events, NEW g \in Fibers
               PROVE  waiter'[d][e] = g <=>
                        call'[g].at = "wait" /\ call'[g].fd = d /\ Event(call'[g].op) = e
    BY DEF Waits
  <2>1. waiter[d][e] = g <=> call[g].at = "wait" /\ call[g].fd = d /\ Event(call[g].op) = e
    BY DEF Inv, Waits
  <2>2. call'[g].at = "wait" <=> call[g].at = "wait"
    BY <1>0
  <2>3. call[g].at = "wait" => call'[g].fd = call[g].fd /\ call'[g].op = call[g].op
    BY <1>0
  <2>4. QED BY <2>1, <2>2, <2>3
<1>6. QED BY <1>1, <1>2, <1>3, <1>4, <1>5 DEF Inv

\* Who is woken by tiggerEvent, and that the contexts agree with the fibers again.
LEMMA Triggered ==
  ASSUME Inv, NEW d \in Fds, NEW es \in SUBSET Events, NEW calls \in [Fibers -> Calls],
         \A g \in Fibers : call[g].at = "wait" => calls[g] = call[g],
         \A g \in Fibers : calls[g].at = "wait" => call[g].at = "wait",
         Trigger(d, es, calls)
  PROVE  /\ \A g \in Fibers : call'[g] =
              IF call[g].at = "wait" /\ call[g].fd = d /\ Event(call[g].op) \in es
              THEN [call[g] EXCEPT !.at = "woken"] ELSE calls[g]
         /\ call' \in [Fibers -> Calls]
         /\ waiter' \in [Fds -> [Events -> Fibers \cup {NoFiber}]]
         /\ watched' \subseteq Fds
         /\ \A x \in Fds : x \in watched /\ x # d => x \in watched'
         /\ Waits'
<1> DEFINE woken == {waiter[d][e] : e \in es \cap Waited(d)}
<1>1. waiter \in [Fds -> [Events -> Fibers \cup {NoFiber}]] /\ watched \subseteq Fds
      /\ call \in [Fibers -> Calls]
  BY DEF Inv, TypeOK, HookTypeOK
<1>2. \A g \in Fibers : g \in woken <=> call[g].at = "wait" /\ call[g].fd = d /\ Event(call[g].op) \in es
  BY <1>1, Distinct DEF Inv, Waits, Waited, Event, Events
<1>3. \A g \in Fibers : call'[g] = IF g \in woken THEN [calls[g] EXCEPT !.at = "woken"] ELSE calls[g]
  BY DEF Trigger
<1>4. \A g \in Fibers : call'[g] \in Calls
  <2> SUFFICES ASSUME NEW g \in Fibers PROVE call'[g] \in Calls
    OBVIOUS
  <2>1. calls[g] \in Calls
    OBVIOUS
  <2>2. QED BY <1>3, <2>1, ZenonT(40) DEF Calls
<1>5. call' \in [Fibers -> Calls]
  BY <1>4 DEF Trigger
<1>6. /\ waiter' \in [Fds -> [Events -> Fibers \cup {NoFiber}]]
      /\ \A x \in Fds, e \in Events :
           waiter'[x][e] = IF x = d /\ e \in es THEN NoFiber ELSE waiter[x][e]
  BY <1>1 DEF Trigger
<1>7. watched' \subseteq Fds /\ \A x \in Fds : x \in watched /\ x # d => x \in watched'
  BY <1>1 DEF Trigger
<1>8. \A g \in Fibers : call'[g] =
              IF call[g].at = "wait" /\ call[g].fd = d /\ Event(call[g].op) \in es
              THEN [call[g] EXCEPT !.at = "woken"] ELSE calls[g]
  BY <1>2, <1>3
<1>9. Waits'
  <2> SUFFICES ASSUME NEW x \in Fds, NEW e \in Events, NEW g \in Fibers
               PROVE  waiter'[x][e] = g <=>
                        call'[g].at = "wait" /\ call'[g].fd = x /\ Event(call'[g].op) = e
    BY DEF Waits
  <2>1. waiter[x][e] = g <=> call[g].at = "wait" /\ call[g].fd = x /\ Event(call[g].op) = e
    BY DEF Inv, Waits
  <2>2. CASE call[g].at = "wait" /\ call[g].fd = d /\ Event(call[g].op) \in es
    <3>1. call'[g].at = "woken"
      <4>1. call[g] \in Calls /\ call'[g] = [call[g] EXCEPT !.at = "woken"]
        BY <2>2, <1>8, <1>1
      <4>2. QED BY ONLY <4>1 DEF Calls
    <3>2. waiter'[x][e] # g
      BY <2>2, <2>1, <1>6, Distinct
    <3>3. QED BY <3>1, <3>2
  <2>3. CASE ~(call[g].at = "wait" /\ call[g].fd = d /\ Event(call[g].op) \in es)
    <3>1. call'[g] = calls[g]
      BY <2>3, <1>8
    <3>2. waiter'[x][e] = g <=> waiter[x][e] = g
      BY <2>3, <2>1, <1>6, Distinct
    <3>3. QED BY <3>1, <3>2, <2>1
  <2>4. QED BY <2>2, <2>3
<1>10. QED BY <1>5, <1>6, <1>7, <1>8, <1>9

\* A step of f, as in LocalStep, in which it also wakes others (cancelAll).
LEMMA WakeStep ==
  ASSUME Inv, fault = "none", NEW f \in Fibers, NEW r \in Calls, NEW p,
         NEW d \in Fds, NEW es \in SUBSET Events,
         call[f].at # "wait", r.at # "wait",
         Trigger(d, es, [call EXCEPT ![f] = r]), prog' = [prog EXCEPT ![f] = p],
         UNCHANGED <<file, blocking, peer, ctx, fault, isStop, sock>>,
         Calling(f)', Stopping', OneThread',
         f \in Conns /\ prog[f] = "none" => p = "none",
         f = Closer /\ p = "close" /\ r.at = "done" => prog[f] = "close" /\ call[f].at = "done",
         f = Client /\ ((p = "socket" /\ r.at = "lookup") \/ (p = "close" /\ r.at = "done")) =>
           (prog[f] = "socket" /\ call[f].at = "lookup") \/ (prog[f] = "close" /\ call[f].at = "done")
  PROVE  Inv'
<1> DEFINE calls == [call EXCEPT ![f] = r]
<1>1. call \in [Fibers -> Calls] /\ DOMAIN prog = Fibers
  BY DEF Inv, TypeOK, HookTypeOK
<1>2. calls \in [Fibers -> Calls] /\ \A g \in Fibers : calls[g] = IF g = f THEN r ELSE call[g]
  BY <1>1
<1>3. \A g \in Fibers : prog'[g] = IF g = f THEN p ELSE prog[g]
  BY <1>1
<1>4. /\ \A g \in Fibers : call'[g] =
           IF call[g].at = "wait" /\ call[g].fd = d /\ Event(call[g].op) \in es
           THEN [call[g] EXCEPT !.at = "woken"] ELSE calls[g]
      /\ call' \in [Fibers -> Calls]
      /\ waiter' \in [Fds -> [Events -> Fibers \cup {NoFiber}]]
      /\ watched' \subseteq Fds
      /\ \A x \in Fds : x \in watched /\ x # d => x \in watched'
      /\ Waits'
  <2>1. \A g \in Fibers : call[g].at = "wait" => calls[g] = call[g]
    BY <1>2
  <2>2. \A g \in Fibers : calls[g].at = "wait" => call[g].at = "wait"
    BY <1>2
  <2>3. Trigger(d, es, calls)
    OBVIOUS
  <2> HIDE DEF calls
  <2>4. QED BY <1>2, <2>1, <2>2, <2>3, Triggered
<1>5. call'[f] = r
  BY <1>4, <1>2
<1> HIDE DEF calls
<1>6. TypeOK'
  <2>1. p \in {"none", "check", "accept", "recv", "socket", "connect", "close", "listed", "over"}
    BY <1>3, Distinct DEF Calling
  <2>2. QED BY <1>4, <2>1 DEF Inv, TypeOK, HookTypeOK
<1>7. ASSUME NEW g \in Fibers PROVE Calling(g)'
  <2>1. CASE g = f
    BY <2>1
  <2>2. CASE g # f
    <3>1. /\ call[g] \in Calls /\ prog'[g] = prog[g]
          /\ call'[g] = call[g] \/ (call[g].at = "wait" /\ call'[g] = [call[g] EXCEPT !.at = "woken"])
      BY <2>2, <1>1, <1>2, <1>3, <1>4
    <3>2. \A k \in Conns : prog[k] = "none" => prog'[k] = "none"
      BY <1>3, Distinct
    <3>3. ~Holds(g, NoFd)
      BY Distinct DEF Holds
    <3>4. QED BY <3>1, <3>2, <3>3, OtherKeeps DEF Inv
  <2>3. QED BY <2>1, <2>2
<1>8. call[Closer].at # "wait" /\ (call[Client].at = "wait" => prog[Client] \notin {"socket", "close"})
  BY Distinct DEF Inv, Calling, Idle, Shuts, Quiet
<1>9. Numbers'
  <2>1. prog'[Closer] = "close" /\ call'[Closer].at = "done" =>
          prog[Closer] = "close" /\ call[Closer].at = "done"
    BY <1>2, <1>3, <1>4, <1>5, <1>8, Distinct
  <2>2. (prog'[Client] = "socket" /\ call'[Client].at = "lookup")
          \/ (prog'[Client] = "close" /\ call'[Client].at = "done") =>
        (prog[Client] = "socket" /\ call[Client].at = "lookup")
          \/ (prog[Client] = "close" /\ call[Client].at = "done")
    BY <1>2, <1>3, <1>4, <1>5, <1>8, Distinct
  <2>3. QED BY <2>1, <2>2 DEF Inv, Numbers
<1>10. Peers'
  BY <1>3, Distinct DEF Inv, Peers
<1>11. QED BY <1>4, <1>6, <1>7, <1>9, <1>10 DEF Inv

\* A fiber inside do_io is in the call that its program made, on its own number.
LEMMA AtUse ==
  ASSUME Inv, NEW f \in Fibers,
         \/ call[f].at \in {"direct", "try", "arm", "add", "wait", "woken"}
         \/ call[f].at = "lookup" /\ call[f].op \in {"accept", "recv", "connect"}
  PROVE  /\ prog[f] = call[f].op /\ prog[f] \in {"accept", "recv", "connect"}
         /\ f # Closer
         /\ f = Acceptor <=> prog[f] = "accept"
         /\ f = Acceptor \/ Live(f, call[f].fd)
         /\ call[f].fd \in Fds
BY Distinct DEF Inv, Calling, Idle, Quiet, Shuts, Live, Holds

\* A step of f within do_io that neither makes nor waits for anything.
LEMMA CallStep ==
  ASSUME Inv, fault = "none", NEW f \in Fibers, NEW r \in Calls,
         call' = [call EXCEPT ![f] = r],
         UNCHANGED <<file, blocking, watched, ctx, waiter, fault, serverVars>>,
         peer' \in [Socks -> PeerStates],
         \A k \in Conns : peer'[k] = peer[k] \/ peer'[k] \notin {"away", "queued"},
         MayRun(f),
         \/ call[f].at \in {"direct", "try", "arm", "add", "woken"}
         \/ call[f].at = "lookup" /\ call[f].op \in {"accept", "recv", "connect"},
         r.op = call[f].op, r.fd = call[f].fd,
         r.at \in {"try", "direct", "arm", "add", "done"},
         r.at = "direct" => f = Acceptor,
         f = Acceptor => ~(r.at = "done" /\ r.rt = "ok"),
         f = Acceptor /\ OneAcceptThread /\ r.at \in {"arm", "add"} =>
           prog[Closer] \in {"none", "listed"}
  PROVE  Inv'
<1>1. /\ prog[f] = call[f].op /\ prog[f] \in {"accept", "recv", "connect"}
      /\ f # Closer
      /\ f = Acceptor <=> prog[f] = "accept"
      /\ f = Acceptor \/ Live(f, call[f].fd)
      /\ call[f].fd \in Fds
  BY AtUse
<1>2. call \in [Fibers -> Calls] /\ prog = [prog EXCEPT ![f] = prog[f]]
  BY DEF Inv, TypeOK, HookTypeOK
<1>3. \A g \in Fibers : call'[g] = IF g = f THEN r ELSE call[g]
  BY <1>2
<1>4. prog' = prog /\ sock' = sock /\ isStop' = isStop /\ isStop \in BOOLEAN
  BY DEF serverVars, Inv, TypeOK
<1>5. Calling(f)'
  <2>1. call'[f] = r
    BY <1>3
  <2>2. CASE f = Acceptor
    BY <1>1, <1>4, <2>1, <2>2, Distinct DEF Inv, Calling, Uses, Quiet
  <2>3. CASE f # Acceptor
    <3>1. prog[f] \in {"recv", "connect"}
      BY <1>1, <2>3
    <3>2. Live(f, r.fd)'
      BY <1>1, <1>4, <2>3 DEF Live, Holds
    <3>3. QED BY <1>1, <1>4, <2>1, <2>3, <3>1, <3>2, Distinct DEF Inv, Calling, Uses, Quiet
  <2>4. QED BY <2>2, <2>3
<1>6. Stopping'
  BY <1>1, <1>3, <1>4, Distinct DEF Inv, Stopping
<1>7. OneThread'
  BY <1>1, <1>3, <1>4, Distinct DEF Inv, OneThread, MayRun
<1>8. r.at # "wait" /\ call[f].at # "wait"
  OBVIOUS
<1>9. QED
  BY <1>1, <1>2, <1>4, <1>5, <1>6, <1>7, <1>8, LocalStep

Results == {"none", "ok", "data", "eof", "EAGAIN", "ETIMEDOUT", "error"}

\* What a call is that has returned.
LEMMA FinishedCall ==
  ASSUME NEW f, call[f] \in Calls, NEW rt \in Results
  PROVE  /\ Finished(f, rt) \in Calls
         /\ Finished(f, rt).at = "done" /\ Finished(f, rt).rt = rt
         /\ Finished(f, rt).op = call[f].op /\ Finished(f, rt).fd = call[f].fd
         /\ Finished(f, rt).got = call[f].got
BY ZenonT(40) DEF Finished, Idle, Calls, Results

\* FdMgr::get: the FdCtx is there, or it is the accept fiber, which goes on without.
LEMMA LookupKeeps ==
  ASSUME Inv, fault = "none", NEW f \in Fibers, MayRun(f), Lookup(f), UNCHANGED serverVars
  PROVE  Inv'
<1>1. call[f] \in Calls /\ UNCHANGED <<file, blocking, watched, ctx, waiter, fault, peer>>
  BY DEF Inv, TypeOK, HookTypeOK, Lookup, kernelVars
<1>2. /\ call[f].at = "lookup" /\ call[f].op \in {"accept", "recv", "connect"}
      /\ f = Acceptor \/ Live(f, call[f].fd)
  BY AtUse DEF Lookup
<1>3. PICK r : /\ call' = [call EXCEPT ![f] = r]
               /\ \/ \E t \in BOOLEAN : r = [call[f] EXCEPT !.at = "try", !.timed = t]
                  \/ r = Finished(f, "error")
                  \/ f = Acceptor /\ r = [call[f] EXCEPT !.at = "direct"]
  BY <1>1, <1>2 DEF Lookup, Step, Live, Holds
<1>4. /\ r \in Calls /\ r.op = call[f].op /\ r.fd = call[f].fd
      /\ \/ r.at = "try"
         \/ r.at = "done" /\ r.rt = "error"
         \/ f = Acceptor /\ r.at = "direct"
  <2>1. CASE r = Finished(f, "error")
    BY <1>1, <2>1, FinishedCall DEF Results
  <2>2. CASE \E t \in BOOLEAN : r = [call[f] EXCEPT !.at = "try", !.timed = t]
    BY <1>1, <2>2 DEF Calls
  <2>3. CASE f = Acceptor /\ r = [call[f] EXCEPT !.at = "direct"]
    BY <1>1, <2>3 DEF Calls
  <2>4. QED BY <1>3, <2>1, <2>2, <2>3
<1>5. peer' \in [Socks -> PeerStates] /\ \A k \in Conns : peer'[k] = peer[k]
  BY <1>1 DEF Inv, TypeOK, HookTypeOK
<1>6. QED BY <1>1, <1>2, <1>3, <1>4, <1>5, CallStep

\* Arming the timer of a call.
LEMMA ArmKeeps ==
  ASSUME Inv, fault = "none", NEW f \in Fibers, MayRun(f), Arm(f), UNCHANGED serverVars
  PROVE  Inv'
<1>1. call[f] \in Calls /\ UNCHANGED <<file, blocking, watched, ctx, waiter, fault, peer>>
  BY DEF Inv, TypeOK, HookTypeOK, Arm, kernelVars
<1>2. PICK r : call' = [call EXCEPT ![f] = r] /\ r = [call[f] EXCEPT !.at = "add", !.timer = TRUE]
  BY DEF Arm, Step
<1>3. r \in Calls /\ r.op = call[f].op /\ r.fd = call[f].fd /\ r.at = "add"
  BY <1>1, <1>2 DEF Calls
<1>4. f = Acceptor /\ OneAcceptThread => prog[Closer] \in {"none", "listed"}
  BY DEF Inv, OneThread, Arm
<1>5. peer' \in [Socks -> PeerStates] /\ \A k \in Conns : peer'[k] = peer[k]
  BY <1>1 DEF Inv, TypeOK, HookTypeOK
<1>6. QED BY <1>1, <1>2, <1>3, <1>4, <1>5, CallStep DEF Arm

\* A fiber that was woken tries again, or returns ETIMEDOUT.
LEMMA ResumeKeeps ==
  ASSUME Inv, fault = "none", NEW f \in Fibers, MayRun(f), Resume(f), UNCHANGED serverVars
  PROVE  Inv'
<1>1. call[f] \in Calls /\ UNCHANGED <<file, blocking, watched, ctx, waiter, fault, peer>>
  BY DEF Inv, TypeOK, HookTypeOK, Resume, kernelVars
<1>2. f = Acceptor => call[f].op = "accept"
  BY AtUse DEF Resume
<1>3. PICK r : /\ call' = [call EXCEPT ![f] = r]
               /\ \/ r = Finished(f, "ETIMEDOUT")
                  \/ r = [call[f] EXCEPT !.at = "try", !.timer = FALSE]
                  \/ f # Acceptor /\ \E rt \in {"ok", "error"} : r = Finished(f, rt)
  BY <1>2 DEF Resume, Step, SoError
<1>4. /\ r \in Calls /\ r.op = call[f].op /\ r.fd = call[f].fd
      /\ r.at = "try" \/ (r.at = "done" /\ (f = Acceptor => r.rt = "ETIMEDOUT"))
  <2>1. CASE r = Finished(f, "ETIMEDOUT")
    BY <1>1, <2>1, FinishedCall DEF Results
  <2>2. CASE r = [call[f] EXCEPT !.at = "try", !.timer = FALSE]
    BY <1>1, <2>2 DEF Calls
  <2>3. CASE f # Acceptor /\ \E rt \in {"ok", "error"} : r = Finished(f, rt)
    BY <1>1, <2>3, FinishedCall DEF Results
  <2>4. QED BY <1>3, <2>1, <2>2, <2>3
<1>5. peer' \in [Socks -> PeerStates] /\ \A k \in Conns : peer'[k] = peer[k]
  BY <1>1 DEF Inv, TypeOK, HookTypeOK
<1>6. QED BY <1>1, <1>3, <1>4, <1>5, CallStep DEF Resume

\* Expiring timers and their callbacks touch the condition of one call only.
LEMMA TimerKeeps ==
  ASSUME Inv, fault = "none", NEW f \in Fibers, TimerExpires(f) \/ TimerCallback(f),
         UNCHANGED serverVars
  PROVE  Inv'
<1>1. call[f] \in Calls /\ UNCHANGED <<file, blocking, watched, ctx, waiter, fault, peer>>
  BY DEF Inv, TypeOK, HookTypeOK, TimerExpires, TimerCallback, kernelVars
<1>2. PICK r : /\ call' = [call EXCEPT ![f] = r]
               /\ \/ r = [call[f] EXCEPT !.timer = FALSE, !.due = TRUE]
                  \/ r = [call[f] EXCEPT !.due = FALSE, !.cancelled = TRUE]
               /\ call[f].timer \/ call[f].due
  BY DEF TimerExpires, TimerCallback, Step
<1>3. r \in Calls /\ r.op = call[f].op /\ r.fd = call[f].fd /\ r.at = call[f].at
      /\ r.rt = call[f].rt /\ r.got = call[f].got
  BY <1>1, <1>2, ZenonT(40) DEF Calls
<1>4. prog[f] \notin Quiet
  BY <1>2 DEF Inv, Calling, Idle
<1>5. peer' \in [Socks -> PeerStates] /\ \A k \in Conns : peer'[k] = peer[k]
  BY <1>1 DEF Inv, TypeOK, HookTypeOK
<1>6. call \in [Fibers -> Calls] /\ prog' = [prog EXCEPT ![f] = prog[f]]
      /\ prog' = prog /\ sock' = sock /\ isStop' = isStop /\ isStop \in BOOLEAN
  BY DEF Inv, TypeOK, HookTypeOK, serverVars
<1>7. \A g \in Fibers : call'[g] = IF g = f THEN r ELSE call[g]
  BY <1>2, <1>6
<1>8. Calling(f)'
  BY <1>1, <1>3, <1>4, <1>6, <1>7, Distinct DEF Inv, Calling, Live, Bare, Holds
<1>9. Stopping'
  BY <1>1, <1>3, <1>6, <1>7, Distinct DEF Inv, Stopping
<1>10. OneThread'
  BY <1>1, <1>3, <1>6, <1>7, Distinct DEF Inv, OneThread
<1>11. QED
  BY <1>1, <1>2, <1>3, <1>4, <1>5, <1>6, <1>8, <1>9, <1>10, LocalStep, ZenonT(40) DEF Quiet

\* The kernel installs a socket that has no number yet.
LEMMA MadeStep ==
  ASSUME Inv, fault = "none", NEW f \in Fibers, NEW r \in Calls, NEW s \in Socks, NEW d \in Fds,
         MayRun(f), file[d] = NoFile, \A x \in Fds : file[x] # s,
         file' = [file EXCEPT ![d] = s], blocking' = blocking \cup {d},
         call' = [call EXCEPT ![f] = r],
         UNCHANGED <<watched, ctx, waiter, fault, serverVars>>,
         peer' \in [Socks -> PeerStates],
         \A k \in Conns : peer'[k] = IF k = s THEN "quiet" ELSE peer[k],
         \/ /\ f = Acceptor /\ prog[f] = "accept" /\ call[f].at \in {"direct", "try"}
            /\ s \in Conns /\ prog[s] = "none"
         \/ f = Client /\ prog[f] = "socket" /\ call[f].at = "lookup" /\ s = Out,
         r.at = "made", r.op = call[f].op, r.fd = call[f].fd, r.got = d
  PROVE  Inv'
<1>1. /\ call \in [Fibers -> Calls] /\ file \in [Fds -> Socks \cup {NoFile}]
      /\ isStop \in BOOLEAN /\ prog' = prog /\ sock' = sock /\ isStop' = isStop
  BY DEF Inv, TypeOK, HookTypeOK, serverVars
<1>2. \A g \in Fibers : call'[g] = IF g = f THEN r ELSE call[g]
  BY <1>1
<1>3. \A x \in Fds : file'[x] = IF x = d THEN s ELSE file[x]
  BY <1>1
<1>4. \A x \in Fds : x # d => (x \in blocking' <=> x \in blocking)
  OBVIOUS
<1>5. TypeOK'
  BY <1>1 DEF Inv, TypeOK, HookTypeOK, serverVars
<1>6. ASSUME NEW g \in Fibers PROVE Calling(g)'
  <2>1. CASE g = f
    <3>1. call'[f] = r
      BY <1>2
    <3>2. Bare(f, d)'
      BY <1>1, <1>3, Distinct DEF Bare, Holds, Own, Inv, Numbers
    <3>3. CASE f = Acceptor
      BY <1>1, <2>1, <3>1, <3>2, <3>3, Distinct DEF Inv, Calling, Quiet
    <3>4. CASE f = Client
      BY <1>1, <2>1, <3>1, <3>2, <3>4, Distinct DEF Inv, Calling, Quiet
    <3>5. QED BY <3>3, <3>4
  <2>2. CASE g # f
    <3>1. /\ call[g] \in Calls /\ call'[g] = call[g] /\ prog'[g] = prog[g]
          /\ \A x \in Fds : x # d =>
               file'[x] = file[x] /\ ctx'[x] = ctx[x] /\ (x \in blocking' <=> x \in blocking)
      BY <1>1, <1>2, <1>3, <1>4, <2>2
    <3>2. ~Holds(g, d)
      BY Distinct DEF Holds, Own
    <3>3. QED BY <1>1, <3>1, <3>2, OtherKeeps DEF Inv
  <2>3. QED BY <2>1, <2>2
<1>7. Numbers'
  <2>1. \A x, y \in Fds : file'[x] = file'[y] /\ file'[x] # NoFile => x = y
    BY <1>3 DEF Inv, Numbers
  <2>2. \A x \in Fds : file'[x] = NoFile => ctx'[x] = "none"
    BY <1>3, Distinct DEF Inv, Numbers
  <2>3. \A x \in Fds : file'[x] = Listener =>
       x = sock' /\ x \notin blocking' /\ ~(prog'[Closer] = "close" /\ call'[Closer].at = "done")
    BY <1>1, <1>2, <1>3, Distinct DEF Inv, Numbers
  <2>4. \A x \in Fds : file'[x] = Out =>
       ~(prog'[Client] = "socket" /\ call'[Client].at = "lookup") /\
       ~(prog'[Client] = "close" /\ call'[Client].at = "done")
    BY <1>1, <1>2, <1>3, Distinct DEF Inv, Numbers
  <2>5. QED BY <2>1, <2>2, <2>3, <2>4 DEF Numbers
<1>8. Peers'
  BY <1>1, <1>3, Distinct DEF Inv, Peers
<1>9. Stopping'
  BY <1>1, <1>2, <1>3, Distinct DEF Inv, Stopping
<1>10. Waits'
  BY <1>2 DEF Inv, Waits
<1>11. OneThread'
  BY <1>1, <1>2, Distinct DEF Inv, OneThread, MayRun
<1>12. QED BY <1>5, <1>6, <1>7, <1>8, <1>9, <1>10, <1>11 DEF Inv

\* A system call that returns something: accept takes a connection that no number
\* has yet, recv and connect change what their peer is.
LEMMA SucceedKeeps ==
  ASSUME Inv, fault = "none", NEW f \in Fibers, MayRun(f),
         call[f].at \in {"direct", "try"}, Outcome(f) = "ok", Succeed(f),
         UNCHANGED <<ctx, waiter, fault, serverVars>>
  PROVE  Inv'
<1>1. /\ call \in [Fibers -> Calls] /\ file \in [Fds -> Socks \cup {NoFile}]
      /\ peer \in [Socks -> PeerStates] /\ call[f] \in Calls
  BY DEF Inv, TypeOK, HookTypeOK
<1>2. /\ prog[f] = call[f].op /\ prog[f] \in {"accept", "recv", "connect"}
      /\ f = Acceptor <=> prog[f] = "accept"
      /\ f = Acceptor \/ Live(f, call[f].fd)
      /\ call[f].fd \in Fds
  BY AtUse
<1>3. CASE call[f].op = "accept"
  <2>1. PICK k \in Backlog :
          /\ Install(k)
          /\ peer' = [peer EXCEPT ![k] = "quiet"]
          /\ call' = [call EXCEPT ![f] = [Finished(f, "ok") EXCEPT !.at = "made", !.got = NewFd]]
          /\ watched' = watched
    BY <1>3 DEF Succeed, Step
  <2>2. k \in Conns /\ k \in Socks /\ peer[k] = "queued" /\ prog[k] = "none"
    BY Distinct DEF Backlog, Inv, Peers
  <2>3. \A x \in Fds : file[x] # k
    BY <2>2 DEF Inv, Peers
  <2>4. NewFd \in Fds /\ file[NewFd] = NoFile
    BY <1>1, <2>2, <2>3, NumberLeft DEF Inv, Numbers
  <2>5. PICK d \in Fds : d = NewFd
    BY <2>4
  <2>6. PICK r : r = [Finished(f, "ok") EXCEPT !.at = "made", !.got = d]
    OBVIOUS
  <2>7. r \in Calls /\ r.at = "made" /\ r.op = call[f].op /\ r.fd = call[f].fd /\ r.got = d
    <3>1. Finished(f, "ok") \in Calls /\ Finished(f, "ok").op = call[f].op
          /\ Finished(f, "ok").fd = call[f].fd
      BY <1>1, FinishedCall DEF Results
    <3>2. QED BY ONLY <3>1, <2>6, d \in Fds DEF Calls
  <2>8. /\ file' = [file EXCEPT ![d] = k] /\ blocking' = blocking \cup {d}
        /\ call' = [call EXCEPT ![f] = r] /\ file[d] = NoFile
    BY <2>1, <2>4, <2>5, <2>6 DEF Install
  <2>9. /\ peer' \in [Socks -> PeerStates]
        /\ \A x \in Conns : peer'[x] = IF x = k THEN "quiet" ELSE peer[x]
    BY <1>1, <2>1, <2>2, Distinct DEF PeerStates
  <2>10. f = Acceptor /\ prog[f] = "accept"
    BY <1>2, <1>3
  <2>11. QED BY <2>1, <2>2, <2>3, <2>7, <2>8, <2>9, <2>10, MadeStep, ZenonT(40)
<1>4. CASE call[f].op = "recv"
  <2>1. PICK rt \in {"data", "eof"} : call' = [call EXCEPT ![f] = Finished(f, rt)]
    BY <1>4 DEF Succeed, Step
  <2>2. /\ Finished(f, rt) \in Calls
        /\ Finished(f, rt).at = "done"
        /\ Finished(f, rt).op = call[f].op /\ Finished(f, rt).fd = call[f].fd
    BY <1>1, <2>1, FinishedCall DEF Results
  <2>3. PICK r \in Calls : r = Finished(f, rt)
    BY <2>2
  <2>4. /\ UNCHANGED <<file, blocking, watched>>
        /\ LET k == file[call[f].fd] IN
             peer' = [peer EXCEPT ![k] = IF @ = "data" THEN "quiet" ELSE @]
    BY <1>4 DEF Succeed
  <2>5. /\ peer' \in [Socks -> PeerStates]
        /\ \A k \in Conns : peer'[k] = peer[k] \/ peer'[k] \notin {"away", "queued"}
    BY <1>1, <2>4, Distinct DEF PeerStates
  <2>6. f # Acceptor
    BY <1>2, <1>4
  <2>7. QED BY <2>1, <2>2, <2>3, <2>4, <2>5, <2>6, CallStep
<1>5. CASE call[f].op = "connect"
  <2>1. PICK rt \in {"ok", "error"} : call' = [call EXCEPT ![f] = Finished(f, rt)]
    BY <1>5 DEF Succeed, Step
  <2>2. /\ Finished(f, rt) \in Calls
        /\ Finished(f, rt).at = "done"
        /\ Finished(f, rt).op = call[f].op /\ Finished(f, rt).fd = call[f].fd
    BY <1>1, <2>1, FinishedCall DEF Results
  <2>3. PICK r \in Calls : r = Finished(f, rt)
    BY <2>2
  <2>4. UNCHANGED <<file, blocking, watched, peer>>
    BY <1>5 DEF Succeed, kernelVars
  <2>5. f # Acceptor
    BY <1>2, <1>5
  <2>6. peer' \in [Socks -> PeerStates] /\ \A k \in Conns : peer'[k] = peer[k]
    BY <1>1, <2>4
  <2>7. QED BY <2>1, <2>2, <2>3, <2>4, <2>5, <2>6, CallStep
<1>6. QED BY <1>2, <1>3, <1>4, <1>5

\* Nothing happens.
LEMMA StutterKeeps ==
  ASSUME Inv, UNCHANGED vars
  PROVE  Inv'
<1> USE DEF vars, hookVars, kernelVars
<1>1. TypeOK'
  BY DEF Inv, TypeOK, HookTypeOK
<1>2. \A f \in Fibers : Calling(f)'
  BY DEF Inv, Calling, Live, Bare, Holds
<1>3. Numbers' /\ Peers' /\ Stopping' /\ Waits'
  BY DEF Inv, Numbers, Peers, Stopping, Waits
<1>4. OneThread' /\ (fault' # "none" => Strayed')
  BY DEF Inv, OneThread, Strayed, File
<1>5. QED BY <1>1, <1>2, <1>3, <1>4 DEF Inv

\* The call without a FdCtx.
LEMMA DirectKeeps ==
  ASSUME Inv, fault = "none", NEW f \in Fibers, MayRun(f), Direct(f), UNCHANGED serverVars
  PROVE  Inv'
<1>1. call[f] \in Calls /\ call[f].at = "direct" /\ UNCHANGED <<ctx, waiter, fault>>
  BY DEF Inv, TypeOK, HookTypeOK, Direct
<1>2. CASE Outcome(f) = "ok" /\ Succeed(f)
  BY <1>1, <1>2, SucceedKeeps
<1>3. CASE Outcome(f) # "ok" /\ Step(f, Finished(f, Outcome(f))) /\ UNCHANGED kernelVars
  <2>1. Outcome(f) \in {"error", "EAGAIN"}
    BY <1>3 DEF Outcome
  <2>2. PICK r \in Calls : r = Finished(f, Outcome(f))
    BY <1>1, <2>1, FinishedCall DEF Results
  <2>3. r.at = "done" /\ r.rt # "ok" /\ r.op = call[f].op /\ r.fd = call[f].fd
    BY <1>1, <2>1, <2>2, FinishedCall DEF Results
  <2>4. call' = [call EXCEPT ![f] = r] /\ UNCHANGED <<file, blocking, watched, peer>>
    BY <1>3, <2>2 DEF Step, kernelVars
  <2>5. peer' \in [Socks -> PeerStates] /\ \A k \in Conns : peer'[k] = peer[k]
    BY <2>4 DEF Inv, TypeOK, HookTypeOK
  <2>6. QED BY <1>1, <2>3, <2>4, <2>5, CallStep
<1>4. QED BY <1>2, <1>3 DEF Direct

\* The call in the loop of do_io, with the errors that are tried again.
LEMMA TryKeeps ==
  ASSUME Inv, fault = "none", NEW f \in Fibers, MayRun(f), Try(f), UNCHANGED serverVars
  PROVE  Inv'
<1>1. call[f] \in Calls /\ call[f].at = "try" /\ UNCHANGED <<ctx, waiter, fault>>
  BY DEF Inv, TypeOK, HookTypeOK, Try
<1>2. /\ prog[f] = call[f].op
      /\ f = Acceptor <=> prog[f] = "accept"
      /\ call[f].fd \in Fds
  BY <1>1, AtUse
<1>3. CASE Outcome(f) = "ok" /\ Succeed(f)
  BY <1>1, <1>3, SucceedKeeps
<1>4. CASE /\ Outcome(f) = "EAGAIN"
           /\ Step(f, [call[f] EXCEPT !.at = IF call[f].timed THEN "arm" ELSE "add"])
           /\ UNCHANGED kernelVars
  <2>1. PICK r : /\ call' = [call EXCEPT ![f] = r]
                 /\ \E a \in {"arm", "add"} : r = [call[f] EXCEPT !.at = a]
    BY <1>4 DEF Step
  <2>2. r \in Calls /\ r.at \in {"arm", "add"} /\ r.op = call[f].op /\ r.fd = call[f].fd
    BY <1>1, <2>1 DEF Calls
  <2>3. f = Acceptor => file[call[f].fd] = Listener
    BY <1>2, <1>4, Distinct DEF Outcome, Suits, File
  <2>4. f = Acceptor /\ OneAcceptThread => prog[Closer] \in {"none", "listed"}
    BY <1>2, <2>3, Distinct DEF Inv, Numbers, Stopping, Calling, MayRun
  <2>5. UNCHANGED <<file, blocking, watched, peer>>
    BY <1>4 DEF kernelVars
  <2>6. peer' \in [Socks -> PeerStates] /\ \A k \in Conns : peer'[k] = peer[k]
    BY <2>5 DEF Inv, TypeOK, HookTypeOK
  <2>7. QED BY <1>1, <2>1, <2>2, <2>4, <2>5, <2>6, CallStep
<1>5. CASE /\ call[f].op = "connect"
           /\ Step(f, Finished(f, "error")) /\ UNCHANGED kernelVars
  <2>1. PICK r \in Calls : r = Finished(f, "error")
    BY <1>1, FinishedCall DEF Results
  <2>2. r.at = "done" /\ r.rt = "error" /\ r.op = call[f].op /\ r.fd = call[f].fd
    BY <1>1, <2>1, FinishedCall DEF Results
  <2>3. call' = [call EXCEPT ![f] = r] /\ UNCHANGED <<file, blocking, watched, peer>>
    BY <1>5, <2>1 DEF Step, kernelVars
  <2>4. peer' \in [Socks -> PeerStates] /\ \A k \in Conns : peer'[k] = peer[k]
    BY <2>3 DEF Inv, TypeOK, HookTypeOK
  <2>5. QED BY <1>1, <2>2, <2>3, <2>4, CallStep
<1>6. CASE UNCHANGED hookVars
  BY <1>6, StutterKeeps DEF vars, serverVars
<1>7. QED BY <1>3, <1>4, <1>5, <1>6 DEF Try

\* socket() makes the client's socket, which has no number at that moment.
LEMMA SocketKeeps ==
  ASSUME Inv, fault = "none", NEW f \in Fibers, MayRun(f), Socket(f), UNCHANGED serverVars
  PROVE  Inv'
<1>1. /\ call \in [Fibers -> Calls] /\ file \in [Fds -> Socks \cup {NoFile}]
      /\ peer \in [Socks -> PeerStates] /\ call[f] \in Calls
  BY DEF Inv, TypeOK, HookTypeOK
<1>2. f = Client /\ prog[f] = "socket" /\ call[f].at = "lookup" /\ call[f].op = "socket"
  BY Distinct DEF Socket, Inv, Calling, Idle, Quiet
<1>3. Out \in Socks /\ \A x \in Fds : file[x] # Out
  BY <1>2, Distinct DEF Inv, Numbers
<1>4. NewFd \in Fds /\ file[NewFd] = NoFile
  BY <1>1, <1>3, NumberLeft DEF Inv, Numbers
<1>5. PICK d \in Fds : d = NewFd
  BY <1>4
<1>6. PICK r : r = [call[f] EXCEPT !.at = "made", !.got = d]
  OBVIOUS
<1>7. r \in Calls /\ r.at = "made" /\ r.op = call[f].op /\ r.fd = call[f].fd /\ r.got = d
  BY ONLY <1>1, <1>6, d \in Fds DEF Calls
<1>8. /\ file' = [file EXCEPT ![d] = Out] /\ blocking' = blocking \cup {d}
      /\ call' = [call EXCEPT ![f] = r] /\ file[d] = NoFile
      /\ UNCHANGED <<watched, peer, ctx, waiter, fault>>
  BY <1>4, <1>5, <1>6 DEF Socket, Install, Step
<1>9. /\ peer' \in [Socks -> PeerStates]
      /\ \A k \in Conns : peer'[k] = IF k = Out THEN "quiet" ELSE peer[k]
  BY <1>1, <1>8, Distinct
<1>10. QED BY <1>2, <1>3, <1>7, <1>8, <1>9, MadeStep

\* Two fibers do not hold the same number.
LEMMA HoldsAlone ==
  ASSUME NEW f \in Fibers, NEW g \in Fibers, f # g, NEW d, Holds(f, d),
         prog[f] \notin Quiet, prog[g] \notin Quiet
  PROVE  ~Holds(g, d)
BY Distinct DEF Holds, Own, Quiet

\* A step of f on what FdManager and the kernel's flags say of a number it holds.
LEMMA TablesStep ==
  ASSUME Inv, fault = "none", NEW f \in Fibers, NEW r \in Calls, NEW d \in Fds,
         MayRun(f), Holds(f, d), prog[f] \notin Quiet,
         call' = [call EXCEPT ![f] = r],
         ctx' \in [Fds -> {"none", "hooked", "timed"}], blocking' \subseteq blocking,
         \A x \in Fds : x # d => ctx'[x] = ctx[x] /\ (x \in blocking' <=> x \in blocking),
         UNCHANGED <<file, watched, peer, waiter, fault, serverVars>>,
         Calling(f)', call[f].at # "wait",
         \/ r.at = "done" /\ prog[f] \in {"accept", "socket"}
         \/ r.at = "close_f",
         r.fd = call[f].fd
  PROVE  Inv'
<1>1. /\ call \in [Fibers -> Calls] /\ file \in [Fds -> Socks \cup {NoFile}]
      /\ isStop \in BOOLEAN /\ prog' = prog /\ sock' = sock /\ isStop' = isStop
  BY DEF Inv, TypeOK, HookTypeOK, serverVars
<1>2. \A g \in Fibers : call'[g] = IF g = f THEN r ELSE call[g]
  BY <1>1
<1>3. TypeOK'
  BY <1>1 DEF Inv, TypeOK, HookTypeOK, serverVars
<1>4. ASSUME NEW g \in Fibers PROVE Calling(g)'
  <2>1. CASE g = f
    BY <2>1
  <2>2. CASE g # f
    <3>1. /\ call[g] \in Calls /\ call'[g] = call[g] /\ prog'[g] = prog[g]
          /\ \A x \in Fds : x # d =>
               file'[x] = file[x] /\ ctx'[x] = ctx[x] /\ (x \in blocking' <=> x \in blocking)
      BY <1>1, <1>2, <2>2
    <3>2. prog[g] \notin Quiet => ~Holds(g, d)
      BY <2>2, HoldsAlone
    <3>3. QED BY <1>1, <3>1, <3>2, OtherKeeps DEF Inv
  <2>3. QED BY <2>1, <2>2
<1>5. Numbers'
  <2>1. file[d] # NoFile
    BY Distinct DEF Holds, Own
  <2>2. \A x, y \in Fds : file'[x] = file'[y] /\ file'[x] # NoFile => x = y
    BY DEF Inv, Numbers
  <2>3. \A x \in Fds : file'[x] = NoFile => ctx'[x] = "none"
    BY <2>1 DEF Inv, Numbers
  <2>4. \A x \in Fds : file'[x] = Listener =>
       x = sock' /\ x \notin blocking' /\ ~(prog'[Closer] = "close" /\ call'[Closer].at = "done")
    BY <1>1, <1>2, Distinct DEF Inv, Numbers
  <2>5. \A x \in Fds : file'[x] = Out =>
       ~(prog'[Client] = "socket" /\ call'[Client].at = "lookup") /\
       ~(prog'[Client] = "close" /\ call'[Client].at = "done")
    BY <1>1, <1>2, Distinct DEF Inv, Numbers
  <2>6. QED BY <2>2, <2>3, <2>4, <2>5 DEF Numbers
<1>6. Peers'
  BY <1>1 DEF Inv, Peers
<1>7. Stopping'
  BY <1>1, <1>2, Distinct DEF Inv, Stopping
<1>8. Waits'
  BY <1>2 DEF Inv, Waits
<1>9. OneThread'
  BY <1>1, <1>2, Distinct DEF Inv, OneThread, MayRun
<1>10. QED BY <1>3, <1>4, <1>5, <1>6, <1>7, <1>8, <1>9 DEF Inv

\* FdMgr::get(fd, true) finds nothing under the new number, and makes it non-blocking.
LEMMA MadeKeeps ==
  ASSUME Inv, fault = "none", NEW f \in Fibers, MayRun(f), Made(f), UNCHANGED serverVars
  PROVE  Inv'
<1>1. call[f] \in Calls /\ ctx \in [Fds -> {"none", "hooked", "timed"}] /\ blocking \subseteq Fds
      /\ call \in [Fibers -> Calls]
  BY DEF Inv, TypeOK, HookTypeOK
<1>2. /\ prog[f] = call[f].op /\ call[f].at = "made"
      /\ \/ f = Acceptor /\ prog[f] = "accept"
         \/ f = Client /\ prog[f] = "socket"
      /\ Bare(f, call[f].got)
  BY Distinct DEF Made, Inv, Calling, Idle, Quiet, Uses, Shuts
<1>3. PICK d \in Fds : d = call[f].got /\ Holds(f, d) /\ ctx[d] = "none"
  BY <1>2 DEF Bare, Holds
<1>4. PICK r \in Calls : r = Finished(f, "ok")
  BY <1>1, FinishedCall DEF Results
<1>5. r.at = "done" /\ r.rt = "ok" /\ r.op = call[f].op /\ r.fd = call[f].fd /\ r.got = d
  BY <1>1, <1>3, <1>4, FinishedCall DEF Results
<1>6. /\ call' = [call EXCEPT ![f] = r]
      /\ ctx' = [ctx EXCEPT ![d] = "hooked"]
      /\ blocking' = blocking \ {d}
      /\ UNCHANGED <<file, watched, peer, waiter, fault>>
  BY <1>3, <1>4 DEF Made, Step
<1>7. prog' = prog /\ sock' = sock
  BY DEF serverVars
<1>8. Calling(f)'
  <2>1. call'[f] = r
    BY <1>1, <1>6
  <2>2. Live(f, d)'
    BY <1>1, <1>3, <1>6, <1>7 DEF Live, Holds
  <2>3. CASE f = Acceptor
    BY <1>2, <1>5, <1>7, <2>1, <2>2, <2>3, Distinct DEF Inv, Calling, Quiet, Uses
  <2>4. CASE f = Client
    BY <1>2, <1>5, <1>7, <2>1, <2>2, <2>4, Distinct DEF Inv, Calling, Quiet
  <2>5. QED BY <1>2, <2>3, <2>4
<1>9. ctx' \in [Fds -> {"none", "hooked", "timed"}] /\ \A x \in Fds : x # d => ctx'[x] = ctx[x]
  BY <1>1, <1>6
<1>10. prog[f] \notin Quiet /\ prog[f] \in {"accept", "socket"}
  BY <1>2 DEF Quiet
<1>11. QED BY <1>2, <1>3, <1>5, <1>6, <1>8, <1>9, <1>10, TablesStep

\* FdMgr::del before close_f: the number is still its owner's.
LEMMA CloseDeletesKeeps ==
  ASSUME Inv, fault = "none", NEW f \in Fibers, MayRun(f), CloseDeletes(f), UNCHANGED serverVars
  PROVE  Inv'
<1>1. call[f] \in Calls /\ ctx \in [Fds -> {"none", "hooked", "timed"}] /\ blocking \subseteq Fds
      /\ call \in [Fibers -> Calls]
  BY DEF Inv, TypeOK, HookTypeOK
<1>2. /\ prog[f] = "close" /\ call[f].at = "del" /\ call[f].op = "close"
      /\ Holds(f, call[f].fd)
  BY Distinct DEF CloseDeletes, Inv, Calling, Idle, Quiet, Uses, Shuts
<1>3. PICK d \in Fds : d = call[f].fd /\ Holds(f, d)
  BY <1>2 DEF Holds
<1>4. PICK r : r = [call[f] EXCEPT !.at = "close_f"]
  OBVIOUS
<1>5. r \in Calls /\ r.at = "close_f" /\ r.op = call[f].op /\ r.fd = call[f].fd
  BY <1>1, <1>4 DEF Calls
<1>6. /\ call' = [call EXCEPT ![f] = r]
      /\ ctx' = [ctx EXCEPT ![d] = "none"]
      /\ UNCHANGED <<file, blocking, watched, peer, waiter, fault>>
  BY <1>3, <1>4 DEF CloseDeletes, Step, kernelVars
<1>7. prog' = prog /\ sock' = sock
  BY DEF serverVars
<1>8. ctx' \in [Fds -> {"none", "hooked", "timed"}] /\ ctx'[d] = "none"
      /\ \A x \in Fds : x # d => ctx'[x] = ctx[x]
  BY <1>1, <1>6
<1>9. Calling(f)'
  <2>1. call'[f] = r
    BY <1>1, <1>6
  <2>2. Holds(f, d)' /\ f # Acceptor
    BY <1>2, <1>3, <1>6, <1>7, Distinct DEF Holds, Inv, Calling
  <2>3. QED BY <1>2, <1>3, <1>5, <1>7, <1>8, <2>1, <2>2, Distinct DEF Inv, Calling, Quiet, Shuts
<1>10. prog[f] \notin Quiet
  BY <1>2 DEF Quiet
<1>11. QED BY <1>2, <1>3, <1>5, <1>6, <1>8, <1>9, <1>10, TablesStep

\* close_f: the owner has deleted the FdCtx, so that the number is clean.
LEMMA CloseKernelKeeps ==
  ASSUME Inv, fault = "none", NEW f \in Fibers, MayRun(f), CloseKernel(f), UNCHANGED serverVars
  PROVE  Inv'
<1>1. /\ call \in [Fibers -> Calls] /\ file \in [Fds -> Socks \cup {NoFile}]
      /\ isStop \in BOOLEAN /\ prog' = prog /\ sock' = sock /\ isStop' = isStop
      /\ call[f] \in Calls
  BY DEF Inv, TypeOK, HookTypeOK, serverVars
<1>2. /\ prog[f] = "close" /\ call[f].at = "close_f" /\ call[f].op = "close"
      /\ Holds(f, call[f].fd) /\ ctx[call[f].fd] = "none" /\ f # Acceptor
  BY Distinct DEF CloseKernel, Inv, Calling, Idle, Quiet, Uses, Shuts
<1>3. PICK d \in Fds : d = call[f].fd /\ Holds(f, d) /\ ctx[d] = "none" /\ file[d] = Own(f)
  BY <1>2 DEF Holds
<1>4. PICK r \in Calls : r = Finished(f, "ok")
  BY <1>1, FinishedCall DEF Results
<1>5. r.at = "done" /\ r.op = call[f].op /\ r.fd = call[f].fd
  BY <1>1, <1>4, FinishedCall DEF Results
<1>6. /\ call' = [call EXCEPT ![f] = r]
      /\ file' = [file EXCEPT ![d] = NoFile]
      /\ blocking' = blocking \ {d}
      /\ watched' = watched \ {d}
      /\ peer' = [s \in Socks |->
                    IF s = file[d] \/ (file[d] = Listener /\ s \in Backlog) THEN "away"
                    ELSE peer[s]]
      /\ UNCHANGED <<ctx, waiter, fault>>
  BY <1>3, <1>4 DEF CloseKernel, Step
<1>7. \A g \in Fibers : call'[g] = IF g = f THEN r ELSE call[g]
  BY <1>1, <1>6
<1>8. \A x \in Fds : file'[x] = IF x = d THEN NoFile ELSE file[x]
  BY <1>1, <1>6
<1>9. TypeOK'
  <2>1. file' \in [Fds -> Socks \cup {NoFile}] /\ call' \in [Fibers -> Calls]
    BY <1>1, <1>6
  <2>2. peer' \in [Socks -> PeerStates]
    BY <1>6 DEF Inv, TypeOK, HookTypeOK, PeerStates
  <2>3. QED BY <1>1, <1>6, <2>1, <2>2 DEF Inv, TypeOK, HookTypeOK
<1>10. ASSUME NEW g \in Fibers PROVE Calling(g)'
  <2>1. CASE g = f
    BY <1>1, <1>2, <1>5, <1>7, <2>1, Distinct DEF Inv, Calling, Quiet, Shuts
  <2>2. CASE g # f
    <3>1. /\ call[g] \in Calls /\ call'[g] = call[g] /\ prog'[g] = prog[g]
          /\ \A x \in Fds : x # d =>
               file'[x] = file[x] /\ ctx'[x] = ctx[x] /\ (x \in blocking' <=> x \in blocking)
      BY <1>1, <1>6, <1>7, <1>8, <2>2
    <3>2. prog[g] \notin Quiet => ~Holds(g, d)
      BY <1>2, <1>3, <2>2, HoldsAlone DEF Quiet
    <3>3. QED BY <1>1, <3>1, <3>2, OtherKeeps DEF Inv
  <2>3. QED BY <2>1, <2>2
<1>11. Numbers'
  <2>1. \A x, y \in Fds : file'[x] = file'[y] /\ file'[x] # NoFile => x = y
    BY <1>8 DEF Inv, Numbers
  <2>2. \A x \in Fds : file'[x] = NoFile => ctx'[x] = "none"
    BY <1>3, <1>6, <1>8 DEF Inv, Numbers
  <2>3. \A x \in Fds : file'[x] = Listener =>
       x = sock' /\ x \notin blocking' /\ ~(prog'[Closer] = "close" /\ call'[Closer].at = "done")
    BY <1>1, <1>3, <1>6, <1>7, <1>8, Distinct DEF Inv, Numbers, Own
  <2>4. \A x \in Fds : file'[x] = Out =>
       ~(prog'[Client] = "socket" /\ call'[Client].at = "lookup") /\
       ~(prog'[Client] = "close" /\ call'[Client].at = "done")
    BY <1>1, <1>2, <1>3, <1>6, <1>7, <1>8, Distinct DEF Inv, Numbers, Own
  <2>5. QED BY <2>1, <2>2, <2>3, <2>4 DEF Numbers
<1>12. Peers'
  <2>1. \A k \in Conns : peer'[k] = "queued" => peer[k] = "queued"
    BY <1>6, Distinct
  <2>2. \A x \in Fds : file'[x] \in Conns => peer'[file'[x]] \notin {"away", "queued"}
    <3> SUFFICES ASSUME NEW x \in Fds, file'[x] \in Conns
                 PROVE  peer'[file'[x]] \notin {"away", "queued"}
      OBVIOUS
    <3>1. x # d /\ file'[x] = file[x] /\ file[x] # file[d] /\ peer[file[x]] \notin {"away", "queued"}
      BY <1>3, <1>8, Distinct DEF Inv, Numbers, Peers
    <3>2. file[x] \in Socks /\ file[x] \notin Backlog
      BY <3>1, Distinct DEF Backlog
    <3>3. QED BY <1>6, <3>1, <3>2
  <2>3. QED BY <1>1, <2>1, <2>2 DEF Inv, Peers
<1>13. Stopping'
  BY <1>1, <1>2, <1>3, <1>5, <1>7, <1>8, Distinct DEF Inv, Stopping, Own
<1>14. Waits'
  BY <1>2, <1>5, <1>6, <1>7 DEF Inv, Waits
<1>15. OneThread'
  <2>1. OneAcceptThread /\ call[Acceptor].at = "wait" => call[Acceptor].fd # d
    <3> SUFFICES ASSUME OneAcceptThread, call[Acceptor].at = "wait", call[Acceptor].fd = d
                 PROVE  FALSE
      OBVIOUS
    <3>1. prog[Closer] \in {"none", "listed"} /\ f # Closer
      BY <1>2 DEF Inv, OneThread
    <3>2. sock \in Fds /\ file[sock] = Listener
      BY <3>1 DEF Inv, Stopping
    <3>3. call[Acceptor].fd = sock
      BY <3>2, Distinct, AtUse DEF Inv, Calling
    <3>4. QED BY <1>2, <1>3, <3>1, <3>2, <3>3, Distinct DEF Own, Inv, Calling
  <2>2. QED BY <1>1, <1>2, <1>6, <1>7, <2>1, Distinct, AtUse DEF Inv, OneThread, TypeOK, HookTypeOK
<1>16. QED BY <1>6, <1>9, <1>10, <1>11, <1>12, <1>13, <1>14, <1>15 DEF Inv

\* Nobody but the accept fiber waits on the listening socket.
LEMMA ListenerWaiter ==
  ASSUME Inv, OneAcceptThread, call[Acceptor].at \in {"arm", "add", "wait"}
  PROVE  /\ prog[Closer] \in {"none", "listed"}
         /\ sock \in Fds /\ file[sock] = Listener /\ call[Acceptor].fd = sock
         /\ \A g \in Fibers : call[g].at = "wait" /\ call[g].fd = sock => g = Acceptor
<1>1. prog[Closer] \in {"none", "listed"}
  BY DEF Inv, OneThread
<1>2. sock \in Fds /\ file[sock] = Listener
  BY <1>1 DEF Inv, Stopping
<1>3. call[Acceptor].fd = sock
  BY <1>2, Distinct, AtUse DEF Inv, Calling
<1>4. \A g \in Fibers : call[g].at = "wait" /\ call[g].fd = sock => g = Acceptor
  <2> SUFFICES ASSUME NEW g \in Fibers, call[g].at = "wait", call[g].fd = sock, g # Acceptor
               PROVE  FALSE
    OBVIOUS
  <2>1. Live(g, sock) /\ g # Closer
    BY AtUse
  <2>2. QED BY <1>2, <2>1, Distinct DEF Live, Holds, Own
<1>5. QED BY <1>1, <1>2, <1>3, <1>4

\* The dispatch of an event wakes the fiber that waits for it.
LEMMA EventArrivesKeeps ==
  ASSUME Inv, fault = "none", NEW d \in Fds, EventArrives(d), UNCHANGED serverVars
  PROVE  Inv'
<1>1. PICK e \in Waited(d) : Trigger(d, {e}, call)
  BY DEF EventArrives
<1>2. e \in Events /\ waiter[d][e] # NoFiber
  BY DEF Waited
<1>3. /\ UNCHANGED <<file, blocking, peer, ctx, fault, isStop, sock>>
      /\ call \in [Fibers -> Calls] /\ prog' = prog
  BY DEF EventArrives, Inv, TypeOK, HookTypeOK, serverVars
<1>4. /\ \A g \in Fibers : call'[g] =
           IF call[g].at = "wait" /\ call[g].fd = d /\ Event(call[g].op) \in {e}
           THEN [call[g] EXCEPT !.at = "woken"] ELSE call[g]
      /\ \A x \in Fds : x \in watched /\ x # d => x \in watched'
  <2>1. PICK es \in SUBSET Events : es = {e}
    BY <1>2
  <2>2. PICK calls \in [Fibers -> Calls] : calls = call
    BY <1>3
  <2>3. Trigger(d, es, calls)
    BY <1>1, <2>1, <2>2
  <2>4. \A g \in Fibers : call[g].at = "wait" => calls[g] = call[g]
    BY <2>2
  <2>5. \A g \in Fibers : calls[g].at = "wait" => call[g].at = "wait"
    BY <2>2
  <2>6. /\ \A g \in Fibers : call'[g] =
             IF call[g].at = "wait" /\ call[g].fd = d /\ Event(call[g].op) \in es
             THEN [call[g] EXCEPT !.at = "woken"] ELSE calls[g]
        /\ call' \in [Fibers -> Calls]
        /\ waiter' \in [Fds -> [Events -> Fibers \cup {NoFiber}]]
        /\ watched' \subseteq Fds
        /\ \A x \in Fds : x \in watched /\ x # d => x \in watched'
        /\ Waits'
    BY <2>3, <2>4, <2>5, Triggered
  <2>7. QED BY <2>1, <2>2, <2>6
<1>5. call[Closer].at # "wait" /\ Closer \in Fibers
  BY Distinct DEF Inv, Calling, Idle, Shuts, Quiet
<1>6. PICK r \in Calls : r = call[Closer]
  BY <1>3, <1>5
<1>7. call = [call EXCEPT ![Closer] = r] /\ prog' = [prog EXCEPT ![Closer] = prog[Closer]]
  BY <1>3, <1>6 DEF Inv, TypeOK
<1>8. call'[Closer] = call[Closer]
  BY <1>4, <1>5
<1>9. Calling(Closer)'
  BY <1>3, <1>5, <1>8 DEF Inv, Calling, Live, Bare, Holds
<1>10. Stopping'
  BY <1>3, <1>8 DEF Inv, Stopping
<1>11. OneThread'
  <2> SUFFICES ASSUME OneAcceptThread
               PROVE  OneThread'
    BY DEF OneThread
  <2>1. CASE call[Acceptor].at # "wait"
    BY <1>3, <1>4, <2>1, Distinct DEF Inv, OneThread
  <2>2. CASE call[Acceptor].at = "wait"
    <3>1. prog[Closer] \in {"none", "listed"} /\ call[Acceptor].fd = sock /\ sock \in watched
      BY <2>2, ListenerWaiter DEF Inv, OneThread
    <3>2. CASE d = sock
      <4>1. PICK g \in Fibers : g = waiter[d][e]
        BY <1>2 DEF Inv, TypeOK, HookTypeOK
      <4>2. g = Acceptor
        BY <1>2, <2>2, <3>2, <4>1, ListenerWaiter DEF Inv, Waits
      <4>3. Event(call[Acceptor].op) = e
        <5>1. Event(call[g].op) = e
          BY <1>2, <4>1 DEF Inv, Waits
        <5>2. QED BY <4>2, <5>1
      <4>4. call'[Acceptor].at = "woken"
        <5>1. call'[Acceptor] = [call[Acceptor] EXCEPT !.at = "woken"] /\ call[Acceptor] \in Calls
          BY <1>3, <1>4, <2>2, <3>1, <3>2, <4>3, Distinct
        <5>2. QED BY ONLY <5>1 DEF Calls
      <4>5. QED BY <1>3, <3>1, <4>4 DEF OneThread
    <3>3. CASE d # sock
      <4>1. sock \in watched' /\ call'[Acceptor] = call[Acceptor]
        BY <1>4, <3>1, <3>3, Distinct, ListenerWaiter, <2>2
      <4>2. QED BY <1>3, <3>1, <4>1, <2>2 DEF OneThread
    <3>4. QED BY <3>2, <3>3
  <2>3. QED BY <2>1, <2>2
<1>12. QED
  <2>1. Trigger(d, {e}, [call EXCEPT ![Closer] = r])
    BY <1>1, <1>7
  <2>2. {e} \in SUBSET Events
    BY <1>2
  <2>3. QED BY <1>3, <1>5, <1>6, <1>7, <1>9, <1>10, <1>11, <2>1, <2>2, Distinct, WakeStep

\* close() cancels what waits on the number: with the number's owner in close()
\* that can only be the accept fiber.
LEMMA CloseCancelsKeeps ==
  ASSUME Inv, fault = "none", NEW f \in Fibers, CloseCancels(f), UNCHANGED serverVars
  PROVE  Inv'
<1>1. /\ call \in [Fibers -> Calls] /\ prog' = prog /\ sock' = sock /\ isStop' = isStop
      /\ call[f] \in Calls /\ isStop \in BOOLEAN /\ peer \in [Socks -> PeerStates]
      /\ prog' = [prog EXCEPT ![f] = prog[f]]
  BY DEF Inv, TypeOK, HookTypeOK, serverVars
<1>2. /\ prog[f] = "close" /\ call[f].at = "lookup" /\ call[f].op = "close"
      /\ Holds(f, call[f].fd) /\ f # Acceptor
  BY Distinct DEF CloseCancels, Inv, Calling, Idle, Quiet, Uses, Shuts
<1>3. PICK d \in Fds : d = call[f].fd /\ Holds(f, d) /\ file[d] = Own(f)
  BY <1>2 DEF Holds
<1>4. UNCHANGED <<file, blocking, peer, ctx, fault>>
  BY DEF CloseCancels
<1>5. ASSUME NEW r \in Calls, r.op = "close", r.fd = d, call'[f] = r,
             f # Closer => call'[Closer] = call[Closer],
             \/ r.at = "close_f" /\ ctx[d] = "none"
             \/ r.at = "del"
      PROVE  Calling(f)' /\ Stopping'
  <2>1. Holds(f, d)'
    BY <1>1, <1>2, <1>3, <1>4 DEF Holds
  <2>2. Calling(f)'
    BY <1>1, <1>2, <1>4, <1>5, <2>1, Distinct DEF Inv, Calling, Quiet, Shuts
  <2>3. Stopping'
    BY <1>1, <1>2, <1>3, <1>4, <1>5, Distinct DEF Inv, Stopping
  <2>4. QED BY <2>2, <2>3
<1>6. ASSUME NEW r \in Calls, r.op = "close", r.fd = d, call' = [call EXCEPT ![f] = r],
             UNCHANGED <<waiter, watched>>,
             \/ r.at = "close_f" /\ ctx[d] = "none"
             \/ r.at = "del"
      PROVE  Inv'
  <2>1. \A g \in Fibers : call'[g] = IF g = f THEN r ELSE call[g]
    BY <1>1, <1>6
  <2>2. Calling(f)' /\ Stopping'
    BY <1>5, <1>6, <2>1, Distinct
  <2>3. OneThread'
    BY <1>1, <1>2, <1>6, <2>1, Distinct DEF Inv, OneThread
  <2>4. \A k \in Conns : peer'[k] = peer[k]
    BY <1>4
  <2>5. QED BY <1>1, <1>2, <1>4, <1>6, <2>2, <2>3, <2>4, LocalStep
<1>7. CASE ctx[d] = "none" /\ Step(f, [call[f] EXCEPT !.at = "close_f"]) /\ UNCHANGED <<waiter, watched>>
  <2>1. PICK r : r = [call[f] EXCEPT !.at = "close_f"]
    OBVIOUS
  <2>2. r \in Calls /\ r.at = "close_f" /\ r.op = call[f].op /\ r.fd = call[f].fd
    BY <1>1, <2>1 DEF Calls
  <2>3. call' = [call EXCEPT ![f] = r]
    BY <1>7, <2>1 DEF Step
  <2>4. QED BY <1>2, <1>3, <1>6, <1>7, <2>2, <2>3
<1>8. CASE CancelAll(d, [call EXCEPT ![f].at = "del"])
  <2>1. PICK r : r = [call[f] EXCEPT !.at = "del"]
    OBVIOUS
  <2>2. r \in Calls /\ r.at = "del" /\ r.op = call[f].op /\ r.fd = call[f].fd
    BY <1>1, <2>1 DEF Calls
  <2>3. [call EXCEPT ![f].at = "del"] = [call EXCEPT ![f] = r]
    BY <1>1, <2>1
  <2>4. CASE d \notin watched
    <3>1. call' = [call EXCEPT ![f] = r] /\ UNCHANGED <<waiter, watched>>
      BY <1>8, <2>3, <2>4 DEF CancelAll
    <3>2. QED BY <1>2, <1>3, <1>6, <2>2, <3>1
  <2>5. CASE d \in watched
    <3>1. PICK calls \in [Fibers -> Calls] : calls = [call EXCEPT ![f] = r]
      BY <1>1, <2>2
    <3>2. \A g \in Fibers : calls[g] = IF g = f THEN r ELSE call[g]
      BY <1>1, <3>1
    <3>3. PICK es \in SUBSET Events : es = Events
      OBVIOUS
    <3>4. Trigger(d, es, calls)
      BY <1>8, <2>3, <2>5, <3>1, <3>3 DEF CancelAll
    <3>5. \A g \in Fibers : call[g].at = "wait" => calls[g] = call[g]
      BY <1>2, <3>2
    <3>6. \A g \in Fibers : calls[g].at = "wait" => call[g].at = "wait"
      BY <2>2, <3>2
    <3>7. /\ \A g \in Fibers : call'[g] =
               IF call[g].at = "wait" /\ call[g].fd = d /\ Event(call[g].op) \in es
               THEN [call[g] EXCEPT !.at = "woken"] ELSE calls[g]
          /\ call' \in [Fibers -> Calls]
          /\ waiter' \in [Fds -> [Events -> Fibers \cup {NoFiber}]]
          /\ watched' \subseteq Fds
          /\ \A x \in Fds : x \in watched /\ x # d => x \in watched'
          /\ Waits'
      BY <3>4, <3>5, <3>6, Triggered
    <3>8. Calling(f)' /\ Stopping'
      <4>1. call'[f] = r
        BY <1>2, <3>2, <3>7
      <4>2. call[Closer].at # "wait"
        BY Distinct DEF Inv, Calling, Idle, Shuts, Quiet
      <4>3. f # Closer => call'[Closer] = call[Closer]
        BY <3>2, <3>7, <4>2, Distinct
      <4>4. QED BY <1>2, <1>3, <1>5, <2>2, <4>1, <4>3
    <3>9. OneThread'
      <4> SUFFICES ASSUME OneAcceptThread PROVE OneThread'
        BY DEF OneThread
      <4>1. CASE call[Acceptor].at # "wait"
        <5>1. call'[Acceptor] = call[Acceptor]
          BY <1>2, <3>2, <3>7, <4>1, Distinct
        <5>2. QED BY <1>1, <4>1, <5>1, Distinct DEF Inv, OneThread
      <4>2. CASE call[Acceptor].at = "wait"
        <5>1. prog[Closer] \in {"none", "listed"} /\ call[Acceptor].fd = sock /\ sock \in watched
              /\ file[sock] = Listener /\ sock \in Fds
          BY <4>2, ListenerWaiter DEF Inv, OneThread
        <5>2. d # sock
          BY <1>2, <1>3, <5>1, Distinct DEF Own
        <5>3. call'[Acceptor] = call[Acceptor] /\ sock \in watched'
          BY <1>2, <3>2, <3>7, <5>1, <5>2, Distinct
        <5>4. QED BY <1>1, <4>2, <5>1, <5>3 DEF OneThread
      <4>3. QED BY <4>1, <4>2
    <3>10. Trigger(d, es, [call EXCEPT ![f] = r])
      BY <3>1, <3>4
    <3>11. QED BY <1>1, <1>2, <1>4, <2>2, <3>8, <3>9, <3>10, WakeStep
  <2>6. QED BY <2>4, <2>5
<1>9. QED BY <1>3, <1>7, <1>8 DEF CloseCancels

\* The callback of stop(): cancelAll wakes the accept fiber, close() begins.
LEMMA CloseListenerKeeps ==
  ASSUME Inv, fault = "none", CloseListener
  PROVE  Inv'
<1>1. /\ call \in [Fibers -> Calls] /\ sock' = sock /\ isStop' = isStop
      /\ isStop \in BOOLEAN /\ peer \in [Socks -> PeerStates] /\ Closer \in Fibers
      /\ prog' = [prog EXCEPT ![Closer] = "close"] /\ prog'[Closer] = "close"
      /\ UNCHANGED <<file, blocking, peer, ctx, fault>>
  BY Distinct DEF Inv, TypeOK, HookTypeOK, CloseListener, Goto
<1>2. /\ prog[Closer] = "listed" /\ call[Closer].at = "idle"
      /\ sock \in Fds /\ file[sock] = Listener
  <2>1. prog[Closer] = "listed"
    BY DEF CloseListener
  <2>2. call[Closer] = Idle
    BY <2>1, Distinct DEF Inv, Calling, Quiet
  <2>3. QED BY <2>1, <2>2 DEF Inv, Stopping, Idle
<1>3. PICK d \in Fds : d = sock
  BY <1>2
<1>4. PICK r : r = [Idle EXCEPT !.at = "lookup", !.op = "close", !.fd = d]
  OBVIOUS
<1>5. r \in Calls /\ r.at = "lookup" /\ r.op = "close" /\ r.fd = d
  BY ONLY <1>4, d \in Fds DEF Idle, Calls
<1>6. CancelAll(d, [call EXCEPT ![Closer] = r])
  BY <1>3, <1>4 DEF CloseListener
<1>7. ASSUME call'[Closer] = r
      PROVE  Calling(Closer)' /\ Stopping'
  <2>1. Holds(Closer, d)'
    BY <1>1, <1>2, <1>3, Distinct DEF Holds, Own
  <2>2. Calling(Closer)'
    BY <1>1, <1>2, <1>5, <1>7, <2>1, Distinct DEF Calling, Quiet, Shuts
  <2>3. Stopping'
    BY <1>1, <1>2, <1>3, <1>5, <1>7, Distinct DEF Inv, Stopping
  <2>4. QED BY <2>2, <2>3
<1>8. OneAcceptThread => call[Acceptor].at \in {"wait", "woken", "idle"}
  BY Distinct DEF CloseListener, MayClose, Inv, Calling, Idle, Quiet
<1>9. CASE d \notin watched
  <2>1. call' = [call EXCEPT ![Closer] = r] /\ UNCHANGED <<waiter, watched>>
    BY <1>6, <1>9 DEF CancelAll
  <2>2. \A g \in Fibers : call'[g] = IF g = Closer THEN r ELSE call[g]
    BY <1>1, <2>1
  <2>3. Calling(Closer)' /\ Stopping'
    BY <1>1, <1>7, <2>2
  <2>4. OneThread'
    <3>1. OneAcceptThread => call[Acceptor].at # "wait"
      BY <1>3, <1>9, ListenerWaiter DEF Inv, OneThread
    <3>2. QED BY <1>1, <1>8, <2>2, <3>1, Distinct DEF OneThread
  <2>5. \A k \in Conns : peer'[k] = peer[k]
    BY <1>1
  <2>6. QED BY <1>1, <1>2, <1>5, <2>1, <2>3, <2>4, <2>5, Distinct, LocalStep
<1>10. CASE d \in watched
  <2>1. PICK calls \in [Fibers -> Calls] : calls = [call EXCEPT ![Closer] = r]
    BY <1>1, <1>5
  <2>2. \A g \in Fibers : calls[g] = IF g = Closer THEN r ELSE call[g]
    BY <1>1, <2>1
  <2>3. PICK es \in SUBSET Events : es = Events
    OBVIOUS
  <2>4. Trigger(d, es, calls)
    BY <1>6, <1>10, <2>1, <2>3 DEF CancelAll
  <2>5. \A g \in Fibers : call[g].at = "wait" => calls[g] = call[g]
    BY <1>2, <2>2
  <2>6. \A g \in Fibers : calls[g].at = "wait" => call[g].at = "wait"
    BY <1>5, <2>2
  <2>7. /\ \A g \in Fibers : call'[g] =
             IF call[g].at = "wait" /\ call[g].fd = d /\ Event(call[g].op) \in es
             THEN [call[g] EXCEPT !.at = "woken"] ELSE calls[g]
        /\ call' \in [Fibers -> Calls]
        /\ waiter' \in [Fds -> [Events -> Fibers \cup {NoFiber}]]
        /\ watched' \subseteq Fds
        /\ \A x \in Fds : x \in watched /\ x # d => x \in watched'
        /\ Waits'
    BY <2>4, <2>5, <2>6, Triggered
  <2>8. Calling(Closer)' /\ Stopping'
    <3>1. call'[Closer] = r
      BY <1>1, <1>2, <2>2, <2>7
    <3>2. QED BY <1>7, <3>1
  <2>9. OneThread'
    <3> SUFFICES ASSUME OneAcceptThread PROVE OneThread'
      BY DEF OneThread
    <3>1. CASE call[Acceptor].at # "wait"
      <4>1. call'[Acceptor] = call[Acceptor]
        BY <1>2, <2>2, <2>7, <3>1, Distinct
      <4>2. QED BY <1>1, <1>8, <3>1, <4>1 DEF OneThread
    <3>2. CASE call[Acceptor].at = "wait"
      <4>1. call[Acceptor].fd = d /\ Event(call[Acceptor].op) \in es
        BY <1>3, <2>3, <3>2, ListenerWaiter DEF Event, Events
      <4>2. call'[Acceptor] = [call[Acceptor] EXCEPT !.at = "woken"] /\ call[Acceptor] \in Calls
        BY <1>1, <2>7, <3>2, <4>1, Distinct
      <4>3. call'[Acceptor].at = "woken"
        BY ONLY <4>2 DEF Calls
      <4>4. QED BY <1>1, <4>3 DEF OneThread
    <3>3. QED BY <3>1, <3>2
  <2>10. Trigger(d, es, [call EXCEPT ![Closer] = r])
    BY <2>1, <2>4
  <2>11. QED BY <1>1, <1>2, <1>5, <2>8, <2>9, <2>10, Distinct, WakeStep
<1>11. QED BY <1>9, <1>10

\* The only fiber that waits for an event that another one registers has strayed.
LEMMA AddFails ==
  ASSUME Inv, NEW f \in Fibers, call[f].at = "add",
         Event(call[f].op) \in Waited(call[f].fd)
  PROVE  Strayed
<1>1. PICK d \in Fds : d = call[f].fd /\ prog[f] = call[f].op /\ (f = Acceptor \/ Live(f, d))
  BY AtUse
<1>2. PICK e \in Events : e = Event(call[f].op) /\ waiter[d][e] # NoFiber
  BY <1>1 DEF Waited
<1>3. PICK g \in Fibers : waiter[d][e] = g
  BY <1>2 DEF Inv, TypeOK, HookTypeOK
<1>4. call[g].at = "wait" /\ call[g].fd = d
  BY <1>3 DEF Inv, Waits
<1>5. g # f /\ (g = Acceptor \/ Live(g, d))
  BY <1>4, AtUse
<1>6. f # Closer /\ g # Closer
  BY <1>4, AtUse
<1>7. CASE f # Acceptor /\ g # Acceptor
  BY <1>1, <1>5, <1>6, <1>7, Distinct DEF Live, Holds, Own
<1>8. CASE f = Acceptor \/ g = Acceptor
  <2>1. file[d] # Listener
    BY <1>1, <1>5, <1>6, <1>8, Distinct DEF Live, Holds, Own
  <2>2. call[Acceptor].at \in {"add", "wait"} /\ call[Acceptor].fd = d
    BY <1>1, <1>4, <1>8
  <2>3. ~OneAcceptThread
    BY <2>1, <2>2, ListenerWaiter
  <2>4. QED BY <2>1, <2>2, <2>3 DEF Strayed, File
<1>9. QED BY <1>7, <1>8

\* addEvent of an event that nobody waits for on that number.
LEMMA AddKeeps ==
  ASSUME Inv, fault = "none", NEW f \in Fibers, MayRun(f), Add(f), UNCHANGED serverVars
  PROVE  Inv'
<1>1. /\ call \in [Fibers -> Calls] /\ call[f] \in Calls /\ call[f].at = "add"
      /\ UNCHANGED <<file, blocking, peer, ctx>> /\ watched \subseteq Fds
      /\ waiter \in [Fds -> [Events -> Fibers \cup {NoFiber}]]
      /\ peer' \in [Socks -> PeerStates] /\ \A k \in Conns : peer'[k] = peer[k]
  BY DEF Inv, TypeOK, HookTypeOK, Add
<1>2. prog' = prog /\ sock' = sock /\ isStop' = isStop
  BY DEF serverVars
<1>3. PICK d \in Fds : /\ d = call[f].fd
                       /\ prog[f] = call[f].op /\ prog[f] \in {"accept", "recv", "connect"}
                       /\ f # Closer /\ (f = Acceptor <=> prog[f] = "accept")
                       /\ f = Acceptor \/ Live(f, d)
  BY <1>1, AtUse
<1>4. PICK e \in Events : e = Event(call[f].op)
  BY DEF Event, Events
<1>5. CASE /\ e \in Waited(d)
           /\ fault' = "assert"
           /\ UNCHANGED <<call, waiter, watched>>
  <2>1. Strayed'
    BY <1>1, <1>2, <1>3, <1>4, <1>5, AddFails DEF Strayed, File
  <2>2. TypeOK'
    BY <1>1, <1>2, <1>5 DEF Inv, TypeOK, HookTypeOK
  <2>3. \A g \in Fibers : Calling(g)'
    BY <1>1, <1>2, <1>5 DEF Inv, Calling, Live, Bare, Holds
  <2>4. Numbers' /\ Peers' /\ Stopping' /\ Waits' /\ OneThread'
    BY <1>1, <1>2, <1>5 DEF Inv, Numbers, Peers, Stopping, Waits, OneThread
  <2>5. QED BY <2>1, <2>2, <2>3, <2>4 DEF Inv
<1>6. CASE /\ Step(f, Finished(f, IF call[f].op = "connect" THEN SoError(f) ELSE "error"))
           /\ UNCHANGED <<waiter, watched, fault>>
  <2>1. PICK rt \in {"ok", "error"} :
          call' = [call EXCEPT ![f] = Finished(f, rt)] /\ (f = Acceptor => rt = "error")
    BY <1>3, <1>6 DEF Step, SoError
  <2>2. PICK r \in Calls : r = Finished(f, rt)
    BY <1>1, FinishedCall DEF Results
  <2>3. r.at = "done" /\ r.rt = rt /\ r.op = call[f].op /\ r.fd = call[f].fd
    BY <1>1, <2>2, FinishedCall DEF Results
  <2>4. QED BY <1>1, <1>6, <2>1, <2>2, <2>3, CallStep
<1>7. CASE /\ e \notin Waited(d)
           /\ Step(f, [call[f] EXCEPT !.at = "wait"])
           /\ waiter' = [waiter EXCEPT ![d][e] = f]
           /\ watched' = watched \cup {d}
           /\ UNCHANGED fault
  <2>1. PICK r : r = [call[f] EXCEPT !.at = "wait"]
    OBVIOUS
  <2>2. r \in Calls /\ r.at = "wait" /\ r.op = call[f].op /\ r.fd = call[f].fd
    BY <1>1, <2>1 DEF Calls
  <2>3. call' = [call EXCEPT ![f] = r]
    BY <1>7, <2>1 DEF Step
  <2>4. \A g \in Fibers : call'[g] = IF g = f THEN r ELSE call[g]
    BY <1>1, <2>3
  <2>5. waiter' \in [Fds -> [Events -> Fibers \cup {NoFiber}]]
        /\ \A x \in Fds, y \in Events : waiter'[x][y] = IF x = d /\ y = e THEN f ELSE waiter[x][y]
    BY <1>1, <1>7
  <2>6. TypeOK'
    BY <1>1, <1>2, <1>7, <2>2, <2>3, <2>5 DEF Inv, TypeOK, HookTypeOK
  <2>7. ASSUME NEW g \in Fibers PROVE Calling(g)'
    <3>1. CASE g = f
      <4>1. Holds(f, d)' = Holds(f, d) /\ Live(f, d)' = Live(f, d)
        BY <1>1, <1>2 DEF Live, Holds
      <4>2. QED BY <1>1, <1>2, <1>3, <2>2, <2>4, <3>1, <4>1, Distinct DEF Inv, Calling, Uses, Quiet
    <3>2. CASE g # f
      <4>1. call[g] \in Calls /\ call'[g] = call[g] /\ prog'[g] = prog[g] /\ ~Holds(g, NoFd)
        BY <1>1, <1>2, <2>4, <3>2, Distinct DEF Holds
      <4>2. QED BY <1>1, <1>2, <4>1, OtherKeeps DEF Inv
    <3>3. QED BY <3>1, <3>2
  <2>8. Numbers'
    BY <1>1, <1>2, <1>3, <2>2, <2>4, Distinct DEF Inv, Numbers
  <2>9. Peers' /\ Stopping'
    BY <1>1, <1>2, <1>3, <2>4, Distinct DEF Inv, Peers, Stopping
  <2>10. Waits'
    <3> SUFFICES ASSUME NEW x \in Fds, NEW y \in Events, NEW g \in Fibers
                 PROVE  waiter'[x][y] = g <=>
                          call'[g].at = "wait" /\ call'[g].fd = x /\ Event(call'[g].op) = y
      BY DEF Waits
    <3>1. waiter[x][y] = g <=> call[g].at = "wait" /\ call[g].fd = x /\ Event(call[g].op) = y
      BY DEF Inv, Waits
    <3>2. waiter[d][e] \notin Fibers
      BY <1>7, Distinct DEF Waited
    <3>3. QED BY <1>1, <1>3, <1>4, <2>2, <2>4, <2>5, <3>1, <3>2
  <2>11. OneThread'
    BY <1>1, <1>2, <1>3, <1>7, <2>2, <2>4, Distinct DEF Inv, OneThread
  <2>12. QED BY <1>7, <2>6, <2>7, <2>8, <2>9, <2>10, <2>11 DEF Inv
<1>8. QED BY <1>3, <1>4, <1>5, <1>6, <1>7 DEF Add

\* Every step of a hooked call.
LEMMA RunningKeeps ==
  ASSUME Inv, fault = "none", NEW f \in Fibers, FiberStep(f)
  PROVE  Inv'
BY LookupKeeps, DirectKeeps, TryKeeps, ArmKeeps, AddKeeps, ResumeKeeps, SocketKeeps, MadeKeeps,
   CloseCancelsKeeps, CloseDeletesKeeps, CloseKernelKeeps DEF FiberStep, Running

Begun(op, d) == [Idle EXCEPT !.at = "lookup", !.op = op, !.fd = d]

\* What a call is that begins.
LEMMA BegunCall ==
  \A d \in Fds \cup {NoFd}, op \in {"accept", "recv", "socket", "connect", "close"} :
    /\ Begun(op, d) \in Calls
    /\ Begun(op, d).at = "lookup" /\ Begun(op, d).op = op /\ Begun(op, d).fd = d
BY ZenonT(40) DEF Begun, Idle, Calls

\* The next call on the number of a connection.
LEMMA NextCall ==
  ASSUME Inv, fault = "none", NEW f \in Fibers, NEW d \in Fds, Live(f, d),
         NEW op \in {"recv", "connect", "close"},
         f = Client \/ (f \in Conns /\ op # "connect"),
         call[f].at = "done", Begin(f, op, d), Goto(f, op),
         UNCHANGED <<file, blocking, watched, ctx, waiter, fault, isStop, sock>>,
         peer' \in [Socks -> PeerStates], \A k \in Conns : peer'[k] = peer[k]
  PROVE  Inv'
<1>1. PICK r : r = Begun(op, d)
  OBVIOUS
<1>2. r \in Calls /\ r.at = "lookup" /\ r.op = op /\ r.fd = d
  BY <1>1, BegunCall
<1>3. call' = [call EXCEPT ![f] = r] /\ prog' = [prog EXCEPT ![f] = op]
  BY <1>1 DEF Begin, Step, Goto, Begun
<1>4. call \in [Fibers -> Calls] /\ DOMAIN prog = Fibers /\ isStop \in BOOLEAN
  BY DEF Inv, TypeOK, HookTypeOK
<1>5. \A g \in Fibers : /\ call'[g] = IF g = f THEN r ELSE call[g]
                        /\ prog'[g] = IF g = f THEN op ELSE prog[g]
  BY <1>3, <1>4
<1>6. prog[f] \notin Quiet
  BY Distinct DEF Inv, Calling, Idle
<1>7. Live(f, d)'
  BY Distinct DEF Live, Holds
<1>8. Calling(f)'
  BY <1>2, <1>5, <1>7, Distinct DEF Calling, Quiet, Uses, Shuts, Live
<1>9. Stopping' /\ OneThread'
  BY <1>5, Distinct DEF Inv, Stopping, OneThread
<1>10. QED BY <1>2, <1>3, <1>4, <1>6, <1>8, <1>9, Distinct, LocalStep DEF Quiet

\* The handlers and the client go on to their next call.
LEMMA ConnectionKeeps ==
  ASSUME Inv, fault = "none",
         \/ \E k \in Conns : Handle(k)
         \/ Connect \/ Connected \/ Received
  PROVE  Inv'
<1>1. peer \in [Socks -> PeerStates] /\ file \in [Fds -> Socks \cup {NoFile}]
  BY DEF Inv, TypeOK, HookTypeOK
<1>2. ASSUME NEW f \in Conns \cup {Client}, prog[f] \in {"recv", "connect"}
      PROVE  f \in Fibers /\ call[f].fd \in Fds /\ Live(f, call[f].fd)
  BY <1>2, Distinct DEF Inv, Calling, Live, Holds
<1>3. ASSUME NEW k \in Conns, Handle(k) PROVE Inv'
  <2>1. PICK d \in Fds : d = call[k].fd /\ Live(k, d)
    BY <1>2, <1>3 DEF Handle, Returned
  <2>2. PICK op \in {"recv", "close"} : Goto(k, op) /\ Begin(k, op, d)
    BY <1>3, <2>1 DEF Handle
  <2>3. /\ UNCHANGED <<file, blocking, watched, ctx, waiter, fault, isStop, sock, peer>>
        /\ call[k].at = "done"
    BY <1>3 DEF Handle, Quietly, kernelVars, Returned
  <2>4. QED BY <1>1, <2>1, <2>2, <2>3, Distinct, NextCall
<1>4. CASE Connect
  <2>1. PICK d \in Fds : d = call[Client].got /\ Live(Client, d)
    BY <1>4, Distinct DEF Connect, Returned, Inv, Calling, Quiet, Live, Holds
  <2>2. Goto(Client, "connect") /\ Begin(Client, "connect", d)
    BY <1>4, <2>1 DEF Connect
  <2>3. /\ UNCHANGED <<file, blocking, watched, ctx, waiter, fault, isStop, sock>>
        /\ call[Client].at = "done"
        /\ peer' = [peer EXCEPT ![Out] = "connecting"]
    BY <1>4 DEF Connect, Returned
  <2>4. peer' \in [Socks -> PeerStates] /\ \A k \in Conns : peer'[k] = peer[k]
    BY <1>1, <2>3, Distinct DEF PeerStates
  <2>5. QED BY <2>1, <2>2, <2>3, <2>4, Distinct, NextCall
<1>5. CASE Connected \/ Received
  <2>1. PICK d \in Fds : d = call[Client].fd /\ Live(Client, d)
    BY <1>2, <1>5 DEF Connected, Received, Returned
  <2>2. PICK op \in {"recv", "close"} : Goto(Client, op) /\ Begin(Client, op, d)
    BY <1>5, <2>1 DEF Connected, Received
  <2>3. /\ UNCHANGED <<file, blocking, watched, ctx, waiter, fault, isStop, sock, peer>>
        /\ call[Client].at = "done"
    BY <1>5 DEF Connected, Received, Quietly, kernelVars, Returned
  <2>4. QED BY <1>1, <2>1, <2>2, <2>3, Distinct, NextCall
<1>6. QED BY <1>3, <1>4, <1>5

\* close() has returned: the number is no longer its owner's.
LEMMA ClosedKeeps ==
  ASSUME Inv, fault = "none", NEW f \in Fibers, Closed(f)
  PROVE  Inv'
<1>1. /\ call \in [Fibers -> Calls] /\ DOMAIN prog = Fibers /\ isStop \in BOOLEAN
      /\ peer \in [Socks -> PeerStates]
  BY DEF Inv, TypeOK, HookTypeOK
<1>2. /\ UNCHANGED <<file, blocking, watched, ctx, waiter, fault, isStop, sock, peer>>
      /\ prog[f] = "close" /\ call[f].at = "done" /\ f # Closer /\ f # Acceptor
      /\ f = Client \/ f \in Conns
  BY Distinct DEF Closed, Quietly, kernelVars, Returned, Inv, Calling
<1>3. PICK r \in Calls, p \in {"socket", "none"} :
        /\ call' = [call EXCEPT ![f] = r] /\ prog' = [prog EXCEPT ![f] = p]
        /\ IF f = Client THEN p = "socket" /\ r.at = "lookup" /\ r.op = "socket"
           ELSE p = "none" /\ r = Idle /\ r.at = "idle"
  <2>1. CASE f = Client
    <3>1. call' = [call EXCEPT ![f] = Begun("socket", NoFd)] /\ prog' = [prog EXCEPT ![f] = "socket"]
      BY <2>1 DEF Closed, Begin, Step, Goto, Begun
    <3>2. /\ Begun("socket", NoFd) \in Calls
          /\ Begun("socket", NoFd).at = "lookup" /\ Begun("socket", NoFd).op = "socket"
      BY BegunCall
    <3>3. QED BY <2>1, <3>1, <3>2
  <2>2. CASE f # Client
    <3>1. call' = [call EXCEPT ![f] = Idle] /\ prog' = [prog EXCEPT ![f] = "none"]
      BY <2>2 DEF Closed, Step, Goto
    <3>2. Idle \in Calls /\ Idle.at = "idle"
      BY DEF Idle, Calls
    <3>3. QED BY <2>2, <3>1, <3>2
  <2>3. QED BY <2>1, <2>2
<1>4. \A g \in Fibers : /\ call'[g] = IF g = f THEN r ELSE call[g]
                        /\ prog'[g] = IF g = f THEN p ELSE prog[g]
  BY <1>1, <1>3
<1>5. Calling(f)'
  BY <1>2, <1>3, <1>4, Distinct DEF Calling, Quiet
<1>6. Stopping' /\ OneThread'
  BY <1>2, <1>4, Distinct DEF Inv, Stopping, OneThread
<1>7. QED BY <1>1, <1>2, <1>3, <1>5, <1>6, LocalStep

\* start() of a server that has a listening socket.
LEMMA StartKeeps ==
  ASSUME Inv, fault = "none", Start
  PROVE  Inv'
<1>1. /\ call \in [Fibers -> Calls] /\ DOMAIN prog = Fibers
      /\ peer \in [Socks -> PeerStates] /\ Acceptor \in Fibers
  BY Distinct DEF Inv, TypeOK, HookTypeOK
<1>2. /\ UNCHANGED <<file, blocking, watched, peer, ctx, waiter, call, fault, sock>>
      /\ isStop' = FALSE /\ prog' = [prog EXCEPT ![Acceptor] = "check"]
      /\ prog[Acceptor] = "none" /\ prog[Closer] = "none"
  BY DEF Start, Goto, hookVars, kernelVars
<1>3. call[Acceptor].at = "idle" /\ call[Acceptor] = Idle
  BY <1>1, <1>2 DEF Inv, Calling, Quiet, Idle
<1>4. PICK r \in Calls : r = call[Acceptor]
  BY <1>1
<1>5. call' = [call EXCEPT ![Acceptor] = r]
  BY <1>1, <1>2, <1>4
<1>6. \A g \in Fibers : prog'[g] = IF g = Acceptor THEN "check" ELSE prog[g]
  BY <1>1, <1>2
<1>7. Calling(Acceptor)'
  BY <1>1, <1>2, <1>3, <1>6, Distinct DEF Calling, Quiet
<1>8. Stopping' /\ OneThread'
  BY <1>2, <1>3, <1>6, Distinct DEF Inv, Stopping, OneThread
<1>9. QED BY <1>1, <1>2, <1>3, <1>4, <1>5, <1>7, <1>8, Distinct, LocalStep

\* The accept loop looks at m_isStop.
LEMMA CheckKeeps ==
  ASSUME Inv, fault = "none", Check
  PROVE  Inv'
<1>1. /\ call \in [Fibers -> Calls] /\ DOMAIN prog = Fibers /\ isStop \in BOOLEAN
      /\ peer \in [Socks -> PeerStates] /\ Acceptor \in Fibers
  BY Distinct DEF Inv, TypeOK, HookTypeOK
<1>2. /\ UNCHANGED <<file, blocking, watched, peer, ctx, waiter, fault, isStop, sock>>
      /\ prog[Acceptor] = "check" /\ MayRun(Acceptor)
  BY DEF Check, Quietly, kernelVars
<1>3. call[Acceptor].at = "idle" /\ call[Acceptor] = Idle
  BY <1>1, <1>2 DEF Inv, Calling, Quiet, Idle
<1>4. PICK r \in Calls, p \in {"over", "accept"} :
        /\ call' = [call EXCEPT ![Acceptor] = r] /\ prog' = [prog EXCEPT ![Acceptor] = p]
        /\ \/ p = "over" /\ r = Idle /\ r.at = "idle"
           \/ /\ p = "accept" /\ r.at = "lookup" /\ r.op = "accept" /\ r.fd = sock
              /\ ~isStop
  <2>1. CASE isStop /\ Goto(Acceptor, "over") /\ UNCHANGED call
    <3>1. call' = [call EXCEPT ![Acceptor] = call[Acceptor]]
      BY <1>1, <2>1
    <3>2. QED BY <1>1, <1>3, <2>1, <3>1 DEF Goto
  <2>2. CASE ~isStop /\ Goto(Acceptor, "accept") /\ Begin(Acceptor, "accept", sock)
    <3>1. call' = [call EXCEPT ![Acceptor] = Begun("accept", sock)]
          /\ prog' = [prog EXCEPT ![Acceptor] = "accept"]
      BY <2>2 DEF Begin, Step, Goto, Begun
    <3>2. sock \in Fds \cup {NoFd}
      BY DEF Inv, TypeOK
    <3>3. QED BY <2>2, <3>1, <3>2, BegunCall, ZenonT(40)
  <2>3. QED BY <2>1, <2>2 DEF Check
<1>5. \A g \in Fibers : /\ call'[g] = IF g = Acceptor THEN r ELSE call[g]
                        /\ prog'[g] = IF g = Acceptor THEN p ELSE prog[g]
  BY <1>1, <1>4
<1>6. p = "accept" => sock \in Fds /\ prog[Closer] = "none"
  BY <1>4 DEF Inv, Stopping
<1>7. Calling(Acceptor)'
  BY <1>1, <1>2, <1>4, <1>5, <1>6, Distinct DEF Calling, Quiet, Uses
<1>8. Stopping'
  BY <1>2, <1>5, Distinct DEF Inv, Stopping
<1>9. OneThread'
  BY <1>1, <1>2, <1>4, <1>5, <1>6, Distinct DEF OneThread
<1>10. QED BY <1>1, <1>2, <1>3, <1>4, <1>7, <1>8, <1>9, Distinct, LocalStep

\* accept() has returned a connection; the handler that is scheduled gets it, with
\* its number.
LEMMA AcceptedKeeps ==
  ASSUME Inv, fault = "none", Accepted
  PROVE  Inv'
<1>1. /\ call \in [Fibers -> Calls] /\ DOMAIN prog = Fibers /\ isStop \in BOOLEAN
      /\ peer \in [Socks -> PeerStates] /\ Acceptor \in Fibers
      /\ file \in [Fds -> Socks \cup {NoFile}] /\ ctx \in [Fds -> {"none", "hooked", "timed"}]
  BY Distinct DEF Inv, TypeOK, HookTypeOK
<1>2. /\ UNCHANGED <<file, blocking, watched, peer, waiter, fault, isStop, sock>>
      /\ prog[Acceptor] = "accept" /\ call[Acceptor].at = "done" /\ MayRun(Acceptor)
  BY DEF Accepted, Quietly, kernelVars, Returned
<1>3. Idle \in Calls /\ Idle.at = "idle"
  BY DEF Idle, Calls
<1>4. CASE Goto(Acceptor, "check") /\ Step(Acceptor, Idle) /\ UNCHANGED ctx
  <2>1. call' = [call EXCEPT ![Acceptor] = Idle] /\ prog' = [prog EXCEPT ![Acceptor] = "check"]
    BY <1>4 DEF Step, Goto
  <2>2. \A g \in Fibers : /\ call'[g] = IF g = Acceptor THEN Idle ELSE call[g]
                          /\ prog'[g] = IF g = Acceptor THEN "check" ELSE prog[g]
    BY <1>1, <2>1
  <2>3. Calling(Acceptor)'
    BY <1>1, <2>2, Distinct DEF Calling, Quiet
  <2>4. Stopping' /\ OneThread'
    BY <1>2, <1>3, <2>2, Distinct DEF Inv, Stopping, OneThread, MayRun
  <2>5. QED BY <1>1, <1>2, <1>3, <1>4, <2>1, <2>3, <2>4, Distinct, LocalStep
<1>5. CASE /\ call[Acceptor].rt = "ok"
           /\ LET d == call[Acceptor].got IN
              /\ prog' = [prog EXCEPT ![Acceptor] = "check", ![file[d]] = "recv"]
              /\ call' = [call EXCEPT ![Acceptor] = Idle,
                            ![file[d]] = [Idle EXCEPT !.at = "lookup", !.op = "recv", !.fd = d]]
              /\ IF Timed THEN SetTimeout(d) ELSE UNCHANGED ctx
  <2>1. PICK d \in Fds : d = call[Acceptor].got /\ Live(Acceptor, d)
    BY <1>1, <1>2, <1>5 DEF Inv, Calling, Live, Holds
  <2>2. PICK k \in Conns : k = file[d] /\ prog[k] = "none"
    BY <2>1 DEF Live, Holds
  <2>3. k \in Fibers /\ k # Acceptor /\ k # Closer /\ k # Client
    BY Distinct
  <2>4. PICK r \in Calls : /\ r = Begun("recv", d)
                           /\ r.at = "lookup" /\ r.op = "recv" /\ r.fd = d
    BY BegunCall
  <2>5. \A g \in Fibers : /\ call'[g] = IF g = k THEN r ELSE IF g = Acceptor THEN Idle ELSE call[g]
                          /\ prog'[g] = IF g = k THEN "recv" ELSE IF g = Acceptor THEN "check" ELSE prog[g]
    BY <1>1, <1>5, <2>1, <2>2, <2>3, <2>4 DEF Begun
  <2>6. /\ ctx' \in [Fds -> {"none", "hooked", "timed"}]
        /\ \A x \in Fds : x # d => ctx'[x] = ctx[x]
        /\ ctx'[d] # "none"
    BY <1>1, <1>5, <2>1 DEF SetTimeout, Live
  <2>7. TypeOK'
    <3>1. call' \in [Fibers -> Calls]
      BY <1>1, <1>3, <1>5, <2>1, <2>2, <2>4 DEF Begun
    <3>2. prog' \in [Fibers -> {"none", "check", "accept", "recv", "socket", "connect",
                                "close", "listed", "over"}]
      BY <1>5, <2>1, <2>2 DEF Inv, TypeOK
    <3>3. QED BY <1>2, <2>6, <3>1, <3>2 DEF Inv, TypeOK, HookTypeOK
  <2>8. ASSUME NEW g \in Fibers PROVE Calling(g)'
    <3>1. CASE g = Acceptor
      BY <2>3, <2>5, <3>1, Distinct DEF Calling, Quiet
    <3>2. CASE g = k
      <4>1. Live(k, d)'
        BY <1>2, <2>1, <2>2, <2>3, <2>6 DEF Live, Holds, Own
      <4>2. QED BY <2>3, <2>4, <2>5, <3>2, <4>1, Distinct DEF Calling, Quiet, Uses
    <3>3. CASE g # Acceptor /\ g # k
      <4>1. call[g] \in Calls /\ call'[g] = call[g] /\ prog'[g] = prog[g]
        BY <1>1, <2>5, <3>3
      <4>2. prog[g] \notin Quiet => ~Holds(g, d)
        <5>1. Holds(Acceptor, d) /\ prog[Acceptor] \notin Quiet /\ Acceptor \in Fibers
          BY <1>1, <1>2, <2>1 DEF Live, Quiet
        <5>2. QED BY <3>3, <5>1, HoldsAlone
      <4>3. Calling(g)
        BY DEF Inv
      <4>4. QED
        BY <1>2, <2>6, <3>3, <4>1, <4>2, <4>3, Distinct DEF Calling, Holds, Live, Bare, Own, Quiet
    <3>4. QED BY <3>1, <3>2, <3>3
  <2>9. Numbers'
    <3>1. \A x \in Fds : file'[x] = NoFile => ctx'[x] = "none"
      BY <1>2, <2>2, <2>6, Distinct DEF Inv, Numbers
    <3>2. QED BY <1>2, <2>3, <2>5, <3>1, Distinct DEF Inv, Numbers
  <2>10. Peers'
    BY <1>2, <2>2, <2>5, Distinct DEF Inv, Peers
  <2>11. Stopping'
    BY <1>2, <2>3, <2>5, Distinct DEF Inv, Stopping
  <2>12. OneThread'
    BY <1>2, <1>3, <2>3, <2>5, Distinct DEF Inv, OneThread, MayRun
  <2>13. Waits'
    <3>1. call[k].at # "wait"
      BY <2>2, <2>3 DEF Inv, Calling, Quiet, Idle
    <3>2. QED BY <1>2, <1>3, <2>3, <2>4, <2>5, <3>1 DEF Inv, Waits
  <2>14. QED BY <1>2, <2>7, <2>8, <2>9, <2>10, <2>11, <2>12, <2>13 DEF Inv
<1>6. QED BY <1>4, <1>5 DEF Accepted

\* stop() sets the flag and schedules the callback.
LEMMA StopKeeps ==
  ASSUME Inv, fault = "none", Stop
  PROVE  Inv'
<1>1. /\ call \in [Fibers -> Calls] /\ DOMAIN prog = Fibers
      /\ peer \in [Socks -> PeerStates] /\ Closer \in Fibers
  BY Distinct DEF Inv, TypeOK, HookTypeOK
<1>2. /\ UNCHANGED <<file, blocking, watched, peer, ctx, waiter, call, fault, sock>>
      /\ isStop' = TRUE /\ prog' = [prog EXCEPT ![Closer] = "listed"] /\ ~isStop
  BY DEF Stop, Goto, hookVars, kernelVars
<1>3. prog[Closer] = "none"
  BY <1>2 DEF Inv, Stopping
<1>4. call[Closer].at = "idle" /\ call[Closer] = Idle
  BY <1>1, <1>3 DEF Inv, Calling, Quiet, Idle
<1>5. PICK r \in Calls : r = call[Closer]
  BY <1>1
<1>6. call' = [call EXCEPT ![Closer] = r]
  BY <1>1, <1>2, <1>5
<1>7. \A g \in Fibers : prog'[g] = IF g = Closer THEN "listed" ELSE prog[g]
  BY <1>1, <1>2
<1>8. Calling(Closer)'
  BY <1>1, <1>2, <1>4, <1>7, Distinct DEF Calling, Quiet
<1>9. Stopping' /\ OneThread'
  BY <1>1, <1>2, <1>3, <1>4, <1>7, Distinct DEF Inv, Stopping, OneThread
<1>10. QED BY <1>1, <1>2, <1>4, <1>5, <1>6, <1>8, <1>9, Distinct, LocalStep

\* The end of the callback.
LEMMA ListenerClosedKeeps ==
  ASSUME Inv, fault = "none", ListenerClosed
  PROVE  Inv'
<1>1. /\ call \in [Fibers -> Calls] /\ DOMAIN prog = Fibers /\ isStop \in BOOLEAN
      /\ peer \in [Socks -> PeerStates] /\ Closer \in Fibers
  BY Distinct DEF Inv, TypeOK, HookTypeOK
<1>2. /\ UNCHANGED <<file, blocking, watched, peer, ctx, waiter, fault, isStop>>
      /\ sock' = NoFd
      /\ call' = [call EXCEPT ![Closer] = Idle] /\ prog' = [prog EXCEPT ![Closer] = "over"]
      /\ prog[Closer] = "close" /\ call[Closer].at = "done"
  BY DEF ListenerClosed, Goto, Step, Returned, kernelVars
<1>3. Idle \in Calls /\ Idle.at = "idle"
  BY DEF Idle, Calls
<1>4. \A d \in Fds : file[d] # Listener
  BY <1>2 DEF Inv, Numbers
<1>5. \A g \in Fibers : /\ call'[g] = IF g = Closer THEN Idle ELSE call[g]
                        /\ prog'[g] = IF g = Closer THEN "over" ELSE prog[g]
  BY <1>1, <1>2
<1>6. Calling(Closer)'
  BY <1>1, <1>5, Distinct DEF Calling, Quiet
<1>7. Stopping'
  BY <1>1, <1>2, <1>5, Distinct DEF Inv, Stopping
<1>8. OneThread'
  BY <1>1, <1>2, <1>5, Distinct DEF Inv, OneThread
<1>9. QED BY <1>1, <1>2, <1>3, <1>4, <1>6, <1>7, <1>8, LocalStep

\* Clients and peers.
LEMMA EnvironmentKeeps ==
  ASSUME Inv, fault = "none", Environment
  PROVE  Inv'
<1>1. /\ UNCHANGED <<file, blocking, watched, ctx, waiter, call, fault, prog, sock, isStop>>
  BY DEF Environment, serverVars
<1>2. peer \in [Socks -> PeerStates] /\ file \in [Fds -> Socks \cup {NoFile}]
  BY DEF Inv, TypeOK, HookTypeOK
<1>3. /\ peer' \in [Socks -> PeerStates]
      /\ \A k \in Conns :
           \/ peer'[k] = peer[k]
           \/ peer'[k] = "queued" /\ peer[k] = "away" /\ prog[k] = "none"
           \/ peer'[k] \notin {"away", "queued"}
  <2>1. CASE PeerAnswers
    BY <1>2, <2>1, Distinct DEF PeerAnswers, PeerStates
  <2>2. CASE \E k \in Conns : prog[k] = "none" /\ ClientConnects(k)
    BY <1>2, <2>2, Distinct DEF ClientConnects, PeerStates
  <2>3. CASE \E k \in Conns : PeerActs(k)
    BY <1>2, <2>3, Distinct DEF PeerActs, PeerStates
  <2>4. CASE PeerLeaves
    BY <1>2, <2>4, Distinct DEF PeerLeaves, PeerStates
  <2>5. QED BY <2>1, <2>2, <2>3, <2>4 DEF Environment
<1>4. TypeOK'
  BY <1>1, <1>3 DEF Inv, TypeOK, HookTypeOK
<1>5. \A g \in Fibers : Calling(g)'
  BY <1>1 DEF Inv, Calling, Live, Bare, Holds
<1>6. Peers'
  BY <1>1, <1>3 DEF Inv, Peers
<1>7. Numbers' /\ Stopping' /\ Waits' /\ OneThread'
  BY <1>1 DEF Inv, Numbers, Stopping, Waits, OneThread
<1>8. QED BY <1>1, <1>4, <1>5, <1>6, <1>7 DEF Inv

\* After bind() only the listening socket has a number.
LEMMA InitInv == Init => Inv
<1> SUFFICES ASSUME Init PROVE Inv
  OBVIOUS
<1>1. sock \in Fds
  <2>1. Fds # {} /\ Fds \in SUBSET Nat
    <3>1. Cardinality(Conns) \in Nat
      BY TcpSeverAssumption, FS_CardinalityType
    <3>2. QED BY <3>1, TcpSeverAssumption, FS_EmptySet
  <2>2. \E d \in Fds : \A x \in Fds : d <= x
    BY <2>1, LeastExists
  <2>3. QED BY <2>2 DEF Init
<1>2. /\ file = [d \in Fds |-> IF d = sock THEN Listener ELSE NoFile]
      /\ ctx = [d \in Fds |-> IF d = sock THEN "hooked" ELSE "none"]
      /\ blocking = {} /\ watched = {}
      /\ peer = [s \in Socks |-> "away"]
      /\ waiter = [d \in Fds |-> [e \in Events |-> NoFiber]]
      /\ fault = "none" /\ isStop = TRUE
      /\ prog = [f \in Fibers |-> IF f = Client THEN "socket" ELSE "none"]
  BY DEF Init
<1>3. /\ call \in [Fibers -> Calls]
      /\ \A f \in Fibers : f # Client => call[f] = Idle
      /\ call[Client].at = "lookup" /\ call[Client].op = "socket"
      /\ \A f \in Fibers : call[f].at \in {"idle", "lookup"}
  BY Distinct DEF Init, Idle, Calls
<1>4. TypeOK
  BY <1>1, <1>2, <1>3, Distinct DEF TypeOK, HookTypeOK, PeerStates
<1>5. \A f \in Fibers : Calling(f)
  BY <1>2, <1>3, Distinct DEF Calling, Quiet
<1>6. Numbers /\ Peers /\ Stopping
  BY <1>1, <1>2, <1>3, Distinct DEF Numbers, Peers, Stopping
<1>7. Waits /\ OneThread
  BY <1>2, <1>3, Distinct DEF Waits, OneThread
<1>8. QED BY <1>2, <1>4, <1>5, <1>6, <1>7 DEF Inv

\* Every step.
LEMMA NextInv == Inv /\ [Next]_vars => Inv'
<1> SUFFICES ASSUME Inv, [Next]_vars PROVE Inv'
  OBVIOUS
<1>1. CASE UNCHANGED vars
  BY <1>1, StutterKeeps
<1>2. CASE fault = "none" /\ (Start \/ Stop \/ Environment)
  BY <1>2, StartKeeps, StopKeeps, EnvironmentKeeps
<1>3. CASE fault = "none" /\ \E f \in Fibers : FiberStep(f)
  BY <1>3, RunningKeeps
<1>4. CASE fault = "none" /\ \E f \in Fibers : ProgramStep(f)
  <2>1. PICK f \in Fibers : ProgramStep(f)
    BY <1>4
  <2>2. CASE Check \/ Accepted \/ CloseListener \/ ListenerClosed
    BY <1>4, <2>2, CheckKeeps, AcceptedKeeps, CloseListenerKeeps, ListenerClosedKeeps
  <2>3. CASE Connect \/ Connected \/ Received \/ \E k \in Conns : Handle(k)
    BY <1>4, <2>3, ConnectionKeeps
  <2>4. CASE Closed(f)
    BY <1>4, <2>4, ClosedKeeps
  <2>5. QED BY <2>1, <2>2, <2>3, <2>4 DEF ProgramStep
<1>5. CASE fault = "none" /\ \E f \in Fibers : (TimerExpires(f) \/ TimerCallback(f)) /\ UNCHANGED serverVars
  BY <1>5, TimerKeeps
<1>6. CASE fault = "none" /\ \E d \in Fds : EventArrives(d) /\ UNCHANGED serverVars
  BY <1>6, EventArrivesKeeps
<1>7. QED BY <1>1, <1>2, <1>3, <1>4, <1>5, <1>6 DEF Next

\* A fiber that waits on a number holds it, so the number is not free; but for the
\* accept fiber.
LEMMA InvFreeIsClean == Inv => FreeIsClean
<1> SUFFICES ASSUME Inv PROVE FreeIsClean
  OBVIOUS
<1>1. ASSUME NEW d \in Free PROVE ctx[d] = "none"
  BY DEF Free, Inv, Numbers
<1>2. ASSUME NEW d \in Free, NEW e \in Waited(d) PROVE waiter[d][e] = Acceptor /\ Strayed
  <2>1. d \in Fds /\ file[d] = NoFile /\ e \in Events /\ waiter[d][e] # NoFiber
    BY DEF Free, Waited
  <2>2. PICK f \in Fibers : waiter[d][e] = f
    BY <2>1 DEF Inv, TypeOK, HookTypeOK
  <2>3. call[f].at = "wait" /\ call[f].fd = d
    BY <2>1, <2>2 DEF Inv, Waits
  <2>4. f = Acceptor
    BY <2>1, <2>3, AtUse, Distinct DEF Live, Holds, Own
  <2>5. ~OneAcceptThread
    BY <2>1, <2>3, <2>4, ListenerWaiter, Distinct
  <2>6. QED BY <2>1, <2>2, <2>3, <2>4, <2>5, Distinct DEF Strayed, File
<1>3. QED BY <1>1, <1>2 DEF FreeIsClean, Inv

\* A number on which a call is made has a FdCtx, and does not block.
LEMMA InvNoThreadBlocks == Inv => NoThreadBlocks
<1> SUFFICES ASSUME Inv, NEW f \in Fibers, Blocks(f) PROVE FALSE
  BY DEF NoThreadBlocks
<1>1. call[f].at \in {"direct", "try"} /\ Outcome(f) = "EAGAIN" /\ call[f].fd \in blocking
  BY DEF Blocks
<1>2. f # Acceptor => call[f].fd \notin blocking
  BY <1>1, AtUse DEF Live
<1>3. f = Acceptor => file[call[f].fd] = Listener /\ call[f].fd \in Fds
  BY <1>1, AtUse, Distinct DEF Outcome, Suits, File
<1>4. QED BY <1>1, <1>2, <1>3 DEF Inv, Numbers

\* For any number of connections and descriptors, and whatever the clients, the
\* peers, the timers and the owner do: a number that is free has left nothing
\* behind in FdManager and FdContext, no addEvent fails its assertion because of
\* an earlier user of the number, and no thread sleeps in the kernel.  close
\* cancels, deletes and gives back in this order; accept and socket make the
\* FdCtx before they return the number.
THEOREM NumbersClean == Spec => [](FreeIsClean /\ NoThreadBlocks)
<1>1. Spec => []Inv
  BY InitInv, NextInv, PTL DEF Spec
<1>2. QED BY <1>1, InvFreeIsClean, InvNoThreadBlocks, PTL

-----------------------------------------------------------------------------
\* For any number of connections and descriptors: what a handler, the client or
\* the callback of stop() has in hand between its waits, while numbers are given
\* back and handed out again, stays the number of its own socket, so that it
\* neither receives from another's socket nor closes it.
THEOREM CallsOnOwnSocket == Spec => []OnOwnSocket
<1>1. Spec => []Inv
  BY InitInv, NextInv, PTL DEF Spec
<1>2. Inv => OnOwnSocket
  <2> SUFFICES ASSUME Inv, NEW f \in Fibers, f # Acceptor, call[f].at \notin {"idle", "done"},
                      call[f].op \in {"recv", "connect", "close"}
               PROVE  /\ call[f].fd \in Fds /\ file[call[f].fd] = Own(f)
                      /\ \A d \in Fds : file[d] = Own(f) => d = call[f].fd
    BY DEF OnOwnSocket
  <2>1. call[f].op = prog[f]
    BY DEF Inv, Calling, Idle
  <2>2. Holds(f, call[f].fd)
    BY <2>1 DEF Inv, Calling, Live
  <2>3. call[f].fd \in Fds /\ file[call[f].fd] = Own(f)
    BY <2>2 DEF Holds
  <2>4. Own(f) # NoFile
    BY Distinct DEF Own
  <2>5. QED BY <2>3, <2>4 DEF Inv, Numbers
<1>3. QED BY <1>1, <1>2, PTL

\* With one thread for the accept loop no assertion of addEvent fails: the
\* accept fiber is always woken by the cancelAll that comes before the close.
THEOREM OneThreadNoFault == OneAcceptThread => (Spec => [](fault = "none"))
<1>1. Spec => []Inv
  BY InitInv, NextInv, PTL DEF Spec
<1>2. OneAcceptThread /\ Inv => fault = "none"
  BY DEF Inv, Strayed
<1>3. SUFFICES ASSUME OneAcceptThread PROVE Spec => [](fault = "none")
  OBVIOUS
<1>4. Inv => fault = "none"
  BY <1>2, <1>3
<1>5. QED BY <1>1, <1>4, PTL
=============================================================================
