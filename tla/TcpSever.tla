------------------------------ MODULE TcpSever ------------------------------
(***************************************************************************)
(* A TCP server on the hooked calls (TCPSever, HTTPSever::handleCilent,    *)
(* Socket): a fiber accepts on the listening socket, a fiber per           *)
(* connection receives and closes, another fiber of the process opens a    *)
(* connection of its own, and stop() has a fiber close the listening       *)
(* socket.  All of them get and give back descriptor numbers.              *)
(***************************************************************************)
EXTENDS Hook

CONSTANTS Acceptor, \* the fiber of startAccept
          Closer,   \* the fiber of the callback that stop() schedules
          Client,   \* the fiber that connects to a peer
          Timed,    \* m_recvTimeout is not -1
          OneAcceptThread \* m_acceptWorker has one thread

ASSUME TcpSeverAssumption ==
  /\ Fibers = Conns \cup {Acceptor, Closer, Client}
  /\ Acceptor # Closer /\ Acceptor # Client /\ Closer # Client
  /\ Conns \cap {Acceptor, Closer, Client, Listener, Out} = {} /\ Listener # Out
  /\ IsFiniteSet(Conns) /\ IsFiniteSet(Fds) /\ Fds \subseteq Nat
  /\ Cardinality(Fds) >= Cardinality(Conns) + 2  \* no EMFILE
  /\ NoFile \notin Socks /\ NoFiber \notin Fibers /\ NoFd \notin Fds
  /\ Timed \in BOOLEAN /\ OneAcceptThread \in BOOLEAN

VARIABLES isStop, \* m_isStop
          sock,   \* m_socket of the listening Socket, NoFd when closed
          prog    \* prog[f]: where the program of fiber f is; fiber k handles k

vars == <<hookVars, isStop, sock, prog>>
serverVars == <<isStop, sock, prog>>

TypeOK ==
  /\ HookTypeOK
  /\ isStop \in BOOLEAN /\ sock \in Fds \cup {NoFd}
  /\ prog \in [Fibers -> {"none", "check", "accept", "recv", "socket", "connect",
                          "close", "listed", "over"}]

\* bind() has made the listening socket.
Init ==
  /\ sock = CHOOSE d \in Fds : \A x \in Fds : d <= x
  /\ file = [d \in Fds |-> IF d = sock THEN Listener ELSE NoFile]
  /\ ctx = [d \in Fds |-> IF d = sock THEN "hooked" ELSE "none"]
  /\ blocking = {} /\ watched = {}
  /\ peer = [s \in Socks |-> "away"]
  /\ waiter = [d \in Fds |-> [e \in Events |-> NoFiber]]
  /\ call = [f \in Fibers |-> IF f = Client THEN [Idle EXCEPT !.at = "lookup", !.op = "socket"]
                             ELSE Idle]
  /\ fault = "none"
  /\ isStop = TRUE
  /\ prog = [f \in Fibers |-> IF f = Client THEN "socket" ELSE "none"]

\* Fiber f goes on to p, with or without a new call.
Goto(f, p) == prog' = [prog EXCEPT ![f] = p]
Returned(f, p) == prog[f] = p /\ call[f].at = "done"
Quietly == UNCHANGED <<kernelVars, waiter, fault, isStop, sock>>

\* The fibers of one thread do not run between two steps of each other's slice.
MayRun(f) == f = Acceptor /\ OneAcceptThread => prog[Closer] # "close"
MayClose ==
  OneAcceptThread =>
    call[Acceptor].at \in {"wait", "woken"} \/ prog[Acceptor] \in {"none", "over"}

-----------------------------------------------------------------------------
\* start(), once; a second start after stop would need a new bind.
Start ==
  /\ isStop /\ prog[Acceptor] = "none" /\ prog[Closer] = "none"
  /\ isStop' = FALSE
  /\ Goto(Acceptor, "check")
  /\ UNCHANGED <<hookVars, sock>>

\* while (!m_isStop) sock->accept()
Check ==
  /\ prog[Acceptor] = "check" /\ MayRun(Acceptor)
  /\ \/ isStop /\ Goto(Acceptor, "over") /\ UNCHANGED call
     \/ ~isStop /\ Goto(Acceptor, "accept") /\ Begin(Acceptor, "accept", sock)
  /\ UNCHANGED ctx /\ Quietly

\* accept returned: Socket::init wants a FdCtx, the timeout is set and the
\* handler is scheduled; otherwise the loop goes on.
Accepted ==
  /\ Returned(Acceptor, "accept") /\ MayRun(Acceptor)
  /\ LET d == call[Acceptor].got IN
       IF call[Acceptor].rt = "ok" /\ ctx[d] # "none"
       THEN /\ prog' = [prog EXCEPT ![Acceptor] = "check", ![file[d]] = "recv"]
            /\ call' = [call EXCEPT ![Acceptor] = Idle,
                          ![file[d]] = [Idle EXCEPT !.at = "lookup", !.op = "recv", !.fd = d]]
            /\ IF Timed THEN SetTimeout(d) ELSE UNCHANGED ctx
       ELSE Goto(Acceptor, "check") /\ Step(Acceptor, Idle) /\ UNCHANGED ctx
  /\ Quietly

\* handleCilent: after a request comes the next one, unless the connection is
\* not kept alive; any other result ends the loop and closes.
Handle(k) ==
  /\ Returned(k, "recv")
  /\ \/ call[k].rt = "data" /\ Goto(k, "recv") /\ Begin(k, "recv", call[k].fd)
     \/ Goto(k, "close") /\ Begin(k, "close", call[k].fd)
  /\ UNCHANGED ctx /\ Quietly

ClosedTwice(f) ==  \* mutant: Socket::close keeps m_socket, ~Socket closes again
  /\ Returned(f, "close") /\ f # Closer
  /\ IF f = Client THEN Goto(f, "socket") /\ Begin(f, "socket", NoFd)
     ELSE Goto(f, "close") /\ Begin(f, "close", call[f].fd)
  /\ UNCHANGED ctx /\ Quietly

Closed(f) ==
  /\ Returned(f, "close") /\ f # Closer
  /\ IF f = Client THEN Goto(f, "socket") /\ Begin(f, "socket", NoFd)
     ELSE Goto(f, "none") /\ Step(f, Idle)
  /\ UNCHANGED ctx /\ Quietly

\* A fiber of the same process makes a connection, uses it and closes it, again
\* and again.
Connect ==
  /\ Returned(Client, "socket")
  /\ peer' = [peer EXCEPT ![Out] = "connecting"]
  /\ Goto(Client, "connect") /\ Begin(Client, "connect", call[Client].got)
  /\ UNCHANGED <<file, blocking, watched, ctx, waiter, fault, isStop, sock>>

Connected ==
  /\ Returned(Client, "connect")
  /\ LET next == IF call[Client].rt = "ok" THEN "recv" ELSE "close" IN
       Goto(Client, next) /\ Begin(Client, next, call[Client].fd)
  /\ UNCHANGED ctx /\ Quietly

\* Whatever the answer is.
Received ==
  /\ Returned(Client, "recv")
  /\ Goto(Client, "close") /\ Begin(Client, "close", call[Client].fd)
  /\ UNCHANGED ctx /\ Quietly

\* stop(): the flag, and the callback goes to the mission list.
Stop ==
  /\ ~isStop
  /\ isStop' = TRUE
  /\ Goto(Closer, "listed")
  /\ UNCHANGED <<hookVars, sock>>

CloseOnlyCancels ==  \* mutant: Socket::close gives up on a socket that is not connected
  /\ prog[Closer] = "listed" /\ MayClose
  /\ Goto(Closer, "over")
  /\ CancelAll(sock, call)
  /\ UNCHANGED <<file, blocking, peer, ctx, fault, isStop, sock>>

\* The callback: sock->cancelAll(), then sock->close().
CloseListener ==
  /\ prog[Closer] = "listed" /\ MayClose
  /\ Goto(Closer, "close")
  /\ CancelAll(sock, [call EXCEPT ![Closer] =
                        [Idle EXCEPT !.at = "lookup", !.op = "close", !.fd = sock]])
  /\ UNCHANGED <<file, blocking, peer, ctx, fault, isStop, sock>>

\* Socket::close forgets the number; m_socks.clear().
ListenerClosed ==
  /\ Returned(Closer, "close")
  /\ sock' = NoFd
  /\ Goto(Closer, "over") /\ Step(Closer, Idle)
  /\ UNCHANGED <<kernelVars, ctx, waiter, fault, isStop>>

-----------------------------------------------------------------------------
FiberStep(f) ==
  /\ MayRun(f)
  /\ Running(f)
  /\ UNCHANGED serverVars

ProgramStep(f) ==
  \/ f = Acceptor /\ (Check \/ Accepted)
  \/ f = Closer /\ (CloseListener \/ ListenerClosed)
  \/ f = Client /\ (Connect \/ Connected \/ Received)
  \/ f \in Conns /\ Handle(f)
  \/ Closed(f)

\* The name of a connection is used again when its handler is over.
Environment ==
  /\ \/ PeerAnswers
     \/ \E k \in Conns : prog[k] = "none" /\ ClientConnects(k)
     \/ \E k \in Conns : PeerActs(k)
     \/ PeerLeaves
  /\ UNCHANGED <<file, blocking, watched, ctx, waiter, call, fault, serverVars>>

Next ==
  \/ /\ fault = "none"
     /\ \/ Start \/ Stop \/ Environment
        \/ \E f \in Fibers : FiberStep(f) \/ ProgramStep(f)
        \/ \E f \in Fibers : (TimerExpires(f) \/ TimerCallback(f)) /\ UNCHANGED serverVars
        \/ \E d \in Fds : EventArrives(d) /\ UNCHANGED serverVars
  \/ fault # "none" /\ UNCHANGED vars

Spec == Init /\ [][Next]_vars

\* Every fiber that is not held gets a thread again, the idle threads dispatch
\* events and run callbacks.  Nothing makes clients connect or peers answer,
\* time pass, or the owner start or stop the server.
FairSpec ==
  /\ Spec
  /\ \A f \in Fibers : WF_vars(fault = "none" /\ (FiberStep(f) \/ ProgramStep(f)))
  /\ \A d \in Fds : WF_vars(fault = "none" /\ EventArrives(d) /\ UNCHANGED serverVars)

-----------------------------------------------------------------------------
\* A number that is free has left nothing behind in the tables kept beside the
\* kernel's: no FdCtx in FdManager (the next socket would inherit its state and
\* block) and no fiber in FdContext; and no addEvent fails its assertion because
\* a number's last user still waits.  Accept, socket, connect and close of many
\* fibers work on the three tables one after the other and under different
\* locks.  The only exception is an accept fiber that found EAGAIN before the
\* socket was closed on another thread, and that waits, or is about to wait, on
\* the number afterwards.
Strayed ==
  /\ ~OneAcceptThread
  /\ call[Acceptor].at \in {"add", "wait"}
  /\ File(call[Acceptor].fd) # Listener

FreeIsClean ==
  /\ \A d \in Free :
       ctx[d] = "none" /\ \A e \in Waited(d) : waiter[d][e] = Acceptor /\ Strayed
  /\ fault # "none" => Strayed

\* No fiber but the accept fiber makes a call on a number that it has closed, or
\* behind which another's socket is, and none closes another's: a fiber keeps the
\* number over its waits and does not look it up again, and a Socket is closed by
\* its handler and by its destructor.
Own(f) == IF f = Client THEN Out ELSE IF f = Closer THEN Listener ELSE f

OnOwnSocket ==
  \A f \in Fibers \ {Acceptor} :
    call[f].at \notin {"idle", "done"} /\ call[f].op \in {"recv", "connect", "close"} =>
      /\ call[f].fd \in Fds /\ file[call[f].fd] = Own(f)
      /\ \A d \in Fds : file[d] = Own(f) => d = call[f].fd

\* No hooked call puts its thread to sleep in the kernel.
NoThreadBlocks == \A f \in Fibers : ~Blocks(f)

\* A connection whose peer has sent something or has gone is attended to: its
\* handler receives, or closes.
RequestsServed ==
  \A k \in Conns :
    peer[k] \in {"data", "eof"} ~> peer[k] \notin {"data", "eof"} \/ fault # "none"

\* stop() closes the listening socket, although the fiber that accepts on it
\* does not look at m_isStop while it waits.
StopCloses ==
  prog[Closer] = "listed" ~> Listener \notin {file[d] : d \in Fds} \/ fault # "none"

\* After stop() the accept loop ends.
StopEnds == prog[Closer] = "listed" ~> prog[Acceptor] = "over"

=============================================================================
