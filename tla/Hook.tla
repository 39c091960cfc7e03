-------------------------------- MODULE Hook --------------------------------
(***************************************************************************)
(* The hooked system calls (hook.cpp) and what they keep about descriptors *)
(* (FdManager).  A call that would block tries, arms a timer, registers an *)
(* event, holds its fiber, and tries again when it is woken; close takes   *)
(* three steps.  Between any two steps the fibers of other threads run.    *)
(*                                                                         *)
(* The programs that make the calls are in the modules that extend this    *)
(* one.  Which thread resumes a fiber, and how an edge of epoll reaches it,*)
(* are Scheduler and FdEvents: here a registered event whose descriptor is *)
(* ready wakes its fiber.                                                  *)
(***************************************************************************)
EXTENDS Naturals, FiniteSets

CONSTANTS Fds,      \* descriptor numbers
          Conns,    \* connections that clients make to us
          Listener, \* the listening socket
          Out,      \* a connection we make
          Fibers,
          NoFile, NoFiber, NoFd

Events == {"READ", "WRITE"}
Event(op) == IF op = "connect" THEN "WRITE" ELSE "READ"

VARIABLES file,     \* file[d]: the socket behind number d, or NoFile
          blocking, \* numbers whose O_NONBLOCK is not set
          watched,  \* numbers epoll watches
          peer,     \* peer[s]: what the other end of s has done
          ctx,      \* m_fds[d]: no FdCtx, one, or one with SO_RCVTIMEO
          waiter,   \* FdContext: waiter[d][e] is the fiber that waits for e on d
          call,     \* call[f]: the hooked call of f and where it is
          fault     \* "none" or "assert"

kernelVars == <<file, blocking, watched, peer>>
hookVars   == <<kernelVars, ctx, waiter, call, fault>>

Socks == Conns \cup {Listener, Out}
PeerStates == {"away", "queued", "quiet", "data", "eof", "connecting", "up", "refused"}

Idle == [at |-> "idle", op |-> "none", fd |-> NoFd, timed |-> FALSE, timer |-> FALSE,
         due |-> FALSE, cancelled |-> FALSE, rt |-> "none", got |-> NoFd]

Calls == [at : {"idle", "lookup", "direct", "try", "arm", "add", "wait", "woken",
                "made", "done", "del", "close_f"},
          op : {"none", "accept", "recv", "socket", "connect", "close"},
          fd : Fds \cup {NoFd}, timed : BOOLEAN, timer : BOOLEAN, due : BOOLEAN,
          cancelled : BOOLEAN, got : Fds \cup {NoFd},
          rt : {"none", "ok", "data", "eof", "EAGAIN", "ETIMEDOUT", "error"}]

HookTypeOK ==
  /\ file \in [Fds -> Socks \cup {NoFile}]
  /\ blocking \subseteq Fds /\ watched \subseteq Fds
  /\ peer \in [Socks -> PeerStates]
  /\ ctx \in [Fds -> {"none", "hooked", "timed"}]
  /\ waiter \in [Fds -> [Events -> Fibers \cup {NoFiber}]]
  /\ call \in [Fibers -> Calls]
  /\ fault \in {"none", "assert"}

-----------------------------------------------------------------------------
(* The kernel.                                                             *)

Backlog == {k \in Conns : peer[k] = "queued"}
\* A socket that is not connected hangs up, which is both events.
Ready(e, s) ==
  CASE s = Listener -> e = "READ" /\ Backlog # {}
    [] e = "READ"   -> peer[s] \notin {"quiet", "up", "connecting"}
    [] OTHER        -> peer[s] # "connecting"

File(d) == IF d \in Fds THEN file[d] ELSE NoFile
Free    == {d \in Fds : file[d] = NoFile}
NewFd   == CHOOSE d \in Free : \A x \in Free : d <= x
Suits(op, s) == \/ op = "accept" /\ s = Listener
                \/ op = "recv" /\ s \in Conns \cup {Out}
                \/ op = "connect" /\ s = Out

\* What fun(fd) would return now; "error" is EBADF, or EINVAL on another kind
\* of socket.
Outcome(f) ==
  LET s == File(call[f].fd) IN
    IF s = NoFile \/ ~Suits(call[f].op, s) THEN "error"
    ELSE IF Ready(Event(call[f].op), s) THEN "ok" ELSE "EAGAIN"

\* The call is made on a descriptor that blocks: the thread sleeps in the kernel.
Blocks(f) ==
  /\ call[f].at \in {"direct", "try"}
  /\ Outcome(f) = "EAGAIN"
  /\ call[f].fd \in blocking

ClientConnects(k) ==
  /\ peer[k] = "away"
  /\ \E d \in Fds : file[d] = Listener
  /\ peer' = [peer EXCEPT ![k] = "queued"]

PeerActs(k) ==
  /\ peer[k] = "quiet"
  /\ \E s \in {"data", "eof"} : peer' = [peer EXCEPT ![k] = s]

PeerLeaves ==
  /\ peer[Out] = "up"
  /\ peer' = [peer EXCEPT ![Out] = "eof"]

PeerAnswers ==
  /\ peer[Out] = "connecting"
  /\ \E s \in {"up", "refused"} : peer' = [peer EXCEPT ![Out] = s]

\* The kernel gives s the lowest free number; accept4 is not used, so it blocks.
Install(s) ==
  /\ file' = [file EXCEPT ![NewFd] = s]
  /\ blocking' = blocking \cup {NewFd}

-----------------------------------------------------------------------------
(* do_io, and connect_with_timeout, which differs after it was woken.      *)

Step(f, r) == call' = [call EXCEPT ![f] = r]
Finished(f, rt) ==
  [Idle EXCEPT !.at = "done", !.op = call[f].op, !.fd = call[f].fd, !.rt = rt, !.got = call[f].got]

Begin(f, op, d) == Step(f, [Idle EXCEPT !.at = "lookup", !.op = op, !.fd = d])

\* FdMgr::get(fd): without a FdCtx the call is made directly (connect fails).
Lookup(f) ==
  /\ call[f].at = "lookup" /\ call[f].op \in {"accept", "recv", "connect"}
  /\ LET c == IF call[f].fd \in Fds THEN ctx[call[f].fd] ELSE "none" IN
       Step(f, IF c # "none" THEN [call[f] EXCEPT !.at = "try", !.timed = (c = "timed")]
               ELSE IF call[f].op = "connect" THEN Finished(f, "error")
               ELSE [call[f] EXCEPT !.at = "direct"])
  /\ UNCHANGED <<kernelVars, ctx, waiter, fault>>

\* fun(fd) succeeds.
Succeed(f) ==
  \/ /\ call[f].op = "accept"
     /\ \E k \in Backlog :
          /\ Install(k)
          /\ peer' = [peer EXCEPT ![k] = "quiet"]
          /\ Step(f, [Finished(f, "ok") EXCEPT !.at = "made", !.got = NewFd])
     /\ UNCHANGED watched
  \/ /\ call[f].op = "recv"
     /\ LET k == file[call[f].fd] IN
          /\ Step(f, Finished(f, IF peer[k] = "data" THEN "data" ELSE "eof"))
          /\ peer' = [peer EXCEPT ![k] = IF @ = "data" THEN "quiet" ELSE @]
     /\ UNCHANGED <<file, blocking, watched>>
  \/ /\ call[f].op = "connect"
     /\ Step(f, Finished(f, IF peer[Out] = "refused" THEN "error" ELSE "ok"))
     /\ UNCHANGED kernelVars

\* The call without the hooks; EAGAIN goes back to the caller.
Direct(f) ==
  /\ call[f].at = "direct"
  /\ ~Blocks(f)
  /\ \/ Outcome(f) = "ok" /\ Succeed(f)
     \/ Outcome(f) # "ok" /\ Step(f, Finished(f, Outcome(f))) /\ UNCHANGED kernelVars
  /\ UNCHANGED <<ctx, waiter, fault>>

\* The loop of do_io: EINTR and every error but EAGAIN are tried again.
Try(f) ==
  /\ call[f].at = "try"
  /\ ~Blocks(f)
  /\ \/ Outcome(f) = "ok" /\ Succeed(f)
     \/ /\ Outcome(f) = "EAGAIN"
        /\ Step(f, [call[f] EXCEPT !.at = IF call[f].timed THEN "arm" ELSE "add"])
        /\ UNCHANGED kernelVars
     \/ /\ Outcome(f) = "error" /\ call[f].op = "connect"
        /\ Step(f, Finished(f, "error")) /\ UNCHANGED kernelVars
     \/ Outcome(f) = "error" /\ call[f].op # "connect" /\ UNCHANGED hookVars
  /\ UNCHANGED <<ctx, waiter, fault>>

\* The timer is armed, if there is a timeout, before the event is registered.
Arm(f) ==
  /\ call[f].at = "arm"
  /\ Step(f, [call[f] EXCEPT !.at = "add", !.timer = TRUE])
  /\ UNCHANGED <<kernelVars, ctx, waiter, fault>>

\* connect ends by asking for SO_ERROR, which is 0 also while it is connecting.
SoError(f) ==
  IF File(call[f].fd) = Out /\ peer[Out] # "refused" THEN "ok" ELSE "error"

\* addEvent.  epoll knows d as long as the socket for which it was added last;
\* connect only logs that epoll_ctl failed.
Waited(d) == {e \in Events : waiter[d][e] # NoFiber}

Add(f) ==
  /\ call[f].at = "add"
  /\ LET d == call[f].fd
         e == Event(call[f].op)
         Fails == file[d] = NoFile \/ (Waited(d) # {} /\ d \notin watched)
     IN  \/ /\ e \in Waited(d)
            /\ fault' = "assert"
            /\ UNCHANGED <<call, waiter, watched>>
         \/ /\ e \notin Waited(d) /\ Fails
            /\ Step(f, Finished(f, IF call[f].op = "connect" THEN SoError(f) ELSE "error"))
            /\ UNCHANGED <<waiter, watched, fault>>
         \/ /\ e \notin Waited(d) /\ ~Fails
            /\ Step(f, [call[f] EXCEPT !.at = "wait"])
            /\ waiter' = [waiter EXCEPT ![d][e] = f]
            /\ watched' = watched \cup {d}
            /\ UNCHANGED fault
  /\ UNCHANGED <<file, blocking, peer, ctx>>

\* tiggerEvent for the events es of d: who waits for them is scheduled; epoll
\* watches d for the events that are left.
Trigger(d, es, calls) ==
  LET woken == {waiter[d][e] : e \in es \cap Waited(d)} IN
  /\ call' = [f \in Fibers |-> IF f \in woken THEN [calls[f] EXCEPT !.at = "woken"] ELSE calls[f]]
  /\ waiter' = [waiter EXCEPT ![d] = [e \in Events |-> IF e \in es THEN NoFiber ELSE @[e]]]
  /\ watched' = IF Waited(d) \subseteq es THEN watched \ {d} ELSE watched

EventArrives(d) ==
  /\ d \in watched
  /\ \E e \in Waited(d) : Ready(e, file[d]) /\ Trigger(d, {e}, call)
  /\ UNCHANGED <<file, blocking, peer, ctx, fault>>

\* The timer expires and its callback goes to the mission list.
TimerExpires(f) ==
  /\ call[f].timer
  /\ Step(f, [call[f] EXCEPT !.timer = FALSE, !.due = TRUE])
  /\ UNCHANGED <<kernelVars, ctx, waiter, fault>>

\* The callback: cancelled = ETIMEDOUT, then cancelEvent.  That one returns
\* early when the event is the descriptor's only one, and on the connections of
\* the server it is, so nobody is woken.
TimerCallback(f) ==
  /\ call[f].due
  /\ Step(f, [call[f] EXCEPT !.due = FALSE, !.cancelled = TRUE])
  /\ UNCHANGED <<kernelVars, ctx, waiter, fault>>

\* After yieldToHold the timer is cancelled, unless its callback is under way.
Resume(f) ==
  /\ call[f].at = "woken"
  /\ Step(f, IF call[f].cancelled THEN Finished(f, "ETIMEDOUT")
             ELSE IF call[f].op # "connect" THEN [call[f] EXCEPT !.at = "try", !.timer = FALSE]
             ELSE Finished(f, SoError(f)))
  /\ UNCHANGED <<kernelVars, ctx, waiter, fault>>

-----------------------------------------------------------------------------
(* Descriptors come and go.                                                *)

\* socket_f().
Socket(f) ==
  /\ call[f].at = "lookup" /\ call[f].op = "socket"
  /\ Install(Out)
  /\ Step(f, [call[f] EXCEPT !.at = "made", !.got = NewFd])
  /\ UNCHANGED <<watched, peer, ctx, waiter, fault>>

MadeBare(f) ==  \* mutant: accept returns the descriptor as the kernel gave it
  /\ call[f].at = "made"
  /\ Step(f, Finished(f, "ok"))
  /\ UNCHANGED <<kernelVars, ctx, waiter, fault>>

MadeBlocking(f) ==  \* mutant: a new FdCtx leaves the descriptor's flags alone
  /\ call[f].at = "made"
  /\ Step(f, Finished(f, "ok"))
  /\ ctx' = [ctx EXCEPT ![call[f].got] = IF @ = "none" THEN "hooked" ELSE @]
  /\ UNCHANGED <<kernelVars, waiter, fault>>

\* FdMgr::get(fd, true): a new FdCtx sets O_NONBLOCK; one that is there is kept.
Made(f) ==
  /\ call[f].at = "made"
  /\ Step(f, Finished(f, "ok"))
  /\ LET d == call[f].got IN
       /\ ctx' = [ctx EXCEPT ![d] = IF @ = "none" THEN "hooked" ELSE @]
       /\ blocking' = IF ctx[d] = "none" THEN blocking \ {d} ELSE blocking
  /\ UNCHANGED <<file, watched, peer, waiter, fault>>

\* setsockopt(SO_RCVTIMEO).
SetTimeout(d) == ctx' = [ctx EXCEPT ![d] = IF @ = "none" THEN "none" ELSE "timed"]

\* cancelAll(d), in a step that also changes call to calls: nothing without
\* events, and nothing when epoll_ctl fails.
CancelAll(d, calls) ==
  IF d \in watched THEN Trigger(d, Events, calls)
  ELSE call' = calls /\ UNCHANGED <<waiter, watched>>

\* close: get and cancelAll, which may wake fibers ...
CloseCancels(f) ==
  /\ call[f].at = "lookup" /\ call[f].op = "close"
  /\ LET d == call[f].fd IN
       IF ctx[d] = "none"
       THEN Step(f, [call[f] EXCEPT !.at = "close_f"]) /\ UNCHANGED <<waiter, watched>>
       ELSE CancelAll(d, [call EXCEPT ![f].at = "del"])
  /\ UNCHANGED <<file, blocking, peer, ctx, fault>>

CloseKeepsCtx(f) ==  \* mutant: the FdCtx stays in the table
  /\ call[f].at = "del"
  /\ Step(f, [call[f] EXCEPT !.at = "close_f"])
  /\ UNCHANGED <<kernelVars, ctx, waiter, fault>>

\* ... then del ...
CloseDeletes(f) ==
  /\ call[f].at = "del"
  /\ ctx' = [ctx EXCEPT ![call[f].fd] = "none"]
  /\ Step(f, [call[f] EXCEPT !.at = "close_f"])
  /\ UNCHANGED <<kernelVars, waiter, fault>>

\* ... then close_f, after which the number may be handed out again.
CloseKernel(f) ==
  /\ call[f].at = "close_f"
  /\ LET d == call[f].fd IN
       /\ file' = [file EXCEPT ![d] = NoFile]
       /\ blocking' = blocking \ {d}
       /\ watched' = watched \ {d}
       /\ peer' = [s \in Socks |->
                     IF s = file[d] \/ (file[d] = Listener /\ s \in Backlog) THEN "away"
                     ELSE peer[s]]
  /\ Step(f, Finished(f, "ok"))
  /\ UNCHANGED <<ctx, waiter, fault>>

Running(f) ==
  \/ Lookup(f) \/ Direct(f) \/ Try(f) \/ Arm(f) \/ Add(f) \/ Resume(f)
  \/ Socket(f) \/ Made(f) \/ CloseCancels(f) \/ CloseDeletes(f) \/ CloseKernel(f)

=============================================================================
