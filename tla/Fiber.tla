------------------------------- MODULE Fiber -------------------------------
(***************************************************************************)
(* Coroutines (GGo::Fiber).  A fiber owns a stack and a saved context; a   *)
(* thread enters it with swapIn and the code running on it leaves with     *)
(* swapOut.  m_state is written by the running fiber BEFORE it leaves its  *)
(* stack, so "the state says suspended" and "nobody is on the stack" are   *)
(* two different facts: fstate is the first, stack the second.             *)
(*                                                                         *)
(* Each operator below is one operation of the class.  Failed assertions   *)
(* (GGO_ASSERT aborts, NDEBUG is never defined) and entering a stack that  *)
(* another thread still executes are recorded in fault; the modules that   *)
(* extend this one take no further step after a fault.                     *)
(***************************************************************************)
CONSTANTS Threads,  \* OS threads that run fibers
          Fibers,   \* Fiber objects
          Jobs,     \* callbacks a fiber may be given
          NoFiber,  \* the null Fiber::ptr
          NoJob     \* the empty std::function

ASSUME NullAssumption == NoFiber \notin Fibers /\ NoJob \notin Jobs

VARIABLES fstate,  \* fstate[f]: m_state
          fcb,     \* fcb[f]: m_cb
          stack,   \* stack[t]: the fiber on whose stack thread t executes,
                   \* NoFiber when t is on its own scheduling fiber
          fault    \* "none", or how the program went wrong

fiberVars == <<fstate, fcb, stack, fault>>

States == {"INIT", "HOLD", "EXEC", "TERM", "READY", "EXCEPT"}

\* The states in which the destructor and reset accept a fiber.
Restable == {"INIT", "TERM", "EXCEPT"}
Ended    == {"TERM", "EXCEPT"}

FiberTypeOK ==
  /\ fstate \in [Fibers -> States]
  /\ fcb \in [Fibers -> Jobs \cup {NoJob}]
  /\ stack \in [Threads -> Fibers \cup {NoFiber}]
  /\ fault \in {"none", "assert", "stack"}

FiberInit ==
  /\ fstate = [f \in Fibers |-> "INIT"]
  /\ fcb = [f \in Fibers |-> NoJob]
  /\ stack = [t \in Threads |-> NoFiber]
  /\ fault = "none"

OnStack(f) == \E t \in Threads : stack[t] = f

Abort == fault' = "assert" /\ UNCHANGED <<fstate, fcb, stack>>
Clobber == fault' = "stack" /\ UNCHANGED <<fstate, fcb, stack>>

\* new Fiber(j): the object f is fresh.
Construct(f, j) ==
  /\ fstate' = [fstate EXCEPT ![f] = "INIT"]
  /\ fcb' = [fcb EXCEPT ![f] = j]
  /\ UNCHANGED <<stack, fault>>

\* reset(j): a new context is built on the old stack, which destroys the
\* frames of a thread that has not left it yet.
Reset(f, j) ==
  \/ fstate[f] \notin Restable /\ Abort
  \/ fstate[f] \in Restable /\ OnStack(f) /\ Clobber
  \/ fstate[f] \in Restable /\ ~OnStack(f) /\ Construct(f, j)

\* swapIn on thread t.  A fiber that has ended has no continuation: its
\* context resumes behind the last swapOut of mainFunc, at the assertion
\* "never reach".
SwapIn(t, f) ==
  \/ fstate[f] \in Ended \cup {"EXEC"} /\ Abort
  \/ fstate[f] \notin Ended \cup {"EXEC"} /\ OnStack(f) /\ Clobber
  \/ /\ fstate[f] \notin Ended \cup {"EXEC"}
     /\ ~OnStack(f)
     /\ fstate' = [fstate EXCEPT ![f] = "EXEC"]
     /\ stack' = [stack EXCEPT ![t] = f]
     /\ UNCHANGED <<fcb, fault>>

\* yieldToReady and yieldToHold up to their swapOut.
Yield(t, s) ==
  \/ fstate[stack[t]] # "EXEC" /\ Abort
  \/ /\ fstate[stack[t]] = "EXEC"
     /\ fstate' = [fstate EXCEPT ![stack[t]] = s]
     /\ UNCHANGED <<fcb, stack, fault>>

\* mainFunc when the callback returned: m_cb is dropped before TERM is set.
Return(t) ==
  /\ fstate' = [fstate EXCEPT ![stack[t]] = "TERM"]
  /\ fcb' = [fcb EXCEPT ![stack[t]] = NoJob]
  /\ UNCHANGED <<stack, fault>>

\* mainFunc when the callback threw: the callback object stays.
Throw(t) ==
  /\ fstate' = [fstate EXCEPT ![stack[t]] = "EXCEPT"]
  /\ UNCHANGED <<fcb, stack, fault>>

\* swapOut: only now has the thread left the fiber's stack.
SwapOut(t) ==
  /\ stack' = [stack EXCEPT ![t] = NoFiber]
  /\ UNCHANGED <<fstate, fcb, fault>>
=============================================================================
