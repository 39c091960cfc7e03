SPECIFICATION FairSpec
CONSTANTS
  d1 = d1
  d2 = d2
  p1 = p1
  p2 = p2
  c1 = c1
  c2 = c2
  NoClient = NoClient
  Fds = {d1, d2}
  Pollers = {p1}
  Clients = {c1, c2}
  Wanted = {"READ", "WRITE"}
  Ops = {}
INVARIANT EpollMatches
INVARIANT ContextMatches
INVARIANT NoFault
PROPERTY ReadyWakes
