SPECIFICATION Spec
CONSTANTS
  d1 = d1
  d2 = d2
  p1 = p1
  p2 = p2
  c1 = c1
  c2 = c2
  NoClient = NoClient
  Fds = {d1}
  Pollers = {p1, p2}
  Clients = {c1, c2}
  Wanted = {"READ", "WRITE"}
  Ops = {"all", "cancel", "del", "race"}
SYMMETRY FdSymmetry
INVARIANT SchedulerSet
INVARIANT PendingCount
