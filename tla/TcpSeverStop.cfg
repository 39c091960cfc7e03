SPECIFICATION FairSpec
CONSTANTS
  k1 = k1
  Fds = {3, 4, 5}
  Conns = {k1}
  Listener = Listener
  Out = Out
  Fibers <- ServerFibers
  NoFile = NoFile
  NoFiber = NoFiber
  NoFd = NoFd
  Acceptor = Acceptor
  Closer = Closer
  Client = Client
  Timed = TRUE
  OneAcceptThread = TRUE
PROPERTY StopEnds
CHECK_DEADLOCK FALSE
