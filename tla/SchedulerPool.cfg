SPECIFICATION FairSpec
CONSTANTS
  t1 = t1
  t2 = t2
  f1 = f1
  f2 = f2
  f3 = f3
  f4 = f4
  j1 = j1
  j2 = j2
  j3 = j3
  NoFiber = NoFiber
  NoJob = NoJob
  AnyThread = AnyThread
  Threads = {t1, t2}
  Fibers = {f1, f2, f3}
  Jobs = {j1, j2}
  Pin <- MCPinJ1
  Root = t2
  Spawned = {j2}
  Holding = {}
  MaxYields = 2
INVARIANT NoStackShared
INVARIANT OneWaker
INVARIANT JobInOnePlace
INVARIANT StopDrains
INVARIANT PinHonoured
PROPERTY StopReturns
PROPERTY JobsFinish
PROPERTY ImplementsTaskPool
