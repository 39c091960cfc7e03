SPECIFICATION FairSpec
CONSTANTS
  w1 = w1
  w2 = w2
  j1 = j1
  j2 = j2
  j3 = j3
  Owner = Owner
  NoJob = NoJob
  Workers = {w1, w2}
  Jobs = {j1, j2}
  Pin <- MCPin
  Spawned = {j2}
  Waits <- MCOnce
  FarTimers = FALSE
INVARIANT NothingLeft
PROPERTY MissonTaken
PROPERTY StopReturns
PROPERTY ImplementsTaskPool
