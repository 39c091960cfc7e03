SPECIFICATION FairSpec
CONSTANTS
  p1 = p1
  p2 = p2
  Timers = {1, 2}
  Pollers = {p1, p2}
  Durations = {1, 2}
  Loops = {FALSE}
  MaxWait = 2
  Hour = 0
  ClockBack = TRUE
  MaxTime = 1
  MaxTelling = 1
INVARIANT OneShotOnce
INVARIANT OnTime
PROPERTY CancelledSilent
PROPERTY DueFires
