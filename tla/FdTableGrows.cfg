SPECIFICATION Spec
CONSTANTS
  t1 = t1
  t2 = t2
  t3 = t3
  Threads = {t1, t2, t3}
  Fds = {1, 2, 3, 5}
  InitialSize = 2
  MaxMade = 2
SYMMETRY ThreadSymmetry
INVARIANT FoundUnlessCut
INVARIANT HeldUnlessCut
PROPERTY DropsOnlyLate
