CONSTANTS
  w1 = w1
  w2 = w2
  Worker = {w1, w2}
  Master = Master
  c1 = c1
  c2 = c2
  c3 = c3
  c4 = c4
  Check = {c1, c2, c3, c4}
  Bad = {c2}
  BatchSize = 2
  MaxRounds = 2
  MaxStarts = 2
SPECIFICATION FairSpec
INVARIANTS
  CountersExact
  WaitSound
PROPERTIES
  WaitReturns
  StopCompletes
CHECK_DEADLOCK FALSE
