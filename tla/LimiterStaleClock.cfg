SPECIFICATION Spec
CONSTANTS
  Callers = {c1, c2}
  Capacity = 2
  Refill = 2
  Cost = 3
  MaxWait = 4
  DailyCap = 3
  DayLength = 5
  Second = 1
  Lag = 1
  MaxTime = 9
SYMMETRY Symmetry
INVARIANT BucketLaw
CHECK_DEADLOCK FALSE
