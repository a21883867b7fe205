SPECIFICATION Spec
CONSTANTS
  Callers = {c1, c2, c3}
  Capacity = 2
  Refill = 2
  Cost = 3
  MaxWait = 4
  DailyCap = 3
  DayLength = 5
  Second = 2
  Lag = 0
  MaxTime = 8
SYMMETRY Symmetry
INVARIANTS BucketLaw DailyCapKept AcquireBounded
PROPERTY AdviceSuffices
CHECK_DEADLOCK FALSE
