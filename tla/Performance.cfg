SPECIFICATION Spec
CONSTANTS
  Reqs = {1, 2, 3}
  len <- MCLen
  Algs = {SJF, TO}
  performance_values = 2
  MaxTime = 8
INVARIANTS TypeOK RightPeriod AverageInRange ProcessedAgrees LatestPeriods
CHECK_DEADLOCK FALSE
