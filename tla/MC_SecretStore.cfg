SPECIFICATION FairSpec
CONSTANTS
  Callers = {c1, c2}
  Keys = {k1}
  None = None
  Lifetimes <- MCLifetimes
  SweepEvery = 1
  MaxTime = 3
PROPERTIES ServedInAge CallsReturn AgedIsSwept DroppedIsZeroed
CHECK_DEADLOCK FALSE
