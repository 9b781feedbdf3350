SPECIFICATION Spec
CONSTANTS
  Callers = {c1, c2}
  Keys = {k1}
  None = None
  Lifetimes <- MCLifetimes
  SweepEvery = 1
  MaxTime = 3
PROPERTY IdleKept
CHECK_DEADLOCK FALSE
