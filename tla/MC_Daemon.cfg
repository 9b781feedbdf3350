SPECIFICATION FairSpec
CONSTANTS
  c1 = c1
  Calls = {c1}
  ClientMax = 3
  ServerMax = 2
  RequestSizes = {2, 3, 4}
  ResponseSizes = {3, 4}
  Buffer = 2
  Chunk = 2
  HasIdle = TRUE
  MaxSignals = 1
  MaxPanics = 1
INVARIANTS CapIsExact LossIsExplained IdleNeverCuts
PROPERTIES CallReturns ConnectionEnds ImplementsLifecycle
