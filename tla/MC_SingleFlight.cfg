SPECIFICATION FairSpec
CONSTANTS
  Callers = {c1, c2, c3}
  Keys = {k1}
  Flights = {f1, f2}
  None = None
INVARIANTS OneFlightPerKey ResultIsForgotten NoSelfLock
PROPERTIES LandsOnlyItself Answered AbandonedLands
