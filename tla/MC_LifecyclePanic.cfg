SPECIFICATION FairSpec
CONSTANTS
  Conns = {c1, c2}
  HasIdle = TRUE
  MaxSignals = 1
  MaxFailures = 1
  MaxPanics = 1
PROPERTY IdleExits
