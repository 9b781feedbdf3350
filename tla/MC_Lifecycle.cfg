SPECIFICATION FairSpec
CONSTANTS
  Conns = {c1, c2, c3}
  HasIdle = TRUE
  MaxSignals = 2
  MaxFailures = 1
  MaxPanics = 1
INVARIANTS IdleIsQuiet ReturnsClean
PROPERTIES DrainEnds IdleExitsAtZero QueuedIsTaken
