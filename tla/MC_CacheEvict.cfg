SPECIFICATION Spec
CONSTANTS
  Procs = {"m", "r"}
  Keys = {1, 2, 3}
  None = None
  Ops <- MCOps
  Schema <- MCSchema
  Stock <- StockMixed
  Sizes = {1}
  Fresh = 0
  Stale = 1
  MaxEntryBytes = 2
  HardEntries = 2
  HardBytes = 3
  TargetEntries = 3
  TargetBytes = 2
  UnusedAfter = 2
  SweepEvery = 1
  TouchAfter = 0
  MaxTime = 1
  MaxFaults = 0
PROPERTIES ReachesTarget EvictsOldest
