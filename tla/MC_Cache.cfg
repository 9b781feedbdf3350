SPECIFICATION FairSpec
CONSTANTS
  Procs = {"w", "r", "m"}
  Keys = {1}
  None = None
  Ops <- MCOps
  Schema <- MCSchema
  Stock <- StockSmall
  Sizes = {1, 3}
  Fresh = 0
  Stale = 1
  MaxEntryBytes = 2
  HardEntries = 0
  HardBytes = 2
  TargetEntries = 0
  TargetBytes = 2
  UnusedAfter = 0
  SweepEvery = 0
  TouchAfter = 0
  MaxTime = 1
  MaxFaults = 1
INVARIANTS WriterKeepsTmp LocksAreOwned
PROPERTIES SweepsAll RemovesWhatItJudged ClearEmpties PruneReturns
