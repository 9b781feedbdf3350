SPECIFICATION FairSpec
CONSTANTS
  s1 = s1
  s2 = s2
  p1 = p1
  p2 = p2
  Services = {s1, s2}
  Programs = {p1, p2}
  MaxFaults = 1
INVARIANTS InstalledServes RemovedIsGone DirIsRemoved BootstrapMeetsNoJob
PROPERTY OperationEnds
