SPECIFICATION Spec
CONSTANTS
  s1 = s1
  s2 = s2
  p1 = p1
  p2 = p2
  Services = {s1}
  Programs = {p1}
  MaxFaults = 1
INVARIANT UninstallStops
