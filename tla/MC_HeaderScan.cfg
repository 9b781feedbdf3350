SPECIFICATION Spec
CONSTANTS
  Bytes = {1, 2}
  Key <- MCKey
  BufSize = 3
  MaxLen = 8
INVARIANT ScanIsExact
CHECK_DEADLOCK FALSE
