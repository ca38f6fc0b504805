\* Two fields that come and go, in the order of either server.
CONSTANTS
  Fields = {f1, f2}
  Nodes = {n1, n2}
  Size = 2
  Resends = 1
SPECIFICATION Spec
CHECK_DEADLOCK FALSE
INVARIANTS
  ScanComplete
  NoGhost
PROPERTIES
  ScanReturns
