SPECIFICATION CarSpec
CONSTANTS
  Key = {k1, k2}
  Val = {v1, v2}
  Caller = {c1, c2}
  FlushThreshold = 2
  MaxCarOps = 4
  MaxCarFaults = 0
PROPERTY
  CloseSaves
CHECK_DEADLOCK FALSE
