SPECIFICATION FairSpec
CONSTANTS
  Db = {d1}
  Entry = {1, 2, 3}
  next <- Fork
  After = 1
  Every = TRUE
  Retains = FALSE
  Keep = TRUE
  Confirm = TRUE
  OwnBlocks = FALSE
  Calls = {"start", "stop", "flush"}
  Faults = {"put", "pin"}
  MaxFaults = 1
  MaxBlobs = 4
  MaxRebases = 0
INVARIANTS
  PersistedWhenQuiet
  UnshippedIsPending
PROPERTY
  EverythingShips
