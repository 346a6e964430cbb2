SPECIFICATION Spec
CONSTANTS
  Db = {d1}
  Entry = {1, 2}
  next <- Line
  After = 0
  Every = FALSE
  Retains = FALSE
  Keep = TRUE
  Confirm = FALSE
  OwnBlocks = FALSE
  Calls = {"start", "flush"}
  Faults = {}
  MaxFaults = 1
  MaxBlobs = 2
  MaxRebases = 1
INVARIANT RebaseStartsOver
