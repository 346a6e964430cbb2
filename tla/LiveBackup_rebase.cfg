SPECIFICATION Spec
CONSTANTS
  Db = {d1}
  Entry = {1, 2, 3, 4}
  next <- Lines
  After = 0
  Every = FALSE
  Retains = FALSE
  Keep = TRUE
  Confirm = FALSE
  OwnBlocks = FALSE
  Calls = {"start", "flush", "watch", "stop"}
  Faults = {"heads"}
  MaxFaults = 1
  MaxBlobs = 2
  MaxRebases = 1
ACTION_CONSTRAINT Beside
INVARIANTS
  TypeOK
  ShippedIsUploaded
  UploadsLink
  
