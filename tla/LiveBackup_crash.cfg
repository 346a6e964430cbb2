SPECIFICATION Spec
CONSTANTS
  Db = {d1}
  Entry = {1, 2, 3}
  next <- Fork
  After = 1
  Every = TRUE
  Retains = FALSE
  Keep = TRUE
  Confirm = TRUE
  OwnBlocks = TRUE
  Calls = {"flush"}
  Faults = {"load", "own", "heads", "put", "pin", "save", "crash"}
  MaxFaults = 2
  MaxBlobs = 3
  MaxRebases = 0
INVARIANTS
  ShippedIsStored
  PersistedIsStored
  EveryIncrementJoins
  ChainLinks
  NamedChainRestores
PROPERTY
  KeepsPromise
