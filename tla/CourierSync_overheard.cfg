SPECIFICATION Spec
CONSTANTS
  a = a
  b = b
  c = c
  Peer = {a, b, c}
  Joiner = {}
  Entry = {1, 2}
  next <- Line
  Seed <- Stairs
  Manifest = manifest
  Eager = FALSE
  Poking = FALSE
  Slow = FALSE
  MaxOutbox = 2
  Faults = {}
  MaxFaults = 0
  Airtime = 8
INVARIANTS
  LogsAreClosed
PROPERTIES
  Replicates
CHECK_DEADLOCK FALSE
