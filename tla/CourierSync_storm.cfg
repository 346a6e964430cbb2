SPECIFICATION Spec
CONSTANTS
  a = a
  b = b
  c = c
  Peer = {a, b}
  Joiner = {b}
  Entry = {1, 2}
  next <- Line
  Seed <- Rooted
  Manifest = manifest
  Eager = TRUE
  Poking = FALSE
  Slow = TRUE
  MaxOutbox = 1
  Faults = {"lose", "double", "overtake", "send", "open", "stop", "crash"}
  MaxFaults = 1
  Airtime <- Unmetered
INVARIANTS
  ConvergedWhenQuiet
PROPERTIES
  HandedOutWhole
CHECK_DEADLOCK FALSE
