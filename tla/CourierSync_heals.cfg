SPECIFICATION FairSpec
CONSTANTS
  a = a
  b = b
  c = c
  Peer = {a, b}
  Joiner = {b}
  Entry = {1, 2}
  next <- Line
  Seed <- Rooted
  Manifest = manifest
  Eager = TRUE
  Poking = TRUE
  Slow = FALSE
  MaxOutbox = 2
  Faults = {"lose", "send", "open", "crash", "stop"}
  MaxFaults = 2
  Airtime <- Unmetered
PROPERTIES
  Heals
