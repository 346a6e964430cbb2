SPECIFICATION ApartSpec
CONSTANTS
  members <- Services
  nameOf <- Names
  carried <- Carried
  kind <- Kinds
  tellsCid = {"storacha"}
  pinners = {"aleph", "storacha"}
  require = "one"
  gateways <- Two
  hashed = {"raw"}
  Device = {phone, laptop}
  skew <- Agree
  endpoints <- Two
  finds <- Reach
  public = {"aleph", "storacha"}
  Secrets = {TRUE, FALSE}
  Plaintext = FALSE
  WithPeers = {TRUE, FALSE}
  Faults = {"refuse", "drop", "kill", "miss", "deaf", "limited", "thrown", "page", "status", "retired", "closed", "short"}
  MaxFaults = 1
  MaxClock = 2
  MaxBackups = 2
  MaxHydrations = 1
  Peer = {"a", "b"}
  Eager = {TRUE, FALSE}
  SeenOps = 2
  MaxPending = 1
  MaxOutbox = 2
  OpsFaults = {"lose", "double", "echo", "overtake", "send", "write", "stop"}
  MaxOpsFaults = 1
  MaxWrites = 2
  MaxPresses = 1
SYMMETRY Writers
ACTION_CONSTRAINT Bounded
INVARIANTS
  CopiesAreRead
  PointsAtWhole
  LastOneWins
  HydrateFinds
  OnceEach
  ChangesArrive
  RepairConverges
CHECK_DEADLOCK FALSE
