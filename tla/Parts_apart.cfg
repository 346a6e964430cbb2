SPECIFICATION Spec
CONSTANTS
  MaxStores = 6
  Foreign = {2, 5}
  Keep = {3}
  PageSize = 2
  Batch = 2
  Asks = 2
  TellsTotal = {TRUE, FALSE}
  Present = {1, 2, 3, 4}
  MaxAccountFaults = 2
  Owner = {o1, o2}
  Delegate = {g1, g2, g3}
  MaxWrites = 4
  MaxGrantFaults = 2
  Key = {k1, k2}
  Val = {v1, v2}
  Caller = {c1, c2}
  FlushThreshold = 2
  MaxCarOps = 4
  MaxCarFaults = 2
  MaxNodes = 3
  MaxCleanups = 1
  MaxPageFaults = 1
  Phone = {p1, p2}
  MaxEntries = 2
  MaxPublished = 2
  MaxStacks = 2
  MaxPhoneFaults = 1
SYMMETRY Phones
INVARIANTS
  ForgetAccounts
  GrantsStand
  FlushedIsSaved
  NoNodeLeaks
  HandlesOpen
  TurnsKeepAll
CHECK_DEADLOCK FALSE
