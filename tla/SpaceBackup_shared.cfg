SPECIFICATION Spec
CONSTANTS
  Entry = {1, 2, 3}
  next <- Fork
  Db = {"todos", "notes"}
  home <- Home
  identity <- Signs
  Known = {32}
  Manifest <- Books
  Access <- Acl
  spaceName <- Names
  payload <- Kinds
  Strategies = {"car", "blocks", "ucan"}
  Plans = {"auto", "space", "stamp", "blocks", "force", "entries", "map", "ucan"}
  Mega = 30
  maxRetries = 2
  Enough = 20
  Faults = {"put", "kill", "list", "fetch", "quota", "remove", "auth"}
  MaxFaults = 1
  MaxBackups = 2
  MaxClears = 1
  MaxRestores = 1
ACTION_CONSTRAINT Bounded
INVARIANTS
  LatestComesBack
  FoundIsRestorable
  BlocksComeBack
  PayloadsComeBack
CHECK_DEADLOCK FALSE
