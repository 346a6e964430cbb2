SPECIFICATION Spec
CONSTANTS
  Entry = {1, 2, 3, 4}
  next <- Fork
  Db = {"todos", "notes"}
  home <- Home
  Manifest <- Books
  Access <- Acl
  identity <- Signer
  Own = {31}
  Shapes = {"bundle", "car"}
  Callers = {"app", "direct"}
  RequireHeads = TRUE
  SecondSource = TRUE
  Faults = {"read", "upload", "fetch", "quota"}
  MaxFaults = 1
  MaxBackups = 1
INVARIANTS
  TypeOK
  RefusedTouchesNothing
  SnapshotRestores
  AppJoinsWhatItHas
  NoSilentHead
CHECK_DEADLOCK FALSE
