\* Two branches that elect different lists, and a cache of two snapshots.
SPECIFICATION Spec
CONSTANTS
  Addrs     = {1, 2, 3, 4}
  Genesis   = {1, 2, 3}
  Epoch     = 3
  ForkHash  <- OneFork
  Wrap      = 64
  InitContracts <- TwoContracts
  Branches  <- TwoBranches
  checkpointInterval = 2
  inmemorySnapshots = 2
  Self = 3
  MaxCrashes = 1
CHECK_DEADLOCK FALSE
INVARIANTS
  StoreRight
PROPERTIES
  ValidAccepted
