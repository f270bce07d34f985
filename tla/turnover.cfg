\* Lists of one to five validators follow the genesis set.
SPECIFICATION Spec
CONSTANTS
  Addrs     = {1, 2, 3, 4, 5}
  Genesis   = {1, 2, 3, 4, 5}
  Epoch     = 3
  ForkHash  <- TwoForks
  Wrap      = 64
  Elections <- SomeElections
  MaxNumber = 8
CHECK_DEADLOCK FALSE
INVARIANTS
  SnapshotRight
  RulesAgree
  MajorityCanSeal
  HeldBackOnlyAtChange
PROPERTIES
  ImplementsWindow
  SlashesOnlyIdlers
