CONSTANTS
  k1 = k1
  k2 = k2
  Keys <- MCKeys
  Validators <- MCValidators
  OwnTurn <- MCOwnTurn
  Limit = 2
  resubmitAdjustChanSize = 1
  resultQueueSize = 1
  staleThreshold = 1
  MaxNumber = 2
  MaxOwn = 1
  MaxOthers = 2
  MaxTxs = 1
  MaxUserOps = 2
SPECIFICATION Spec
INVARIANTS
  LoopsRight
  WrittenRight

  
CHECK_DEADLOCK FALSE
