\* Stakes, delegations and votes on the size of the list and the stake; nobody misses a block.
SPECIFICATION Spec
CONSTANTS
  Validators        = {v1, v2, v3}
  Delegators        = {d1}
  NoAddr            = NoAddr
  GenesisVals       = {v1, v2, v3}
  MinHighest        = 1
  InitMaxValidators = 2
  InitMinStake      = 1
  MinTopUp          = 1
  Misdemeanor       = 1
  Felony            = 2
  LockPeriod        = 4
  UnjailPeriod      = 1
  ClaimPeriod       = 2
  BurnRatio         = 1
  BurnScale         = 4
  PctScale          = 12
  OwnerShare        = 45
  OwnerScale        = 99
  UnjailFee         = 1
  EpochLen          = 2
  Contracts         = {}
  Owners            = {}
  OwnerClaimPeriod  = 2
  StakeAmounts      = {1}
  DepositValues     = {}
  Delegations       <- OneDelegator
  ContractCalls     <- NoCalls
  Missing           = {}
  GovMinStake       = {2}
  GovMaxValidators  = {1, 2}
  MaxBlock          = 6
  MaxStaked         = 4
  MaxBalance        = 8
  v1                = v1
  v2                = v2
  v3                = v3
  d1                = d1
  d2                = d2
  o1                = o1
  o2                = o2
  c1                = c1
  c2                = c2
SYMMETRY Symmetry
CHECK_DEADLOCK FALSE
INVARIANTS
  TypeOK
  ActiveListRight
  FeesPayable
