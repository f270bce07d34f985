\* One validator misses blocks and is jailed; fees are paid; stakes are withdrawn.
\* Three blocks are shorter than any epoch: the genesis set seals all of them.
SPECIFICATION Spec
CONSTANTS
  Validators        = {v1, v2, v3}
  Delegators        = {}
  NoAddr            = NoAddr
  GenesisVals       = {v1, v2, v3}
  MinHighest        = 1
  InitMaxValidators = 2
  InitMinStake      = 1
  MinTopUp          = 1
  Misdemeanor       = 1
  Felony            = 2
  LockPeriod        = 2
  UnjailPeriod      = 1
  ClaimPeriod       = 2
  BurnRatio         = 1
  BurnScale         = 4
  PctScale          = 12
  OwnerShare        = 45
  OwnerScale        = 99
  UnjailFee         = 1
  EpochLen          = 1
  Contracts         = {}
  Owners            = {}
  OwnerClaimPeriod  = 2
  StakeAmounts      = {1}
  DepositValues     = {4}
  Delegations       <- NoDelegations
  ContractCalls     <- NoCalls
  Missing           = {v1}
  GovMinStake       = {}
  GovMaxValidators  = {1, 3}
  MaxBlock          = 3
  MaxStaked         = 3
  MaxBalance        = 6
  v1                = v1
  v2                = v2
  v3                = v3
  d1                = d1
  d2                = d2
  o1                = o1
  o2                = o2
  c1                = c1
  c2                = c2
CHECK_DEADLOCK FALSE
INVARIANTS
  HighestBounded
PROPERTIES
  StakesCredited
  IncomeOnlyMoved
  HighestFloorKept
  ListFaultsKnown
  JailEndsKnown
