\* Fees shared among a validator, its delegators and a contract owner; withdrawals, also of
\* what the validator delegates to itself.  The genesis set seals the three blocks.
SPECIFICATION HistorySpec
CONSTANTS
  Validators        = {v1, v2}
  Delegators        = {d1, d2}
  NoAddr            = NoAddr
  GenesisVals       = {v1, v2}
  MinHighest        = 1
  InitMaxValidators = 2
  InitMinStake      = 1
  MinTopUp          = 1
  Misdemeanor       = 1
  Felony            = 2
  LockPeriod        = 2
  UnjailPeriod      = 1
  ClaimPeriod       = 2
  BurnRatio         = 1
  BurnScale         = 4
  PctScale          = 12
  OwnerShare        = 45
  OwnerScale        = 99
  UnjailFee         = 1
  EpochLen          = 1
  Contracts         = {c1}
  Owners            = {o1}
  OwnerClaimPeriod  = 2
  StakeAmounts      = {1}
  DepositValues     = {2, 5}
  Delegations       <- WithSelf
  ContractCalls     <- OneCall
  Missing           = {}
  GovMinStake       = {}
  GovMaxValidators  = {}
  MaxBlock          = 3
  MaxStaked         = 3
  MaxBalance        = 7
  v1                = v1
  v2                = v2
  v3                = v3
  d1                = d1
  d2                = d2
  o1                = o1
  o2                = o2
  c1                = c1
  c2                = c2
CHECK_DEADLOCK FALSE
INVARIANTS
  BooksRight
PROPERTIES
  DelegatorsListed
  HoldingsKept
