\* One proposal decided by the contracts together, while the validators stake.
SPECIFICATION GovernanceSpec
CONSTANTS
  Validators        = {v1, v2, v3}
  Delegators        = {}
  NoAddr            = NoAddr
  GenesisVals       = {v1, v2, v3}
  MinHighest        = 1
  InitMaxValidators = 2
  InitMinStake      = 1
  MinTopUp          = 1
  Misdemeanor       = 1
  Felony            = 2
  LockPeriod        = 4
  UnjailPeriod      = 1
  ClaimPeriod       = 2
  BurnRatio         = 1
  BurnScale         = 4
  PctScale          = 12
  OwnerShare        = 45
  OwnerScale        = 99
  UnjailFee         = 1
  EpochLen          = 2
  Contracts         = {}
  Owners            = {}
  OwnerClaimPeriod  = 2
  StakeAmounts      = {1}
  DepositValues     = {}
  Delegations       = {}
  ContractCalls     <- NoCalls
  Missing           = {}
  GovMinStake       = {1, 2}
  GovMaxValidators  = {1, 2}
  MaxBlock          = 3
  MaxStaked         = 3
  MaxBalance        = 3
  Details           = {t1}
  ProposedValues    = {0, 1, 2}
  LastingPeriod     = 2
  VoteDelay         = 1
  ProposalFee       = 5
  ProposalRefund    = 4
  MaxProposals      = 1
  v1 = v1
  v2 = v2
  v3 = v3
  t1 = t1
SYMMETRY Symmetry
CHECK_DEADLOCK FALSE
PROPERTIES
  ImplementsValidatorSet
