\* One validator is jailed, is unjailed and then listed twice.
SPECIFICATION GovernanceSpec
CONSTANTS
  Validators        = {v1, v2}
  Delegators        = {}
  NoAddr            = NoAddr
  GenesisVals       = {v1, v2}
  MinHighest        = 1
  InitMaxValidators = 2
  InitMinStake      = 1
  MinTopUp          = 1
  Misdemeanor       = 1
  Felony            = 1
  LockPeriod        = 4
  UnjailPeriod      = 1
  ClaimPeriod       = 2
  BurnRatio         = 1
  BurnScale         = 4
  PctScale          = 12
  OwnerShare        = 45
  OwnerScale        = 99
  UnjailFee         = 1
  EpochLen          = 2
  Contracts         = {}
  Owners            = {}
  OwnerClaimPeriod  = 2
  StakeAmounts      = {1}
  DepositValues     = {}
  Delegations       = {}
  ContractCalls     <- NoCalls
  Missing           = {v1}
  GovMinStake       = {1, 2}
  GovMaxValidators  = {1, 2}
  MaxBlock          = 5
  MaxStaked         = 2
  MaxBalance        = 3
  Details           = {t1}
  ProposedValues    = {1}
  LastingPeriod     = 2
  VoteDelay         = 1
  ProposalFee       = 5
  ProposalRefund    = 4
  MaxProposals      = 1
  v1 = v1
  v2 = v2
  v3 = v3
  t1 = t1
CHECK_DEADLOCK FALSE
INVARIANT EnoughVotesPass
