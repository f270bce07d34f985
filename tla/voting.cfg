\* Two proposals by one validator, over lists that change, with every order of votes.
SPECIFICATION VotingSpec
CONSTANTS
  Voters         = {a, b, c}
  Proposers      = {a}
  ActiveLists    <- SomeLists
  Coins          <- SomeCoins
  MaxTime        = 4
  Details        = {"t"}
  ProposedValues = {1}
  LastingPeriod  = 2
  VoteDelay      = 1
  ProposalFee    = 5
  ProposalRefund = 4
  MaxProposals   = 2
  a = a
  b = b
  c = c
CHECK_DEADLOCK FALSE
INVARIANTS
  VotesRight
  FeesAccounted
PROPERTIES
  VerdictFinal
