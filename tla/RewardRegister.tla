--------------------------- MODULE RewardRegister ---------------------------
(***************************************************************************)
(* RewardRegister.sol: which account deployed a contract, which account    *)
(* its share of the fees goes to, and what each such owner has not claimed *)
(* yet.  pushContractRecord, checkEligible, distributeRewardToOwners and   *)
(* transferRewardOwner can only be called by BSCValidatorSet, inside one   *)
(* of its transactions: they are operators here, and ValidatorSet builds   *)
(* its actions from them.  eligibleOwners is rewritten by checkEligible    *)
(* before each use, so it is a value passed along and not a variable.      *)
(***************************************************************************)
EXTENDS Integers, Sequences, FiniteSets

CONSTANTS
  Contracts,         \* contract addresses
  Owners,            \* accounts that deploy contracts or receive rewards
  NoAddr,            \* address(0)
  OwnerClaimPeriod   \* REWARD_CLAIMING_PERIOD

ASSUME OwnerAssumption ==
  NoAddr \notin Owners /\ IsFiniteSet(Owners) /\ OwnerClaimPeriod \in Nat

VARIABLES
  rewardAddresses,           \* contract -> account its rewards go to
  rewardAmountOwner,         \* owner -> unclaimed reward
  rewardClaimRecordsOwners,  \* owner -> block of the last claim
  contractsRecord            \* contract -> deployer

register == <<rewardAddresses, rewardAmountOwner, rewardClaimRecordsOwners,
              contractsRecord>>

RegisterInit ==
  /\ rewardAddresses = [c \in Contracts |-> NoAddr]
  /\ rewardAmountOwner = [o \in Owners |-> 0]
  /\ rewardClaimRecordsOwners = [o \in Owners |-> 0]
  /\ contractsRecord = [c \in Contracts |-> NoAddr]

RegisterTypeOK ==
  /\ rewardAddresses \in [Contracts -> Owners \cup {NoAddr}]
  /\ rewardAmountOwner \in [Owners -> Nat]
  /\ rewardClaimRecordsOwners \in [Owners -> Nat]
  /\ contractsRecord \in [Contracts -> Owners \cup {NoAddr}]

\* External: the deployer of a contract says, once, where its rewards go.
registerContract(sender, contractAddr, rewardAddr) ==
  /\ rewardAddresses[contractAddr] = NoAddr
  /\ contractsRecord[contractAddr] = sender
  /\ rewardAddresses' = [rewardAddresses EXCEPT ![contractAddr] = rewardAddr]
  /\ rewardAmountOwner' = [rewardAmountOwner EXCEPT ![rewardAddr] = 0]
  /\ UNCHANGED <<rewardClaimRecordsOwners, contractsRecord>>

pushContractRecord(contAddr, owner) ==
  /\ contractsRecord' = [contractsRecord EXCEPT ![contAddr] = owner]
  /\ UNCHANGED <<rewardAddresses, rewardAmountOwner, rewardClaimRecordsOwners>>

\* The positions of the called contracts that have a registered owner.
checkEligible(contractAddr) ==
  {i \in DOMAIN contractAddr : rewardAddresses[contractAddr[i]] # NoAddr}

\* Every position earns its owner an equal share of rewardOwners.
distributeRewardToOwners(contractAddr, rewardOwners) ==
  LET eligible == checkEligible(contractAddr)
      rewardPerOwner == rewardOwners \div Cardinality(eligible)
  IN  [o \in Owners |-> rewardAmountOwner[o] + rewardPerOwner *
         Cardinality({i \in eligible : rewardAddresses[contractAddr[i]] = o})]

transferRewardOwner(owner, number) ==
  /\ rewardAmountOwner[owner] > 0
  /\ \/ rewardClaimRecordsOwners[owner] = 0
     \/ number >= rewardClaimRecordsOwners[owner] + OwnerClaimPeriod
  /\ rewardClaimRecordsOwners' = [rewardClaimRecordsOwners EXCEPT ![owner] = number]
  /\ rewardAmountOwner' = [rewardAmountOwner EXCEPT ![owner] = 0]
  /\ UNCHANGED <<rewardAddresses, contractsRecord>>

=============================================================================
