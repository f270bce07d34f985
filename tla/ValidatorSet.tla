---------------------------- MODULE ValidatorSet ----------------------------
(***************************************************************************)
(* The staking contract BSCValidatorSet.sol, together with the part of its *)
(* surroundings that decides which calls can reach it: SlashIndicator.sol, *)
(* which forwards a slash at most once per block, RewardRegister.sol, and  *)
(* the Parlia engine, which reads highestValidators at every epoch block   *)
(* and seals with that set a few blocks later.                             *)
(*                                                                         *)
(* One action is one external function of the contract: a transaction is   *)
(* atomic, a failed require, a checked subtraction that underflows, a      *)
(* division by zero or an index out of bounds reverts it as a whole, so    *)
(* each of them is a conjunct of the guard.  block.timestamp and           *)
(* block.number are one clock.  Left out: events, the getters, totalIncome *)
(* (a statistic), preMaxValidators and PunishRecord.index (never read).    *)
(***************************************************************************)
EXTENDS RewardRegister, Functions, Iteration

CONSTANTS
  Validators,       \* accounts that may stake as validators
  Delegators,       \* accounts that may delegate
  GenesisVals,      \* the validator set in the genesis header
  MinHighest,       \* the literal 3 of lines 353, 905 and 978
  InitMaxValidators, InitMinStake,          \* MAXIMUM_VALIDATORS, MINIMUM_STAKE_AMOUNT
  MinTopUp,         \* the literal 100 of line 225
  Misdemeanor, Felony,                      \* misdemeanorThreshold, felonyThreshold
  LockPeriod, UnjailPeriod, ClaimPeriod,    \* the three waiting periods
  BurnRatio, BurnScale, PctScale,           \* burnRatio, BURN_RATIO_SCALE, 10^10
  OwnerShare, OwnerScale,                   \* the literals 45 and 99 of line 166
  UnjailFee,        \* 2000 ether
  EpochLen,         \* Parlia's Epoch
  StakeAmounts, DepositValues,              \* inputs: msg.value
  Delegations,      \* inputs: who may call a delegator's functions for whom
  ContractCalls,    \* inputs: the contracts called in a block
  Missing,          \* inputs: validators that miss blocks
  GovMinStake, GovMaxValidators,            \* inputs: values voted for in GovHub
  MaxBlock, MaxStaked, MaxBalance           \* bounds of the model

Addrs == Validators \cup Delegators

ASSUME AddrAssumption ==
  /\ NoAddr \notin Addrs /\ GenesisVals \subseteq Validators /\ GenesisVals # {}
  /\ IsFiniteSet(Addrs)

ASSUME ParamAssumption ==
  /\ MinHighest \in Nat \ {0}
  /\ InitMaxValidators \in Nat /\ InitMaxValidators >= MinHighest
  /\ InitMinStake \in Nat \ {0} /\ MinTopUp \in Nat
  /\ Misdemeanor \in Nat \ {0} /\ Felony \in Nat \ {0}
  /\ LockPeriod \in Nat /\ UnjailPeriod \in Nat /\ ClaimPeriod \in Nat
  /\ BurnRatio \in Nat /\ BurnScale \in Nat \ {0} /\ BurnRatio <= BurnScale
  /\ OwnerShare \in Nat /\ OwnerScale \in Nat \ {0} /\ OwnerShare <= OwnerScale
  /\ PctScale \in Nat \ {0} /\ UnjailFee \in Nat /\ EpochLen \in Nat \ {0}

\* A stake stays locked for longer than the engine keeps using an old list:
\* 403200 blocks against 200.
ASSUME LockAssumption == LockPeriod >= 2 * EpochLen

ASSUME InputAssumption ==
  /\ StakeAmounts \subseteq Nat /\ DepositValues \subseteq Nat
  /\ Delegations \subseteq Addrs \X Validators
  /\ ContractCalls \subseteq Seq(Contracts) /\ Missing \subseteq Validators
  /\ GovMinStake \subseteq Nat \ {0}
  /\ GovMaxValidators \subseteq Nat /\ \A m \in GovMaxValidators : m >= MinHighest
  /\ MaxBlock \in Nat /\ MaxStaked \in Nat /\ MaxBalance \in Nat

VARIABLES
  validatorInfo,      \* struct Validator per account
  stakingInfo,        \* struct Delegator: stakingInfo[delegator][validator]
  currentValidators,  \* all validators, in order of arrival
  highestValidators,  \* the active validators
  totalDXTStake,
  punishRecord,       \* struct PunishRecord per validator
  punishValidator,    \* validators with a record
  claimedV, claimedD, \* rewardClaimRecordsValidator / ...Delegator
  minimumStakeAmount, maxValidators,
  balance,            \* address(this).balance
  block,              \* block.number, and block.timestamp
  phase,              \* "txs", then the engine's "slashed" and "paid", in a block
  previousHeight,     \* SlashIndicator.previousHeight
  epochVals,          \* the set Parlia read at the last epoch block
  consensusVals       \* the set Parlia seals with

lists     == <<currentValidators, highestValidators>>
punishing == <<punishRecord, punishValidator, previousHeight>>
claims    == <<claimedV, claimedD>>
params    == <<minimumStakeAmount, maxValidators>>
chain     == <<block, phase, epochVals, consensusVals>>
vars == <<validatorInfo, stakingInfo, lists, totalDXTStake, punishing, claims,
          params, balance, chain, register>>

Status == {"NotExist", "Staked", "Unstaked", "Jailed"}

ValidatorRec == [registered : BOOLEAN, status : Status, amount : Nat, coins : Nat,
                 income : Nat, delegators : Seq(Addrs)]
DelegatorRec == [amount : Nat, unstakeBlock : Nat, index : Nat, income : Nat]
PunishRec    == [missedBlockCounter : Nat, jailedTime : Nat, isPunished : BOOLEAN]

-----------------------------------------------------------------------------
(***************************************************************************)
(* The address lists                                                       *)
(***************************************************************************)

isTopValidator(hv, who) == \E i \in DOMAIN hv : hv[i] = who
isActiveValidator(cv, who) == \E i \in DOMAIN cv : cv[i] = who

FirstIndex(s, a) ==
  CHOOSE i \in DOMAIN s : s[i] = a /\ \A j \in DOMAIN s : s[j] = a => i <= j

\* list[k] = list[n - 1]; list.pop()
SwapPop(s, k) ==
  [i \in 1 .. Len(s) - 1 |-> IF i = k THEN s[Len(s)] ELSE s[i]]

RemoveFirst(s, a) ==
  IF \E i \in DOMAIN s : s[i] = a THEN SwapPop(s, FirstIndex(s, a)) ELSE s

\* Slip: one entry too many is protected.
removeFromHighestTooLate(hv, val) ==
  IF Len(hv) <= MinHighest + 1 THEN hv ELSE RemoveFirst(hv, val)

removeFromHighestValidatorList(hv, val) ==
  IF Len(hv) <= MinHighest THEN hv ELSE RemoveFirst(hv, val)

removeFromCurrentValidatorList(cv, val) ==
  IF Len(cv) <= 1 THEN cv ELSE RemoveFirst(cv, val)

removeFromPunishValidator(pv, val) == RemoveFirst(pv, val)

\* Slip: lowIndex is not updated in the loop.
lowestIsFirst(vi, hv) == 1

\* The index of the first entry with the fewest coins; hv must not be empty.
lowestCoinsInHighestValidator(vi, hv) ==
  CHOOSE i \in DOMAIN hv :
    \A j \in DOMAIN hv : /\ vi[hv[i]].coins <= vi[hv[j]].coins
                         /\ j < i => vi[hv[i]].coins < vi[hv[j]].coins

\* Slip: the status of the candidate is not checked.
EligibleEvenJailed(vi, cv, hv, min) ==
  {k \in DOMAIN cv : /\ vi[cv[k]].coins > 0
                     /\ ~ isTopValidator(hv, cv[k])
                     /\ vi[cv[k]].amount >= min}

\* The positions of the candidates for highestValidators.
EligibleIndices(vi, cv, hv, min) ==
  {k \in DOMAIN cv : /\ vi[cv[k]].coins > 0
                     /\ ~ isTopValidator(hv, cv[k])
                     /\ vi[cv[k]].status = "Staked"
                     /\ vi[cv[k]].amount >= min}

highestCoinsInCurrentValidatorsNotInTopValidator(vi, cv, hv, min) ==
  LET E == EligibleIndices(vi, cv, hv, min)
  IN  IF E = {} THEN NoAddr
      ELSE cv[CHOOSE k \in E :
                \A j \in E : /\ vi[cv[k]].coins >= vi[cv[j]].coins
                             /\ j < k => vi[cv[k]].coins > vi[cv[j]].coins]

-----------------------------------------------------------------------------
(***************************************************************************)
(* How highestValidators follows the stakes                                *)
(***************************************************************************)

\* A staked validator enters: there is room, or it beats the lowest entry.
EnterHighest(vi, hv, max, a) ==
  IF isTopValidator(hv, a) THEN hv
  ELSE IF Len(hv) < max THEN Append(hv, a)
  ELSE LET low == lowestCoinsInHighestValidator(vi, hv)
       IN  IF vi[a].coins > vi[hv[low]].coins THEN [hv EXCEPT ![low] = a] ELSE hv

\* Slip: the bound is tested with <=.
PromoteOneTooMany(vi, cv, hv, min, max, floor) ==
  LET high == highestCoinsInCurrentValidatorsNotInTopValidator(vi, cv, hv, min)
  IN  IF Len(hv) <= max /\ high # NoAddr /\ vi[high].coins >= floor
      THEN Append(hv, high) ELSE hv

\* Slip: address(0), the answer when there is no candidate, is pushed as well.
PromoteZeroAddress(vi, cv, hv, min, max, floor) ==
  LET high == highestCoinsInCurrentValidatorsNotInTopValidator(vi, cv, hv, min)
  IN  IF Len(hv) < max THEN Append(hv, high) ELSE hv

\* Room is filled with the best candidate outside the list.
Promote(vi, cv, hv, min, max, floor) ==
  LET high == highestCoinsInCurrentValidatorsNotInTopValidator(vi, cv, hv, min)
  IN  IF Len(hv) < max /\ high # NoAddr /\ vi[high].coins >= floor
      THEN Append(hv, high) ELSE hv

\* The lowest entry gives way to a candidate with more coins.
ReplaceLowest(vi, cv, hv, min) ==
  LET high == highestCoinsInCurrentValidatorsNotInTopValidator(vi, cv, hv, min)
      low  == lowestCoinsInHighestValidator(vi, hv)
  IN  IF high # NoAddr /\ vi[high].coins > vi[hv[low]].coins
      THEN [hv EXCEPT ![low] = high] ELSE hv

-----------------------------------------------------------------------------
(***************************************************************************)
(* Staking                                                                 *)
(***************************************************************************)

\* Which of the branches of stakeValidator credits the stake: the first stake
\* of an account, or a top-up.  Neither one may apply.
FirstStake(v) == validatorInfo[v].amount = 0 /\ validatorInfo[v].status = "NotExist"
TopUp(v) == /\ validatorInfo[v].amount > 0
            /\ validatorInfo[v].status \in {"Staked", "Unstaked"}

CreditedStake(v, x) == IF FirstStake(v) \/ TopUp(v) THEN x ELSE 0

\* Slip: coins grows by the new stake instead of by the addition.
StakeAddedTwice(v, x) ==
  [validatorInfo EXCEPT ![v].registered = @ \/ FirstStake(v),
                        ![v].amount = @ + CreditedStake(v, x),
                        ![v].coins  = @ + validatorInfo[v].amount + CreditedStake(v, x),
                        ![v].status = "Staked"]

StakeAdded(v, x) ==
  [validatorInfo EXCEPT ![v].registered = @ \/ FirstStake(v),
                        ![v].amount = @ + CreditedStake(v, x),
                        ![v].coins  = @ + CreditedStake(v, x),
                        ![v].status = "Staked"]

\* Slip: a top-up leaves the pending unstake in place.
PendingUnstakeKept(v) == stakingInfo

\* A top-up takes back a pending unstake.
PendingUnstakeCancelled(v) ==
  IF TopUp(v) THEN [stakingInfo EXCEPT ![v][v].unstakeBlock = 0] ELSE stakingInfo

stakeValidator(v, x) ==
  LET vi == StakeAdded(v, x)
      hv == EnterHighest(vi, highestValidators, maxValidators, v)
  IN  /\ x > 0 /\ totalDXTStake + x <= MaxStaked
      /\ validatorInfo[v].status # "Jailed"
      /\ FirstStake(v) => x >= minimumStakeAmount
      /\ TopUp(v) => x >= MinTopUp /\ vi[v].amount >= minimumStakeAmount
      /\ validatorInfo' = vi
      /\ stakingInfo' = PendingUnstakeCancelled(v)
      /\ currentValidators' = IF isActiveValidator(currentValidators, v)
                              THEN currentValidators ELSE Append(currentValidators, v)
      /\ highestValidators' = Promote(vi, currentValidators', hv, minimumStakeAmount,
                                      maxValidators, minimumStakeAmount)
      /\ totalDXTStake' = totalDXTStake + x
      /\ balance' = balance + x
      /\ UNCHANGED <<punishing, claims, params, chain, register>>

\* Slip: coins is only updated for a new delegator.
DelegationAddedOnce(d, v, x) ==
  IF stakingInfo[d][v].amount = 0
  THEN [validatorInfo EXCEPT ![v].coins = @ + x, ![v].delegators = Append(@, d)]
  ELSE validatorInfo

DelegationAdded(d, v, x) ==
  [validatorInfo EXCEPT ![v].coins = @ + x,
     ![v].delegators = IF stakingInfo[d][v].amount = 0 THEN Append(@, d) ELSE @]

stakeDelegator(d, v, x) ==
  LET new == stakingInfo[d][v].amount = 0
      vi  == DelegationAdded(d, v, x)
  IN  /\ v # d /\ x > 0 /\ totalDXTStake + x <= MaxStaked
      /\ isActiveValidator(currentValidators, v)
      /\ validatorInfo[v].status = "Staked"
      /\ validatorInfo[v].amount >= minimumStakeAmount
      /\ validatorInfo' = vi
      /\ stakingInfo' = [stakingInfo EXCEPT
           ![d][v].amount = @ + x,
           ![d][v].index  = IF new THEN Len(validatorInfo[v].delegators) ELSE @,
           ![d][v].unstakeBlock = IF new THEN @ ELSE 0]
      /\ highestValidators' = EnterHighest(vi, highestValidators, maxValidators, v)
      /\ totalDXTStake' = totalDXTStake + x
      /\ balance' = balance + x
      /\ UNCHANGED <<currentValidators, punishing, claims, params, chain, register>>

\* Slip: a jailed validator may unstake.
unstakeEvenJailed(v) ==
  LET vi == [validatorInfo EXCEPT ![v].status = "Unstaked"]
      hv == removeFromHighestValidatorList(highestValidators, v)
  IN  /\ validatorInfo[v].status \in {"Staked", "Jailed"}
      /\ stakingInfo[v][v].unstakeBlock = 0
      /\ validatorInfo[v].amount > 0
      /\ Len(highestValidators) > MinHighest
      /\ isActiveValidator(currentValidators, v)
      /\ stakingInfo' = [stakingInfo EXCEPT ![v][v].unstakeBlock = block]
      /\ validatorInfo' = vi
      /\ highestValidators' = Promote(vi, currentValidators, hv, minimumStakeAmount,
                                      maxValidators, 0)
      /\ UNCHANGED <<currentValidators, totalDXTStake, punishing, claims, params,
                     balance, chain, register>>

unstakeValidator(v) ==
  LET vi == [validatorInfo EXCEPT ![v].status = "Unstaked"]
      hv == removeFromHighestValidatorList(highestValidators, v)
  IN  /\ validatorInfo[v].status = "Staked"
      /\ stakingInfo[v][v].unstakeBlock = 0
      /\ validatorInfo[v].amount > 0
      /\ Len(highestValidators) > MinHighest
      /\ isActiveValidator(currentValidators, v)
      /\ stakingInfo' = [stakingInfo EXCEPT ![v][v].unstakeBlock = block]
      /\ validatorInfo' = vi
      /\ highestValidators' = Promote(vi, currentValidators, hv, minimumStakeAmount,
                                      maxValidators, 0)
      /\ UNCHANGED <<currentValidators, totalDXTStake, punishing, claims, params,
                     balance, chain, register>>

unstakeDelegators(d, v) ==
  /\ stakingInfo[d][v].unstakeBlock = 0
  /\ stakingInfo[d][v].amount > 0
  /\ stakingInfo' = [stakingInfo EXCEPT ![d][v].unstakeBlock = block]
  /\ UNCHANGED <<validatorInfo, lists, totalDXTStake, punishing, claims, params,
                 balance, chain, register>>

\* Slip: the index of the entry that moves is not updated.
DelistedOnly(d, v) ==
  LET list == validatorInfo[v].delegators
  IN  [list |-> SwapPop(list, stakingInfo[d][v].index + 1), moved |-> {}]

\* d gives up its place in v's list of delegators: the last entry moves there.
Delisted(d, v) ==
  LET list == validatorInfo[v].delegators
      k    == stakingInfo[d][v].index + 1
  IN  [list  |-> SwapPop(list, k),
       moved |-> IF k # Len(list) THEN {list[Len(list)]} ELSE {}]

withdrawValidatorStaking(v, x) ==
  LET rest == validatorInfo[v].amount - x
      vi == [validatorInfo EXCEPT
               ![v].amount = rest, ![v].coins = @ - x,
               ![v].status = IF rest >= minimumStakeAmount THEN "Staked" ELSE "NotExist"]
      cv == IF rest = 0 /\ vi[v].coins = 0
            THEN removeFromCurrentValidatorList(currentValidators, v)
            ELSE currentValidators
  IN  /\ x <= validatorInfo[v].amount
      /\ stakingInfo[v][v].unstakeBlock # 0
      /\ stakingInfo[v][v].unstakeBlock + LockPeriod <= block
      /\ rest >= minimumStakeAmount \/ (rest = 0 /\ validatorInfo[v].income = 0)
      /\ x <= validatorInfo[v].coins /\ x <= totalDXTStake /\ x <= balance
      /\ highestValidators # << >>
      /\ validatorInfo' = vi
      /\ stakingInfo' = [stakingInfo EXCEPT ![v][v].unstakeBlock = 0]
      /\ currentValidators' = cv
      /\ highestValidators' =
           IF Len(highestValidators) >= maxValidators
           THEN ReplaceLowest(vi, cv, highestValidators, minimumStakeAmount)
           ELSE Promote(vi, cv, highestValidators, minimumStakeAmount, maxValidators, 0)
      /\ totalDXTStake' = totalDXTStake - x
      /\ balance' = balance - x
      /\ UNCHANGED <<punishing, claims, params, chain, register>>

withdrawDelegatorStaking(d, v, x) ==
  LET info == stakingInfo[d][v]
      gone == info.amount = x
      vi == [validatorInfo EXCEPT ![v].coins = @ - x,
               ![v].delegators = IF gone THEN Delisted(d, v).list ELSE @]
      empty == vi[v].coins = 0
  IN  /\ x <= info.amount
      /\ info.unstakeBlock # 0
      /\ info.unstakeBlock + LockPeriod <= block
      /\ x <= validatorInfo[v].coins /\ x <= totalDXTStake /\ x <= balance
      /\ gone => info.index < Len(validatorInfo[v].delegators)
      /\ highestValidators # << >>
      /\ stakingInfo' = [a \in Addrs |-> [stakingInfo[a] EXCEPT
           ![v].amount = IF a = d THEN @ - x ELSE @,
           ![v].unstakeBlock = IF a = d THEN 0 ELSE @,
           ![v].index = IF gone /\ a \in Delisted(d, v).moved THEN info.index ELSE @]]
      /\ highestValidators' =
           ReplaceLowest(vi, currentValidators, highestValidators, minimumStakeAmount)
      /\ validatorInfo' = IF empty THEN [vi EXCEPT ![v].status = "NotExist"] ELSE vi
      /\ currentValidators' = IF empty
                              THEN removeFromCurrentValidatorList(currentValidators, v)
                              ELSE currentValidators
      /\ totalDXTStake' = totalDXTStake - x
      /\ balance' = balance - x
      /\ UNCHANGED <<punishing, claims, params, chain, register>>

-----------------------------------------------------------------------------
(***************************************************************************)
(* Rewards                                                                 *)
(***************************************************************************)

MayClaim(last) == last = 0 \/ block >= last + ClaimPeriod

claimValidatorReward(v) ==
  LET info == validatorInfo[v]
  IN  /\ info.status \notin {"NotExist", "Jailed"}
      /\ info.income > 0 /\ info.income <= balance
      /\ MayClaim(claimedV[v])
      /\ claimedV' = [claimedV EXCEPT ![v] = block]
      /\ validatorInfo' = [validatorInfo EXCEPT ![v].income = 0]
      /\ currentValidators' = IF info.amount = 0 /\ info.coins = 0
                              THEN removeFromCurrentValidatorList(currentValidators, v)
                              ELSE currentValidators
      /\ balance' = balance - info.income
      /\ UNCHANGED <<stakingInfo, highestValidators, totalDXTStake, punishing, claimedD,
                     params, chain, register>>

claimDelegatorReward(d, v) ==
  LET income == stakingInfo[d][v].income
  IN  /\ income > 0 /\ income <= balance
      /\ MayClaim(claimedD[d])
      /\ claimedD' = [claimedD EXCEPT ![d] = block]
      /\ stakingInfo' = [stakingInfo EXCEPT ![d][v].income = 0]
      /\ balance' = balance - income
      /\ UNCHANGED <<validatorInfo, lists, totalDXTStake, punishing, claimedV, params,
                     chain, register>>

claimOwnerReward(o) ==
  /\ rewardAmountOwner[o] <= balance
  /\ transferRewardOwner(o, block)
  /\ balance' = balance - rewardAmountOwner[o]
  /\ UNCHANGED <<validatorInfo, stakingInfo, lists, totalDXTStake, punishing, claims,
                 params, chain>>

\* UpdatedCoins: v's coins without the listed delegations that are unstaking.
UpdatedCoins(v) ==
  LET list == validatorInfo[v].delegators
      leaving == [j \in DOMAIN list |-> IF stakingInfo[list[j]][v].unstakeBlock = 0
                                        THEN 0 ELSE stakingInfo[list[j]][v].amount]
  IN  validatorInfo[v].coins - SumTo(leaving, Len(list))

\* elegibleDel, as positions in v's list of delegators.
elegibleDel(v) ==
  LET list == validatorInfo[v].delegators
  IN  {j \in DOMAIN list : stakingInfo[list[j]][v].unstakeBlock = 0}

\* value * (part / whole), with the code's two roundings.
Share(value, part, whole) == (value * ((part * PctScale) \div whole)) \div PctScale

distributeRewardToDelegators(rewardAmount, v, totalCoins) ==
  LET list == validatorInfo[v].delegators
      entries(a) == Cardinality({j \in elegibleDel(v) : list[j] = a})
  IN  [a \in Addrs |-> [stakingInfo[a] EXCEPT ![v].income =
        IF entries(a) = 0 THEN @
        ELSE @ + entries(a) * Share(rewardAmount, stakingInfo[a][v].amount, totalCoins)]]

\* The fees of a block sealed by v, from the engine: a part is burnt, a part
\* goes to the owners of the contracts called in the block, and the rest to v
\* and those who delegated to it.
deposit(v, amount, calls) ==
  LET burnt   == (amount * BurnRatio) \div BurnScale
      fees    == amount - burnt
      known   == validatorInfo[v].registered
      owned   == known /\ checkEligible(calls) # {}
      owners  == IF owned THEN (fees * OwnerShare) \div OwnerScale ELSE 0
      value   == fees - owners
      shared  == known /\ validatorInfo[v].status \notin {"Jailed", "Unstaked"}
      coins   == UpdatedCoins(v)
      own     == Share(value, validatorInfo[v].amount, coins)
      others  == coins - validatorInfo[v].amount
  IN  /\ phase \in {"txs", "slashed"} /\ amount > 0
      /\ v \in consensusVals
      /\ balance + fees <= MaxBalance
      /\ shared => /\ coins > 0 /\ others >= 0
                   /\ elegibleDel(v) # {} => others > 0
      /\ balance' = balance + fees
      /\ rewardAmountOwner' = IF owned THEN distributeRewardToOwners(calls, owners)
                                       ELSE rewardAmountOwner
      /\ validatorInfo' = IF shared THEN [validatorInfo EXCEPT ![v].income = @ + own]
                                    ELSE validatorInfo
      /\ stakingInfo' = IF shared THEN distributeRewardToDelegators(value - own, v, others)
                                  ELSE stakingInfo
      /\ phase' = "paid"
      /\ UNCHANGED <<lists, totalDXTStake, punishing, claims, params, block, epochVals,
                     consensusVals, rewardAddresses, rewardClaimRecordsOwners,
                     contractsRecord>>

\* The engine reports the sender of a contract creation in this block.
pushContractOwner(c, o) ==
  /\ phase \in {"txs", "slashed"}
  /\ pushContractRecord(c, o)
  /\ phase' = "slashed"
  /\ UNCHANGED <<validatorInfo, stakingInfo, lists, totalDXTStake, punishing, claims,
                 params, balance, block, epochVals, consensusVals>>

-----------------------------------------------------------------------------
(***************************************************************************)
(* Slashing                                                                *)
(***************************************************************************)

\* Slip: the income of v is not reset.
IncomeHandedOutAndKept(vi, hv, v, averageDistribute) ==
  [w \in Validators |-> [vi[w] EXCEPT !.income =
     @ + averageDistribute * Cardinality({i \in DOMAIN hv : hv[i] = w})]]

\* v's income goes in equal parts to every entry of hv, and v is left with none.
distributeRewardIncomeExcept(vi, hv, v, averageDistribute) ==
  [w \in Validators |-> [vi[w] EXCEPT !.income =
     IF w = v THEN 0
     ELSE @ + averageDistribute * Cardinality({i \in DOMAIN hv : hv[i] = w})]]

\* The three outcomes of a missed block.
Jail(v) ==
  LET vi == [validatorInfo EXCEPT ![v].status = "Jailed"]
      hv == Promote(vi, currentValidators,
                    removeFromHighestValidatorList(highestValidators, v),
                    minimumStakeAmount, maxValidators, 0)
  IN  /\ hv # << >>
      /\ highestValidators' = hv
      /\ validatorInfo' = distributeRewardIncomeExcept(vi, hv, v,
                            validatorInfo[v].income \div Len(hv))
      /\ punishRecord' = [punishRecord EXCEPT ![v] =
           [missedBlockCounter |-> 0, jailedTime |-> block, isPunished |-> TRUE]]

ForfeitIncome(v) ==
  /\ Len(highestValidators) > 1
  /\ validatorInfo' = distributeRewardIncomeExcept(validatorInfo, highestValidators, v,
                        validatorInfo[v].income \div (Len(highestValidators) - 1))
  /\ punishRecord' = [punishRecord EXCEPT ![v].missedBlockCounter = @ + 1,
                                          ![v].isPunished = TRUE]
  /\ UNCHANGED highestValidators

CountMiss(v) ==
  /\ punishRecord' = [punishRecord EXCEPT ![v].missedBlockCounter = @ + 1,
                                          ![v].isPunished = TRUE]
  /\ UNCHANGED <<validatorInfo, highestValidators>>

punish(v) ==
  LET missed == punishRecord[v].missedBlockCounter + 1
      felony == missed % Felony = 0
      misdemeanor == missed % Misdemeanor = 0 /\ validatorInfo[v].status # "Jailed"
  IN  /\ punishValidator' = IF punishRecord[v].isPunished THEN punishValidator
                            ELSE Append(punishValidator, v)
      /\ \/ felony /\ Jail(v)
         \/ ~ felony /\ misdemeanor /\ ForfeitIncome(v)
         \/ ~ felony /\ ~ misdemeanor /\ CountMiss(v)

\* The engine slashes the validator whose turn it was, at most once per block.
slash(v) ==
  /\ phase = "txs"
  /\ v \in consensusVals
  /\ block > previousHeight
  /\ punish(v)
  /\ previousHeight' = block
  /\ phase' = "slashed"
  /\ UNCHANGED <<stakingInfo, currentValidators, totalDXTStake, claims, params, balance,
                 block, epochVals, consensusVals, register>>

unJailed(v) ==
  LET vi == [validatorInfo EXCEPT ![v].status = "Staked"]
      room == Len(highestValidators) < maxValidators
  IN  /\ validatorInfo[v].status = "Jailed"
      /\ block >= punishRecord[v].jailedTime + UnjailPeriod
      /\ balance + UnjailFee <= MaxBalance
      /\ room \/ highestValidators # << >>
      /\ validatorInfo' = vi
      /\ highestValidators' =
           IF ~ room THEN ReplaceLowest(vi, currentValidators, highestValidators,
                                        minimumStakeAmount)
           ELSE IF vi[v].amount >= minimumStakeAmount THEN Append(highestValidators, v)
           ELSE highestValidators
      /\ punishRecord' = [punishRecord EXCEPT ![v].jailedTime = 0, ![v].isPunished = FALSE]
      /\ punishValidator' = removeFromPunishValidator(punishValidator, v)
      /\ balance' = balance + UnjailFee
      /\ UNCHANGED <<stakingInfo, currentValidators, totalDXTStake, previousHeight, claims,
                     params, chain, register>>

-----------------------------------------------------------------------------
(***************************************************************************)
(* Values decided by a vote in GovHub                                      *)
(***************************************************************************)

\* Slip: the loop removes entries without the lower limit.
DropLowestAlways(vi, hv) == RemoveFirst(hv, hv[lowestCoinsInHighestValidator(vi, hv)])

DropLowest(vi, hv) ==
  removeFromHighestValidatorList(hv, hv[lowestCoinsInHighestValidator(vi, hv)])

DropPoor(vi, hv, min) ==
  LET step == [s \in Seq(Validators) |->
                 IF /\ Len(s) > MinHighest
                    /\ vi[s[lowestCoinsInHighestValidator(vi, s)]].coins < min
                 THEN DropLowest(vi, s) ELSE s]
  IN  Iterate(step, hv, Len(hv))

DropExcess(vi, hv, n) ==
  LET step == [s \in Seq(Validators) |-> DropLowest(vi, s)]
  IN  Iterate(step, hv, n)

Refill(vi, cv, hv, min, max, floor) ==
  LET step == [s \in Seq(Validators) |-> Promote(vi, cv, s, min, max, floor)]
  IN  IF Len(hv) < max THEN Iterate(step, hv, max - Len(hv)) ELSE hv

updateMinimumStakeAmount(min) ==
  /\ highestValidators # << >>
  /\ minimumStakeAmount' = min
  /\ highestValidators' =
       Refill(validatorInfo, currentValidators, DropPoor(validatorInfo, highestValidators, min),
              min, maxValidators, min)
  /\ UNCHANGED <<validatorInfo, stakingInfo, currentValidators, totalDXTStake, punishing,
                 claims, maxValidators, balance, chain, register>>

updateMaxValidators(max) ==
  LET hv == IF max < maxValidators
            THEN DropExcess(validatorInfo, highestValidators, maxValidators - max)
            ELSE highestValidators
  IN  /\ max < maxValidators => highestValidators # << >>
      /\ maxValidators' = max
      /\ highestValidators' =
           Refill(validatorInfo, currentValidators, hv, minimumStakeAmount, max, 0)
      /\ UNCHANGED <<validatorInfo, stakingInfo, currentValidators, totalDXTStake, punishing,
                     claims, minimumStakeAmount, balance, chain, register>>

-----------------------------------------------------------------------------
(***************************************************************************)
(* The chain                                                               *)
(***************************************************************************)

\* The block is sealed.  The header of an epoch block carries the list that the
\* parent state holds; the engine switches to it len(validators)/2 blocks later.
\* With no validator nobody can seal.
NextBlock ==
  /\ block < MaxBlock /\ consensusVals # {}
  /\ block' = block + 1
  /\ phase' = "txs"
  /\ consensusVals' = IF block % EpochLen = Cardinality(consensusVals) \div 2
                      THEN epochVals ELSE consensusVals
  /\ epochVals' = IF (block + 1) % EpochLen = 0 THEN Range(highestValidators)
                  ELSE epochVals
  /\ UNCHANGED <<validatorInfo, stakingInfo, lists, totalDXTStake, punishing, claims,
                 params, balance, register>>

\* Block 1, after the engine has called init() on the contracts.
Init ==
  /\ validatorInfo = [v \in Validators |->
       [registered |-> FALSE, status |-> "NotExist", amount |-> 0, coins |-> 0,
        income |-> 0, delegators |-> << >>]]
  /\ stakingInfo = [a \in Addrs |-> [v \in Validators |->
       [amount |-> 0, unstakeBlock |-> 0, index |-> 0, income |-> 0]]]
  /\ currentValidators = << >> /\ highestValidators = << >>
  /\ totalDXTStake = 0
  /\ punishRecord = [v \in Validators |->
       [missedBlockCounter |-> 0, jailedTime |-> 0, isPunished |-> FALSE]]
  /\ punishValidator = << >>
  /\ claimedV = [v \in Validators |-> 0] /\ claimedD = [a \in Addrs |-> 0]
  /\ minimumStakeAmount = InitMinStake /\ maxValidators = InitMaxValidators
  /\ balance = 0
  /\ block = 1 /\ phase = "txs" /\ previousHeight = 0
  /\ epochVals = GenesisVals /\ consensusVals = GenesisVals
  /\ RegisterInit

ValidatorTx ==
  \E v \in Validators :
    \/ \E x \in StakeAmounts : stakeValidator(v, x)
    \/ unstakeValidator(v)
    \/ \E x \in 0 .. validatorInfo[v].amount : withdrawValidatorStaking(v, x)
    \/ claimValidatorReward(v)
    \/ unJailed(v)

DelegatorTx ==
  \E d \in Addrs, v \in Validators :
    /\ <<d, v>> \in Delegations
    /\ \/ \E x \in StakeAmounts : stakeDelegator(d, v, x)
       \/ unstakeDelegators(d, v)
       \/ \E x \in 0 .. stakingInfo[d][v].amount : withdrawDelegatorStaking(d, v, x)
       \/ claimDelegatorReward(d, v)

OwnerTx ==
  \E o \in Owners :
    \/ claimOwnerReward(o)
    \/ /\ \E c \in Contracts, r \in Owners : registerContract(o, c, r)
       /\ UNCHANGED <<validatorInfo, stakingInfo, lists, totalDXTStake, punishing, claims,
                      params, balance, chain>>

GovTx ==
  \/ \E m \in GovMinStake : updateMinimumStakeAmount(m)
  \/ \E m \in GovMaxValidators : updateMaxValidators(m)

Transaction == phase = "txs" /\ (ValidatorTx \/ DelegatorTx \/ OwnerTx \/ GovTx)

EngineTx ==
  \/ \E v \in Missing : slash(v)
  \/ \E c \in Contracts, o \in Owners : pushContractOwner(c, o)
  \/ \E v \in Validators, x \in DepositValues, calls \in ContractCalls : deposit(v, x, calls)

Next == Transaction \/ EngineTx \/ NextBlock

Spec == Init /\ [][Next]_vars

-----------------------------------------------------------------------------
(***************************************************************************)
(* Properties                                                              *)
(***************************************************************************)

\* Every mapping, list and counter keeps its type: in particular no unsigned
\* value of the contract ever goes below zero.
TypeOK ==
  /\ validatorInfo \in [Validators -> ValidatorRec]
  /\ stakingInfo \in [Addrs -> [Validators -> DelegatorRec]]
  /\ currentValidators \in Seq(Validators) /\ highestValidators \in Seq(Validators)
  /\ totalDXTStake \in Nat
  /\ punishRecord \in [Validators -> PunishRec]
  /\ punishValidator \in Seq(Validators)
  /\ claimedV \in [Validators -> Nat] /\ claimedD \in [Addrs -> Nat]
  /\ minimumStakeAmount \in Nat \ {0}
  /\ maxValidators \in Nat /\ maxValidators >= MinHighest
  /\ balance \in Nat
  /\ block \in Nat \ {0} /\ phase \in {"txs", "slashed", "paid"} /\ previousHeight \in Nat
  /\ epochVals \subseteq Validators /\ consensusVals \subseteq Validators
  /\ RegisterTypeOK

\* highestValidators never outgrows maxValidators, whichever of staking,
\* delegating, withdrawing, jailing, unjailing or a vote changes it.
HighestBounded == Len(highestValidators) <= maxValidators

\* Once the list has MinHighest entries nothing takes it below: unstaking, jailing
\* and votes all stop removing there, so the engine always finds a set to seal with.
HighestFloorKept ==
  [][Len(highestValidators) >= MinHighest => Len(highestValidators') >= MinHighest]_vars

\* A listed delegator is found where its record's index says, and has a stake: the
\* swap with the last entry in withdrawDelegatorStaking keeps indices and list in
\* step, also when the index is that of somebody who is not in the list.
DelegatorIndexRight ==
  \A v \in Validators : \A i \in DOMAIN validatorInfo[v].delegators :
    LET info == stakingInfo[validatorInfo[v].delegators[i]][v]
    IN  info.index = i - 1 /\ info.amount > 0

\* While nobody is slashed, each active validator is listed once, is one of
\* currentValidators and has the status Staked.
ActiveAreStaked ==
  /\ IsInjective(highestValidators)
  /\ \A v \in Range(highestValidators) :
       isActiveValidator(currentValidators, v) /\ validatorInfo[v].status = "Staked"

\* While nobody is slashed, an eligible validator is outside highestValidators only if
\* the list is full and all its entries have at least as many coins: every operation
\* that moves coins also repairs the list.
RichestAreActive ==
  \A k \in EligibleIndices(validatorInfo, currentValidators, highestValidators,
                           minimumStakeAmount) :
    /\ Len(highestValidators) >= maxValidators
    /\ \A v \in Range(highestValidators) :
         validatorInfo[v].coins >= validatorInfo[currentValidators[k]].coins

\* While nobody is slashed the active list is right: staked validators, once each, and
\* the richest of them, over any order of staking, delegating, withdrawing and votes.
\* Slashing breaks it: ListFaultsKnown and JailEndsKnown say how.
ActiveListRight == ActiveAreStaked /\ RichestAreActive

\* A second entry of a validator in highestValidators comes from one place only:
\* unJailed of a validator that jailing had left in the list.
DuplicateOnlyByUnjail ==
  IsInjective(highestValidators) /\ ~ IsInjective(highestValidators') =>
    \E v \in Range(highestValidators) :
      validatorInfo[v].status = "Jailed" /\ validatorInfo'[v].status = "Staked"

\* While nobody is slashed, the engine can pay out the fees of every block: for no
\* validator that may seal does deposit divide by zero, which would make the block
\* invalid.  An unstake that is pending through a jailing and an unJailed breaks it:
\* the withdrawal leaves an active validator without coins.
FeesPayable ==
  \A v \in consensusVals :
    validatorInfo[v].registered /\ validatorInfo[v].status \notin {"Jailed", "Unstaked"}
      => /\ UpdatedCoins(v) > 0
         /\ UpdatedCoins(v) >= validatorInfo[v].amount
         /\ elegibleDel(v) # {} => UpdatedCoins(v) > validatorInfo[v].amount

JailedActive == {v \in Range(highestValidators) : validatorInfo[v].status = "Jailed"}

ListedTwice(v) ==
  \E i, j \in DOMAIN highestValidators :
    i # j /\ highestValidators[i] = v /\ highestValidators[j] = v

\* Jailing leaves a validator in highestValidators in two cases only: when the list has no
\* more than MinHighest entries, and when it is listed twice, as one entry is removed;
\* and nothing puts a jailed one in.  (Slashing.pdf says that a jailed validator "will be
\* removed from the list of active validators".)
JailedActiveKnown ==
  \A v \in JailedActive' \ JailedActive :
    Len(highestValidators) <= MinHighest \/ ListedTwice(v)

\* With slashing the list goes wrong in two ways only: a jailed validator stays in it at
\* the lower limit, and one that stayed is listed twice when it is unjailed.
ListFaultsKnown == [][JailedActiveKnown /\ DuplicateOnlyByUnjail]_vars

\* A validator leaves jail by unJailed, after the period and with its record cleared; or by
\* a withdrawal after the lock, which overwrites the status: of its own stake, or of the
\* last coins delegated to it.  (Slashing.pdf knows the first only: "Validator can set it
\* to UNJAIL by paying".)
JailEnds ==
  \A v \in Validators :
    validatorInfo[v].status = "Jailed" /\ validatorInfo'[v].status # "Jailed" =>
      \/ /\ block >= punishRecord[v].jailedTime + UnjailPeriod
         /\ ~ punishRecord'[v].isPunished
      \/ \E x \in Addrs : /\ stakingInfo[x][v].unstakeBlock \in 1 .. block - LockPeriod
                          /\ stakingInfo'[x][v].unstakeBlock = 0
                          /\ x = v \/ validatorInfo'[v].coins = 0

\* No other step ends a jail term (unJailed and the two withdrawals).
JailEndsKnown == [][JailEnds]_vars

\* A delegator leaves the list of a validator with its stake withdrawn to the end, or when
\* somebody who is not in the list withdraws: the index in the record is then another's.
\* The first such withdrawal is the validator's, of a delegation to itself that it never
\* made (amount 0, index 0); a delegator it has put out of the list can make the next.
DelistedOnlyEmpty ==
  \A v \in Validators : \A x \in Range(validatorInfo[v].delegators) :
    \/ x \in Range(validatorInfo'[v].delegators)
    \/ stakingInfo'[x][v].amount = 0
    \/ \E y \in Addrs \ Range(validatorInfo[v].delegators) :
         stakingInfo[y][v].unstakeBlock # 0 /\ stakingInfo'[y][v].unstakeBlock = 0

\* Every step leaves the list of a validator's delegators right, entry by entry, and takes
\* out only who has left (withdrawDelegatorStaking).
DelegatorsListed == [][DelegatorIndexRight' /\ DelistedOnlyEmpty]_vars

=============================================================================
