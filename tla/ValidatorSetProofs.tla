------------------------- MODULE ValidatorSetProofs -------------------------
(***************************************************************************)
(* Proofs about ValidatorSet, for all values of its constants: the types,  *)
(* and the two bounds on highestValidators.                                *)
(***************************************************************************)
EXTENDS ValidatorListProofs

(***************************************************************************)
(* Updates of a field keep the types of the two mappings                   *)
(***************************************************************************)

VI == [Validators -> ValidatorRec]
SI == [Addrs -> [Validators -> DelegatorRec]]

\* The fields of a validator's record.
LEMMA ValidatorFields ==
  ASSUME NEW f \in VI, NEW v \in Validators
  PROVE  /\ f[v].registered \in BOOLEAN /\ f[v].status \in Status
         /\ f[v].amount \in Nat /\ f[v].coins \in Nat /\ f[v].income \in Nat
         /\ f[v].delegators \in Seq(Addrs)
<1>1. f[v] \in ValidatorRec
  BY DEF VI
<1> QED BY <1>1, Zenon DEF ValidatorRec

\* A field of a validator's record set to a value of its type.
LEMMA ValidatorUpdate ==
  ASSUME NEW f \in VI, NEW v \in Validators
  PROVE  /\ \A b \in BOOLEAN : [f EXCEPT ![v].registered = b] \in VI
         /\ \A st \in Status : [f EXCEPT ![v].status = st] \in VI
         /\ \A n \in Nat : [f EXCEPT ![v].amount = n] \in VI
         /\ \A n \in Nat : [f EXCEPT ![v].coins = n] \in VI
         /\ \A n \in Nat : [f EXCEPT ![v].income = n] \in VI
         /\ \A l \in Seq(Addrs) : [f EXCEPT ![v].delegators = l] \in VI
<1>1. f[v] \in ValidatorRec
  BY DEF VI
<1>2. ASSUME NEW b \in BOOLEAN PROVE [f EXCEPT ![v].registered = b] \in VI
  <2>1. [f[v] EXCEPT !.registered = b] \in ValidatorRec
    BY <1>1 DEF ValidatorRec
  <2> QED BY <2>1 DEF VI
<1>3. ASSUME NEW st \in Status PROVE [f EXCEPT ![v].status = st] \in VI
  <2>1. [f[v] EXCEPT !.status = st] \in ValidatorRec
    BY <1>1 DEF ValidatorRec
  <2> QED BY <2>1 DEF VI
<1>4. ASSUME NEW n \in Nat PROVE [f EXCEPT ![v].amount = n] \in VI
  <2>1. [f[v] EXCEPT !.amount = n] \in ValidatorRec
    BY <1>1 DEF ValidatorRec
  <2> QED BY <2>1 DEF VI
<1>5. ASSUME NEW n \in Nat PROVE [f EXCEPT ![v].coins = n] \in VI
  <2>1. [f[v] EXCEPT !.coins = n] \in ValidatorRec
    BY <1>1 DEF ValidatorRec
  <2> QED BY <2>1 DEF VI
<1>6. ASSUME NEW n \in Nat PROVE [f EXCEPT ![v].income = n] \in VI
  <2>1. [f[v] EXCEPT !.income = n] \in ValidatorRec
    BY <1>1 DEF ValidatorRec
  <2> QED BY <2>1 DEF VI
<1>7. ASSUME NEW l \in Seq(Addrs) PROVE [f EXCEPT ![v].delegators = l] \in VI
  <2>1. [f[v] EXCEPT !.delegators = l] \in ValidatorRec
    BY <1>1, SMTT(30) DEF ValidatorRec
  <2> QED BY <2>1 DEF VI
<1> QED BY <1>2, <1>3, <1>4, <1>5, <1>6, <1>7

\* The fields of a delegator's record.
LEMMA DelegatorFields ==
  ASSUME NEW f \in SI, NEW d \in Addrs, NEW v \in Validators
  PROVE  /\ f[d][v] \in DelegatorRec
         /\ f[d][v].amount \in Nat /\ f[d][v].unstakeBlock \in Nat
         /\ f[d][v].index \in Nat /\ f[d][v].income \in Nat
<1>1. f[d][v] \in DelegatorRec
  BY DEF SI
<1> QED BY <1>1 DEF DelegatorRec

\* A field of a delegator's record set to a value of its type.
LEMMA DelegatorUpdate ==
  ASSUME NEW f \in [Validators -> DelegatorRec], NEW v \in Validators, NEW n \in Nat
  PROVE  /\ [f EXCEPT ![v].amount = n] \in [Validators -> DelegatorRec]
         /\ [f EXCEPT ![v].unstakeBlock = n] \in [Validators -> DelegatorRec]
         /\ [f EXCEPT ![v].index = n] \in [Validators -> DelegatorRec]
         /\ [f EXCEPT ![v].income = n] \in [Validators -> DelegatorRec]
<1>1. f[v] \in DelegatorRec
  OBVIOUS
<1>2. [f[v] EXCEPT !.amount = n] \in DelegatorRec
  BY <1>1 DEF DelegatorRec
<1>3. [f[v] EXCEPT !.unstakeBlock = n] \in DelegatorRec
  BY <1>1 DEF DelegatorRec
<1>4. [f[v] EXCEPT !.index = n] \in DelegatorRec
  BY <1>1 DEF DelegatorRec
<1>5. [f[v] EXCEPT !.income = n] \in DelegatorRec
  BY <1>1 DEF DelegatorRec
<1> QED BY <1>2, <1>3, <1>4, <1>5

(***************************************************************************)
(* Every action keeps the types, and what it does to highestValidators     *)
(***************************************************************************)

\* A step keeps the list within maxValidators and does not take it below
\* MinHighest.
ListStep ==
  /\ HighestBounded => HighestBounded'
  /\ Len(highestValidators) >= MinHighest => Len(highestValidators') >= MinHighest

\* The records of a well-typed validatorInfo have coins.
LEMMA CoinsOfType ==
  ASSUME NEW f \in VI
  PROVE  CoinsOK(f)
BY ValidatorFields DEF CoinsOK

\* The facts of TypeOK that the list operations use.
LEMMA TypeFacts ==
  ASSUME TypeOK
  PROVE  /\ validatorInfo \in VI /\ stakingInfo \in SI /\ CoinsOK(validatorInfo)
         /\ currentValidators \in Seq(Validators) /\ highestValidators \in Seq(Validators)
         /\ maxValidators \in Nat /\ maxValidators > 0 /\ maxValidators >= MinHighest
         /\ MinHighest \in Nat /\ MinHighest > 0
         /\ block \in Nat /\ balance \in Nat /\ totalDXTStake \in Nat
         /\ Validators \subseteq Addrs
<1>1. validatorInfo \in VI /\ stakingInfo \in SI
  BY DEF TypeOK, VI, SI
<1>2. CoinsOK(validatorInfo)
  BY <1>1, CoinsOfType
<1>3. MinHighest \in Nat /\ MinHighest > 0
  BY ParamAssumption
<1> QED BY <1>1, <1>2, <1>3 DEF TypeOK, Addrs

\* A step that leaves the list and its limit alone is a ListStep.
LEMMA ListUnchanged ==
  ASSUME highestValidators' = highestValidators, maxValidators' = maxValidators
  PROVE  ListStep
BY DEF ListStep, HighestBounded

\* stakeValidator: the credited stake, the pending unstake it cancels and the two changes
\* of the list.
LEMMA StakeValidatorStep ==
  ASSUME TypeOK, NEW v \in Validators, NEW x \in StakeAmounts, stakeValidator(v, x)
  PROVE  TypeOK' /\ ListStep
<1> DEFINE vi == StakeAdded(v, x)
           hv == EnterHighest(vi, highestValidators, maxValidators, v)
<1> USE TypeFacts
<1>0. x \in Nat /\ v \in Addrs
  BY InputAssumption, SMTT(30)
<1>1. vi \in VI
  <2> DEFINE c  == CreditedStake(v, x)
             f1 == [validatorInfo EXCEPT ![v].registered = @ \/ FirstStake(v)]
             f2 == [f1 EXCEPT ![v].amount = @ + c]
             f3 == [f2 EXCEPT ![v].coins  = @ + c]
  <2>1. c \in Nat
    BY <1>0 DEF CreditedStake
  <2>2. f1 \in VI
    BY ValidatorUpdate, Zenon
  <2>3. f2 \in VI
    <3> HIDE DEF c, f1
    <3>1. f1[v].amount + c \in Nat
      <4>1. f1[v].amount \in Nat
        BY <2>2, ValidatorFields, Zenon
      <4> QED BY <2>1, <4>1, SumIsNat, Zenon
    <3> QED BY <2>2, <3>1, ValidatorUpdate
  <2>4. f3 \in VI
    <3> HIDE DEF c, f2
    <3>1. f2[v].coins + c \in Nat
      <4>1. f2[v].coins \in Nat
        BY <2>3, ValidatorFields, Zenon
      <4> QED BY <2>1, <4>1, SumIsNat, Zenon
    <3> QED BY <2>3, <3>1, ValidatorUpdate
  <2>5. [f3 EXCEPT ![v].status = "Staked"] \in VI
    <3> HIDE DEF f3
    <3>1. "Staked" \in Status
      BY DEF Status
    <3> QED BY <2>4, <3>1, ValidatorUpdate
  <2>6. vi = [f3 EXCEPT ![v].status = "Staked"]
    BY DEF StakeAdded, VI
  <2> QED BY <2>5, <2>6
<1>2. stakingInfo' \in SI
  <2>1. stakingInfo' = stakingInfo \/ stakingInfo' = [stakingInfo EXCEPT ![v][v].unstakeBlock = 0]
    BY DEF stakeValidator, PendingUnstakeCancelled
  <2>2. stakingInfo[v] \in [Validators -> DelegatorRec]
    BY <1>0 DEF SI
  <2>3. [stakingInfo[v] EXCEPT ![v].unstakeBlock = 0] \in [Validators -> DelegatorRec]
    BY <2>2, DelegatorUpdate, Zenon
  <2> QED BY <1>0, <2>1, <2>3, Zenon DEF SI
<1>3. currentValidators' \in Seq(Validators)
  BY DEF stakeValidator
<1>4. CoinsOK(vi) /\ maxValidators' = maxValidators
  BY <1>1, CoinsOfType DEF stakeValidator, params
<1> HIDE DEF vi
<1>6. /\ hv \in Seq(Validators) /\ Len(hv) >= Len(highestValidators)
      /\ Len(highestValidators) <= maxValidators => Len(hv) <= maxValidators
  BY <1>4, EnterHighestFacts, Zenon
<1> HIDE DEF hv
<1>7. highestValidators' = Promote(vi, currentValidators', hv, minimumStakeAmount,
                                   maxValidators, minimumStakeAmount)
  BY DEF stakeValidator, vi, hv
<1>8. /\ highestValidators' \in Seq(Validators)
      /\ Len(highestValidators') >= Len(hv)
      /\ Len(hv) <= maxValidators => Len(highestValidators') <= maxValidators
  BY <1>3, <1>4, <1>6, <1>7, PromoteFacts
<1>9. ListStep
  BY <1>4, <1>6, <1>8 DEF ListStep, HighestBounded
<1>10. validatorInfo' = vi /\ totalDXTStake' \in Nat /\ balance' \in Nat
  <2>1. /\ validatorInfo' = vi
        /\ totalDXTStake' = totalDXTStake + x /\ balance' = balance + x
    BY DEF stakeValidator, vi
  <2> QED BY <1>0, <2>1, SumIsNat, Zenon
<1>11. UNCHANGED <<punishing, claims, params, chain, register>>
  BY DEF stakeValidator
<1>12. TypeOK'
  BY <1>1, <1>2, <1>3, <1>8, <1>10, <1>11, Zenon
     DEF TypeOK, VI, SI, RegisterTypeOK, punishing, claims, params, chain, register
<1> QED BY <1>9, <1>12

\* stakeDelegator: the delegation, its index, and the validator's place in the list.
LEMMA StakeDelegatorStep ==
  ASSUME TypeOK, NEW d \in Addrs, NEW v \in Validators, NEW x \in StakeAmounts,
         stakeDelegator(d, v, x)
  PROVE  TypeOK' /\ ListStep
<1> DEFINE vi == DelegationAdded(d, v, x)
<1> USE TypeFacts
<1>0. x \in Nat
  BY InputAssumption
<1>1. vi \in VI
  <2> DEFINE l  == IF stakingInfo[d][v].amount = 0
                   THEN Append(validatorInfo[v].delegators, d)
                   ELSE validatorInfo[v].delegators
             f1 == [validatorInfo EXCEPT ![v].coins = @ + x]
  <2>1. l \in Seq(Addrs)
    BY ValidatorFields
  <2>2. f1 \in VI
    <3>1. validatorInfo[v].coins + x \in Nat
      <4>1. validatorInfo[v].coins \in Nat
        BY ValidatorFields, Zenon
      <4> QED BY <1>0, <4>1, SumIsNat, Zenon
    <3> QED BY <3>1, ValidatorUpdate
  <2>3. [f1 EXCEPT ![v].delegators = l] \in VI
    <3> HIDE DEF f1, l
    <3> QED BY <2>1, <2>2, ValidatorUpdate
  <2>4. vi = [f1 EXCEPT ![v].delegators = l]
    BY DEF DelegationAdded, VI
  <2> QED BY <2>3, <2>4
<1>2. stakingInfo' \in SI
  <2> DEFINE new == stakingInfo[d][v].amount = 0
             k  == IF new THEN Len(validatorInfo[v].delegators) ELSE stakingInfo[d][v].index
             u  == IF new THEN stakingInfo[d][v].unstakeBlock ELSE 0
             n  == stakingInfo[d][v].amount + x
             g0 == stakingInfo[d]
             g1 == [g0 EXCEPT ![v].amount = n]
             g2 == [g1 EXCEPT ![v].index = k]
             g3 == [g2 EXCEPT ![v].unstakeBlock = u]
  <2>1. n \in Nat /\ k \in Nat /\ u \in Nat
    <3>1. validatorInfo[v].delegators \in Seq(Addrs)
      BY ValidatorFields
    <3>2. Len(validatorInfo[v].delegators) \in Nat
      BY <3>1
    <3>3. /\ stakingInfo[d][v].amount \in Nat /\ stakingInfo[d][v].index \in Nat
          /\ stakingInfo[d][v].unstakeBlock \in Nat
      BY DelegatorFields
    <3>4. n \in Nat
      <4>1. \A a, b \in Nat : a + b \in Nat
        OBVIOUS
      <4> HIDE TypeFacts
      <4> QED BY <1>0, <3>3, <4>1
    <3>5. k \in Nat
      BY <3>2, <3>3
    <3>6. u \in Nat
      BY <3>3
    <3> QED BY <3>4, <3>5, <3>6
  <2>2. g0 \in [Validators -> DelegatorRec]
    BY DEF SI
  <2> HIDE DEF n, k, u
  <2>3. g1 \in [Validators -> DelegatorRec]
    BY <2>1, <2>2, DelegatorUpdate, Zenon
  <2>4. g2 \in [Validators -> DelegatorRec]
    <3> HIDE DEF g1
    <3> QED BY <2>1, <2>3, DelegatorUpdate, Zenon
  <2>5. g3 \in [Validators -> DelegatorRec]
    <3> HIDE DEF g2
    <3> QED BY <2>1, <2>4, DelegatorUpdate, Zenon
  <2>6. stakingInfo' = [stakingInfo EXCEPT ![d] = g3]
    BY Zenon DEF stakeDelegator, SI, n, k, u
  <2> HIDE DEF g3
  <2> QED BY <2>5, <2>6 DEF SI
<1>3. CoinsOK(vi) /\ maxValidators' = maxValidators
  BY <1>1, CoinsOfType, SMTT(30) DEF stakeDelegator, params
<1> HIDE DEF vi
<1>4. highestValidators' = EnterHighest(vi, highestValidators, maxValidators, v)
  BY DEF stakeDelegator, vi
<1>5. /\ highestValidators' \in Seq(Validators)
      /\ Len(highestValidators') >= Len(highestValidators)
      /\ Len(highestValidators) <= maxValidators => Len(highestValidators') <= maxValidators
  BY <1>3, <1>4, EnterHighestFacts, Zenon
<1>6. ListStep
  BY <1>3, <1>5 DEF ListStep, HighestBounded
<1>7. validatorInfo' = vi /\ totalDXTStake' \in Nat /\ balance' \in Nat
  <2>1. /\ validatorInfo' = vi
        /\ totalDXTStake' = totalDXTStake + x /\ balance' = balance + x
    BY Zenon DEF stakeDelegator, vi
  <2> QED BY <1>0, <2>1, SumIsNat, Zenon
<1>8. UNCHANGED <<currentValidators, punishing, claims, params, chain, register>>
  BY Zenon DEF stakeDelegator
<1>9. TypeOK'
  BY <1>1, <1>2, <1>5, <1>7, <1>8, Zenon
     DEF TypeOK, VI, SI, RegisterTypeOK, punishing, claims, params, chain, register
<1> QED BY <1>6, <1>9

\* unstakeValidator: one entry goes, at most one comes.
LEMMA UnstakeValidatorStep ==
  ASSUME TypeOK, NEW v \in Validators, unstakeValidator(v)
  PROVE  TypeOK' /\ ListStep
<1> DEFINE vi == [validatorInfo EXCEPT ![v].status = "Unstaked"]
           hv == removeFromHighestValidatorList(highestValidators, v)
<1> USE TypeFacts
<1>1. vi \in VI
  <2>1. "Unstaked" \in Status
    BY DEF Status
  <2> QED BY <2>1, ValidatorUpdate
<1>2. stakingInfo' \in SI
  <2>1. stakingInfo[v] \in [Validators -> DelegatorRec]
    BY DEF SI
  <2>2. [stakingInfo[v] EXCEPT ![v].unstakeBlock = block] \in [Validators -> DelegatorRec]
    BY <2>1, DelegatorUpdate, Zenon
  <2>3. stakingInfo' = [stakingInfo EXCEPT ![v][v].unstakeBlock = block]
    BY DEF unstakeValidator
  <2> QED BY <2>2, <2>3 DEF SI
<1>3. CoinsOK(vi) /\ maxValidators' = maxValidators
  BY <1>1, CoinsOfType DEF unstakeValidator, params
<1> HIDE DEF vi
<1>4. /\ hv \in Seq(Validators) /\ Len(hv) <= Len(highestValidators)
      /\ Len(highestValidators) >= MinHighest => Len(hv) >= MinHighest
  BY RemoveFromHighestFacts
<1> HIDE DEF hv
<1>5. highestValidators' = Promote(vi, currentValidators, hv, minimumStakeAmount,
                                   maxValidators, 0)
  BY DEF unstakeValidator, vi, hv
<1>6. /\ highestValidators' \in Seq(Validators)
      /\ Len(highestValidators') >= Len(hv)
      /\ Len(hv) <= maxValidators => Len(highestValidators') <= maxValidators
  BY <1>3, <1>4, <1>5, PromoteFacts
<1>7. ListStep
  BY <1>3, <1>4, <1>6 DEF ListStep, HighestBounded
<1>8. /\ validatorInfo' = vi
      /\ UNCHANGED <<currentValidators, totalDXTStake, punishing, claims, params,
                     balance, chain, register>>
  BY DEF unstakeValidator, vi
<1>9. TypeOK'
  BY <1>1, <1>2, <1>6, <1>8, Zenon
     DEF TypeOK, VI, SI, RegisterTypeOK, punishing, claims, params, chain, register
<1> QED BY <1>7, <1>9

\* unstakeDelegators only marks the delegation.
LEMMA UnstakeDelegatorsStep ==
  ASSUME TypeOK, NEW d \in Addrs, NEW v \in Validators, unstakeDelegators(d, v)
  PROVE  TypeOK' /\ ListStep
<1> USE TypeFacts
<1>1. stakingInfo' \in SI
  <2>1. stakingInfo[d] \in [Validators -> DelegatorRec]
    BY DEF SI
  <2>2. [stakingInfo[d] EXCEPT ![v].unstakeBlock = block] \in [Validators -> DelegatorRec]
    BY <2>1, DelegatorUpdate, Zenon
  <2>3. stakingInfo' = [stakingInfo EXCEPT ![d][v].unstakeBlock = block]
    BY DEF unstakeDelegators
  <2> QED BY <2>2, <2>3 DEF SI
<1>2. UNCHANGED <<validatorInfo, lists, totalDXTStake, punishing, claims, params,
                  balance, chain, register>>
  BY DEF unstakeDelegators
<1>3. TypeOK'
  BY <1>1, <1>2, SMTT(30)
     DEF TypeOK, SI, RegisterTypeOK, lists, punishing, claims, params, chain, register
<1> QED BY <1>2, <1>3, ListUnchanged DEF lists, params

\* withdrawValidatorStaking: the checked subtractions, and the lowest entry replaced or
\* a free place filled.
LEMMA WithdrawValidatorStep ==
  ASSUME TypeOK, NEW v \in Validators, NEW x \in 0 .. validatorInfo[v].amount,
         withdrawValidatorStaking(v, x)
  PROVE  TypeOK' /\ ListStep
<1> DEFINE rest == validatorInfo[v].amount - x
           st == IF rest >= minimumStakeAmount THEN "Staked" ELSE "NotExist"
           f1 == [validatorInfo EXCEPT ![v].amount = rest]
           f2 == [f1 EXCEPT ![v].coins = @ - x]
           vi == [f2 EXCEPT ![v].status = st]
<1> USE TypeFacts
<1>0. /\ x \in Nat /\ rest \in Nat /\ x <= validatorInfo[v].coins /\ x <= totalDXTStake
      /\ x <= balance /\ highestValidators # << >>
      /\ validatorInfo[v].coins \in Nat /\ st \in Status
  <2>1. validatorInfo[v].amount \in Nat /\ validatorInfo[v].coins \in Nat
    BY ValidatorFields, SMTT(30)
  <2>2. x \in Nat /\ rest \in Nat
    BY <2>1, PartIsNat, Zenon
  <2> QED BY <2>1, <2>2 DEF withdrawValidatorStaking, Status
<1>1. validatorInfo' = vi
  BY DEF withdrawValidatorStaking, VI
<1>2. f1 \in VI /\ f1[v].coins = validatorInfo[v].coins
  <2>1. f1[v].coins = validatorInfo[v].coins
    BY DEF VI, ValidatorRec
  <2> HIDE DEF rest
  <2> QED BY <1>0, <2>1, ValidatorUpdate, Zenon
<1>3. f2 \in VI
  <2> HIDE DEF f1, rest, st
  <2>1. f1[v].coins - x \in Nat
    BY <1>0, <1>2, RestIsNat, Zenon
  <2> QED BY <1>2, <2>1, ValidatorUpdate, SMTT(30)
<1>4. vi \in VI
  <2> HIDE DEF f2, st, rest
  <2> QED BY <1>0, <1>3, ValidatorUpdate
<1>5. stakingInfo' \in SI
  <2>1. stakingInfo[v] \in [Validators -> DelegatorRec]
    BY SMTT(30) DEF SI
  <2>2. [stakingInfo[v] EXCEPT ![v].unstakeBlock = 0] \in [Validators -> DelegatorRec]
    BY <2>1, DelegatorUpdate, Zenon
  <2>3. stakingInfo' = [stakingInfo EXCEPT ![v][v].unstakeBlock = 0]
    BY DEF withdrawValidatorStaking
  <2> QED BY <2>2, <2>3 DEF SI
<1>6. currentValidators' \in Seq(Validators)
  <2>1. currentValidators' \in {currentValidators,
                                removeFromCurrentValidatorList(currentValidators, v)}
    BY DEF withdrawValidatorStaking
  <2> QED BY <2>1, RemoveFromCurrentType
<1> HIDE DEF vi, rest, st
<1>7. CoinsOK(vi) /\ maxValidators' = maxValidators
  BY <1>4, CoinsOfType DEF withdrawValidatorStaking, params
<1>8. highestValidators' =
        IF Len(highestValidators) >= maxValidators
        THEN ReplaceLowest(validatorInfo', currentValidators', highestValidators,
                           minimumStakeAmount)
        ELSE Promote(validatorInfo', currentValidators', highestValidators,
                     minimumStakeAmount, maxValidators, 0)
  BY DEF withdrawValidatorStaking
<1>9. /\ highestValidators' \in Seq(Validators)
      /\ Len(highestValidators') >= Len(highestValidators)
      /\ Len(highestValidators) <= maxValidators => Len(highestValidators') <= maxValidators
  <2>1. CASE Len(highestValidators) >= maxValidators
    BY <1>0, <1>1, <1>6, <1>7, <1>8, <2>1, ReplaceLowestFacts
  <2>2. CASE ~ (Len(highestValidators) >= maxValidators)
    BY <1>1, <1>6, <1>7, <1>8, <2>2, PromoteFacts
  <2> QED BY <2>1, <2>2
<1>10. ListStep
  BY <1>7, <1>9 DEF ListStep, HighestBounded
<1>11. totalDXTStake' \in Nat /\ balance' \in Nat
  <2>1. totalDXTStake' = totalDXTStake - x /\ balance' = balance - x
    BY DEF withdrawValidatorStaking
  <2> QED BY <1>0, <2>1, RestIsNat, Zenon
<1>12. UNCHANGED <<punishing, claims, params, chain, register>>
  BY DEF withdrawValidatorStaking
<1>13. TypeOK'
  BY <1>1, <1>4, <1>5, <1>6, <1>9, <1>11, <1>12, Zenon
     DEF TypeOK, VI, SI, RegisterTypeOK, punishing, claims, params, chain, register
<1> QED BY <1>10, <1>13

\* withdrawDelegatorStaking: the checked subtractions, the entry taken out of the list of
\* delegators and the index of the one that moves.
LEMMA WithdrawDelegatorStep ==
  ASSUME TypeOK, NEW d \in Addrs, NEW v \in Validators,
         NEW x \in 0 .. stakingInfo[d][v].amount, withdrawDelegatorStaking(d, v, x)
  PROVE  TypeOK' /\ ListStep
<1> DEFINE info == stakingInfo[d][v]
           gone == info.amount = x
           list == validatorInfo[v].delegators
           l  == IF gone THEN SwapPop(list, info.index + 1) ELSE list
           f1 == [validatorInfo EXCEPT ![v].coins = @ - x]
           vi == [f1 EXCEPT ![v].delegators = l]
<1> USE TypeFacts
<1>0. /\ x \in Nat /\ info.amount - x \in Nat /\ info.index \in Nat
      /\ x <= validatorInfo[v].coins /\ validatorInfo[v].coins \in Nat
      /\ x <= totalDXTStake /\ x <= balance /\ highestValidators # << >>
  <2>1. info.amount \in Nat /\ info.index \in Nat /\ validatorInfo[v].coins \in Nat
    BY DelegatorFields, ValidatorFields
  <2>2. x \in Nat /\ info.amount - x \in Nat
    BY <2>1, PartIsNat, Zenon
  <2> QED BY <2>1, <2>2, Zenon DEF withdrawDelegatorStaking
<1>1. l \in Seq(Addrs)
  <2>1. list \in Seq(Addrs)
    BY ValidatorFields
  <2>2. CASE gone
    <3>1. info.index < Len(list)
      BY <2>2 DEF withdrawDelegatorStaking
    <3>2. list # << >>
      BY <1>0, <3>1, SMTT(30)
    <3> HIDE DEF list, info
    <3> QED BY <2>1, <2>2, <3>2, SwapPopFacts, SMTT(30)
  <2>3. CASE ~ gone
    BY <2>1, <2>3
  <2> QED BY <2>2, <2>3
<1>2. f1 \in VI
  <2>1. validatorInfo[v].coins - x \in Nat
    BY <1>0, RestIsNat, Zenon
  <2> QED BY <2>1, ValidatorUpdate
<1>3. vi \in VI
  <2> HIDE DEF f1, l
  <2> QED BY <1>1, <1>2, ValidatorUpdate
<1>4. /\ validatorInfo' \in {vi, [vi EXCEPT ![v].status = "NotExist"]}
      /\ highestValidators' =
           ReplaceLowest(vi, currentValidators, highestValidators, minimumStakeAmount)
  BY Zenon DEF withdrawDelegatorStaking, Delisted, VI
<1> HIDE DEF vi
<1>5. validatorInfo' \in VI
  <2>1. "NotExist" \in Status
    BY DEF Status
  <2> QED BY <1>3, <1>4, <2>1, ValidatorUpdate
<1>6. stakingInfo' \in SI
  <2> DEFINE am(a) == IF a = d THEN stakingInfo[a][v].amount - x ELSE stakingInfo[a][v].amount
             un(a) == IF a = d THEN 0 ELSE stakingInfo[a][v].unstakeBlock
             ix(a) == IF gone /\ a \in Delisted(d, v).moved THEN info.index
                      ELSE stakingInfo[a][v].index
             row(a) == [[[stakingInfo[a] EXCEPT ![v].amount = am(a)]
                            EXCEPT ![v].unstakeBlock = un(a)]
                            EXCEPT ![v].index = ix(a)]
  <2>1. ASSUME NEW a \in Addrs PROVE row(a) \in [Validators -> DelegatorRec]
    <3>1. am(a) \in Nat /\ un(a) \in Nat /\ ix(a) \in Nat
      <4>1. /\ stakingInfo[a][v].amount \in Nat /\ stakingInfo[a][v].index \in Nat
            /\ stakingInfo[a][v].unstakeBlock \in Nat
        BY DelegatorFields
      <4> QED BY <1>0, <4>1
    <3> HIDE DEF am, un, ix
    <3>2. stakingInfo[a] \in [Validators -> DelegatorRec]
      BY DEF SI
    <3> DEFINE g1 == [stakingInfo[a] EXCEPT ![v].amount = am(a)]
               g2 == [g1 EXCEPT ![v].unstakeBlock = un(a)]
    <3>3. g1 \in [Validators -> DelegatorRec]
      BY <3>1, <3>2, DelegatorUpdate, Zenon
    <3>4. g2 \in [Validators -> DelegatorRec]
      <4> HIDE DEF g1
      <4> QED BY <3>1, <3>3, DelegatorUpdate, Zenon
    <3> HIDE DEF g2
    <3>5. [g2 EXCEPT ![v].index = ix(a)] \in [Validators -> DelegatorRec]
      BY <3>1, <3>4, DelegatorUpdate, Zenon
    <3> QED BY <3>5 DEF g2
  <2>2. stakingInfo' = [a \in Addrs |-> row(a)]
    <3>1. stakingInfo' = [a \in Addrs |-> [stakingInfo[a] EXCEPT
           ![v].amount = IF a = d THEN @ - x ELSE @,
           ![v].unstakeBlock = IF a = d THEN 0 ELSE @,
           ![v].index = IF gone /\ a \in Delisted(d, v).moved THEN info.index ELSE @]]
      BY Zenon DEF withdrawDelegatorStaking
    <3>2. ASSUME NEW a \in Addrs
          PROVE [stakingInfo[a] EXCEPT
           ![v].amount = IF a = d THEN @ - x ELSE @,
           ![v].unstakeBlock = IF a = d THEN 0 ELSE @,
           ![v].index = IF gone /\ a \in Delisted(d, v).moved THEN info.index ELSE @]
           = row(a)
      <4>1. stakingInfo[a] \in [Validators -> DelegatorRec]
        BY DEF SI
      <4> QED BY <4>1 DEF DelegatorRec
    <3> QED BY <3>1, <3>2
  <2> HIDE DEF row
  <2> QED BY <2>1, <2>2 DEF SI
<1>7. currentValidators' \in Seq(Validators)
  <2>1. currentValidators' \in {currentValidators,
                                removeFromCurrentValidatorList(currentValidators, v)}
    BY Zenon DEF withdrawDelegatorStaking
  <2> QED BY <2>1, RemoveFromCurrentType
<1>8. CoinsOK(vi) /\ maxValidators' = maxValidators
  BY <1>3, CoinsOfType, Zenon DEF withdrawDelegatorStaking, params
<1>9. /\ highestValidators' \in Seq(Validators)
      /\ Len(highestValidators') = Len(highestValidators)
  BY <1>0, <1>4, <1>8, ReplaceLowestFacts
<1>10. ListStep
  BY <1>8, <1>9 DEF ListStep, HighestBounded
<1>11. totalDXTStake' \in Nat /\ balance' \in Nat
  <2>1. totalDXTStake' = totalDXTStake - x /\ balance' = balance - x
    BY Zenon DEF withdrawDelegatorStaking
  <2> QED BY <1>0, <2>1, RestIsNat, Zenon
<1>12. UNCHANGED <<punishing, claims, params, chain, register>>
  BY Zenon DEF withdrawDelegatorStaking
<1>13. TypeOK'
  BY <1>5, <1>6, <1>7, <1>9, <1>11, <1>12, Zenon
     DEF TypeOK, VI, SI, RegisterTypeOK, punishing, claims, params, chain, register
<1> QED BY <1>10, <1>13

\* claimValidatorReward pays out of the balance.
LEMMA ClaimValidatorStep ==
  ASSUME TypeOK, NEW v \in Validators, claimValidatorReward(v)
  PROVE  TypeOK' /\ ListStep
<1> USE TypeFacts
<1>1. validatorInfo' \in VI
  <2>1. validatorInfo' = [validatorInfo EXCEPT ![v].income = 0]
    BY DEF claimValidatorReward
  <2> QED BY <2>1, ValidatorUpdate, Zenon
<1>2. currentValidators' \in Seq(Validators)
  <2>1. currentValidators' \in {currentValidators,
                                removeFromCurrentValidatorList(currentValidators, v)}
    BY DEF claimValidatorReward
  <2> QED BY <2>1, RemoveFromCurrentType
<1>3. balance' \in Nat
  <2>1. validatorInfo[v].income \in Nat
    BY ValidatorFields
  <2>2. /\ validatorInfo[v].income <= balance
        /\ balance' = balance - validatorInfo[v].income
    BY DEF claimValidatorReward
  <2> QED BY <2>1, <2>2, RestIsNat, Zenon
<1>4. claimedV' \in [Validators -> Nat]
  BY DEF TypeOK, claimValidatorReward
<1>5. UNCHANGED <<stakingInfo, highestValidators, totalDXTStake, punishing, claimedD,
                  params, chain, register>>
  BY DEF claimValidatorReward
<1>6. TypeOK'
  BY <1>1, <1>2, <1>3, <1>4, <1>5, Zenon
     DEF TypeOK, VI, RegisterTypeOK, punishing, params, chain, register
<1> QED BY <1>5, <1>6, ListUnchanged DEF params

\* claimDelegatorReward pays out of the balance.
LEMMA ClaimDelegatorStep ==
  ASSUME TypeOK, NEW d \in Addrs, NEW v \in Validators, claimDelegatorReward(d, v)
  PROVE  TypeOK' /\ ListStep
<1> USE TypeFacts
<1>1. stakingInfo' \in SI
  <2>1. stakingInfo[d] \in [Validators -> DelegatorRec]
    BY DEF SI
  <2>2. [stakingInfo[d] EXCEPT ![v].income = 0] \in [Validators -> DelegatorRec]
    BY <2>1, DelegatorUpdate, Zenon
  <2>3. stakingInfo' = [stakingInfo EXCEPT ![d][v].income = 0]
    BY DEF claimDelegatorReward
  <2> QED BY <2>2, <2>3 DEF SI
<1>2. balance' \in Nat
  <2>1. stakingInfo[d][v].income \in Nat
    BY DelegatorFields
  <2>2. /\ stakingInfo[d][v].income <= balance
        /\ balance' = balance - stakingInfo[d][v].income
    BY DEF claimDelegatorReward
  <2> QED BY <2>1, <2>2, RestIsNat, Zenon
<1>3. claimedD' \in [Addrs -> Nat]
  BY DEF TypeOK, claimDelegatorReward
<1>4. UNCHANGED <<validatorInfo, lists, totalDXTStake, punishing, claimedV, params,
                  chain, register>>
  BY DEF claimDelegatorReward
<1>5. TypeOK'
  BY <1>1, <1>2, <1>3, <1>4, Zenon
     DEF TypeOK, SI, RegisterTypeOK, lists, punishing, params, chain, register
<1> QED BY <1>4, <1>5, ListUnchanged DEF lists, params

\* claimOwnerReward and registerContract.
LEMMA OwnerStep ==
  ASSUME TypeOK, OwnerTx
  PROVE  TypeOK' /\ ListStep
<1> USE TypeFacts
<1>1. PICK o \in Owners :
        \/ claimOwnerReward(o)
        \/ /\ \E c \in Contracts, r \in Owners : registerContract(o, c, r)
           /\ UNCHANGED <<validatorInfo, stakingInfo, lists, totalDXTStake, punishing, claims,
                          params, balance, chain>>
  BY DEF OwnerTx
<1>2. RegisterTypeOK' /\ balance' \in Nat
  <2>1. CASE claimOwnerReward(o)
    <3>1. rewardAmountOwner[o] \in Nat
      BY DEF TypeOK, RegisterTypeOK
    <3>2. balance' \in Nat
      <4>1. rewardAmountOwner[o] <= balance /\ balance' = balance - rewardAmountOwner[o]
        BY <2>1 DEF claimOwnerReward
      <4> QED BY <3>1, <4>1, RestIsNat, Zenon
    <3>3. RegisterTypeOK'
      BY <2>1 DEF claimOwnerReward, transferRewardOwner, TypeOK, RegisterTypeOK
    <3> QED BY <3>2, <3>3
  <2>2. CASE /\ \E c \in Contracts, r \in Owners : registerContract(o, c, r)
             /\ UNCHANGED <<validatorInfo, stakingInfo, lists, totalDXTStake, punishing,
                            claims, params, balance, chain>>
    BY <2>2 DEF registerContract, TypeOK, RegisterTypeOK
  <2> QED BY <1>1, <2>1, <2>2
<1>3. UNCHANGED <<validatorInfo, stakingInfo, lists, totalDXTStake, punishing, claims,
                  params, chain>>
  BY <1>1 DEF claimOwnerReward
<1>4. TypeOK'
  BY <1>2, <1>3 DEF TypeOK, lists, punishing, claims, params, chain
<1> QED BY <1>3, <1>4, ListUnchanged DEF lists, params

\* pushContractOwner only writes a record.
LEMMA PushContractOwnerStep ==
  ASSUME TypeOK, NEW c \in Contracts, NEW o \in Owners, pushContractOwner(c, o)
  PROVE  TypeOK' /\ ListStep
<1>1. RegisterTypeOK'
  BY DEF pushContractOwner, pushContractRecord, TypeOK, RegisterTypeOK
<1>2. phase' = "slashed"
      /\ UNCHANGED <<validatorInfo, stakingInfo, lists, totalDXTStake, punishing, claims,
                     params, balance, block, epochVals, consensusVals>>
  BY DEF pushContractOwner
<1>3. TypeOK'
  BY <1>1, <1>2 DEF TypeOK, lists, punishing, claims, params
<1> QED BY <1>2, <1>3, ListUnchanged DEF lists, params

\* NextBlock hands the list to the engine.
LEMMA NextBlockStep ==
  ASSUME TypeOK, NextBlock
  PROVE  TypeOK' /\ ListStep
<1> USE TypeFacts
<1>1. UNCHANGED <<validatorInfo, stakingInfo, lists, totalDXTStake, punishing, claims,
                  params, balance, register>>
  BY DEF NextBlock
<1>2. block' \in Nat \ {0} /\ phase' = "txs"
  BY DEF NextBlock
<1>3. epochVals' \subseteq Validators /\ consensusVals' \subseteq Validators
  <2>1. Range(highestValidators) \subseteq Validators
    BY DEF Range
  <2> QED BY <2>1 DEF NextBlock, TypeOK
<1>4. TypeOK'
  BY <1>1, <1>2, <1>3, SMTT(30)
     DEF TypeOK, RegisterTypeOK, lists, punishing, claims, params, register
<1> QED BY <1>1, <1>4, ListUnchanged DEF lists, params

(***************************************************************************)
(* The engine's calls                                                      *)
(***************************************************************************)

\* The coins that count for a reward are an integer; deposit checks the sign.
LEMMA UpdatedCoinsType ==
  ASSUME TypeOK, NEW v \in Validators
  PROVE  UpdatedCoins(v) \in Int
<1> DEFINE list == validatorInfo[v].delegators
           leaving == [j \in DOMAIN list |-> IF stakingInfo[list[j]][v].unstakeBlock = 0
                                             THEN 0 ELSE stakingInfo[list[j]][v].amount]
<1>1. list \in Seq(Addrs) /\ validatorInfo[v].coins \in Nat
  BY TypeFacts, ValidatorFields
<1>2. Len(list) \in Nat /\ DOMAIN list = 1 .. Len(list)
  BY <1>1
<1>3. \A j \in 1 .. Len(list) : leaving[j] \in Nat
  <2>1. \A j \in 1 .. Len(list) : list[j] \in Addrs
    BY <1>1, <1>2
  <2> HIDE DEF list
  <2>2. \A j \in 1 .. Len(list) : stakingInfo[list[j]][v].amount \in Nat
    BY <2>1, TypeFacts, DelegatorFields
  <2> QED BY <1>2, <2>2
<1> HIDE DEF leaving
<1>4. SumTo(leaving, Len(list)) \in Nat
  BY <1>2, <1>3, SumToNat
<1>5. UpdatedCoins(v) = validatorInfo[v].coins - SumTo(leaving, Len(list))
  BY DEF UpdatedCoins, leaving
<1> QED BY <1>1, <1>4, <1>5

\* The owners' rewards stay natural numbers.
LEMMA OwnersRewardType ==
  ASSUME TypeOK, NEW calls \in Seq(Contracts), NEW r \in Nat, checkEligible(calls) # {}
  PROVE  distributeRewardToOwners(calls, r) \in [Owners -> Nat]
<1> DEFINE E == checkEligible(calls)
           per == r \div Cardinality(E)
           mine(o) == {i \in E : rewardAddresses[calls[i]] = o}
<1>1. E \in SUBSET DOMAIN calls /\ \A o \in Owners : mine(o) \in SUBSET DOMAIN calls
  BY DEF checkEligible
<1>2. Cardinality(E) \in Nat /\ Cardinality(E) > 0
  BY <1>1, PositionsFinite
<1>3. per \in Nat
  BY <1>2, DivFacts
<1> HIDE DEF per, E
<1>4. ASSUME NEW o \in Owners
      PROVE  rewardAmountOwner[o] + per * Cardinality(mine(o)) \in Nat
  <2>1. Cardinality(mine(o)) \in Nat
    BY <1>1, PositionsFinite
  <2>2. rewardAmountOwner[o] \in Nat
    BY DEF TypeOK, RegisterTypeOK
  <2>3. per * Cardinality(mine(o)) \in Nat
    BY <1>3, <2>1, MulMono
  <2> HIDE DEF mine
  <2> QED BY <2>2, <2>3
<1> QED BY <1>4 DEF distributeRewardToOwners, per, E

\* The delegators' incomes stay natural numbers.
LEMMA DelegatorsRewardType ==
  ASSUME TypeOK, NEW v \in Validators, NEW r \in Nat, NEW total \in Nat,
         elegibleDel(v) # {} => total > 0
  PROVE  distributeRewardToDelegators(r, v, total) \in SI
<1> DEFINE list == validatorInfo[v].delegators
           mine(a) == {j \in elegibleDel(v) : list[j] = a}
           entries(a) == Cardinality(mine(a))
           share(a) == Share(r, stakingInfo[a][v].amount, total)
           income(a) == IF entries(a) = 0 THEN stakingInfo[a][v].income
                        ELSE stakingInfo[a][v].income + entries(a) * share(a)
<1>1. list \in Seq(Addrs)
  BY TypeFacts, ValidatorFields
<1>2. ASSUME NEW a \in Addrs PROVE income(a) \in Nat
  <2>1. stakingInfo[a][v].amount \in Nat /\ stakingInfo[a][v].income \in Nat
    BY TypeFacts, DelegatorFields, SMTT(30)
  <2>2. mine(a) \in SUBSET DOMAIN list
    BY DEF elegibleDel
  <2>3. entries(a) \in Nat /\ (mine(a) # {} => entries(a) > 0) /\ IsFiniteSet(mine(a))
    <3> HIDE DEF list, mine
    <3> QED BY <1>1, <2>2, PositionsFinite
  <2>4. CASE entries(a) = 0
    BY <2>1, <2>4
  <2>5. CASE entries(a) # 0
    <3>1. mine(a) # {}
      <4>1. Cardinality({}) = 0
        BY FS_EmptySet
      <4> QED BY <2>5, <4>1
    <3>2. total > 0
      BY <3>1
    <3>3. share(a) \in Nat
      BY <2>1, <3>2, ShareBound, Zenon
    <3> HIDE DEF entries, share
    <3>4. entries(a) * share(a) \in Nat
      BY <2>3, <3>3, MulMono
    <3> QED BY <2>1, <2>5, <3>4
  <2> QED BY <2>4, <2>5
<1> HIDE DEF income
<1>3. ASSUME NEW a \in Addrs
      PROVE  [stakingInfo[a] EXCEPT ![v].income = income(a)] \in [Validators -> DelegatorRec]
  <2>1. stakingInfo[a] \in [Validators -> DelegatorRec]
    BY TypeFacts DEF SI
  <2> QED BY <1>2, <2>1, DelegatorUpdate, Zenon
<1>4. distributeRewardToDelegators(r, v, total)
        = [a \in Addrs |-> [stakingInfo[a] EXCEPT ![v].income = income(a)]]
  BY DEF distributeRewardToDelegators, income
<1> QED BY <1>3, <1>4, Zenon DEF SI

\* deposit: the burnt part, the owners' part and the validator's share are each at most
\* what they are taken from.
LEMMA DepositStep ==
  ASSUME TypeOK, NEW v \in Validators, NEW amount \in DepositValues,
         NEW calls \in ContractCalls, deposit(v, amount, calls)
  PROVE  TypeOK' /\ ListStep
<1> DEFINE burnt  == (amount * BurnRatio) \div BurnScale
           fees   == amount - burnt
           known  == validatorInfo[v].registered
           owned  == known /\ checkEligible(calls) # {}
           owners == IF owned THEN (fees * OwnerShare) \div OwnerScale ELSE 0
           value  == fees - owners
           shared == known /\ validatorInfo[v].status \notin {"Jailed", "Unstaked"}
           coins  == UpdatedCoins(v)
           staked == validatorInfo[v].amount
           own    == Share(value, staked, coins)
           others == coins - staked
<1>0. amount \in Nat /\ calls \in Seq(Contracts)
  BY InputAssumption
<1>1. fees \in Nat
  <2>1. burnt \in Nat /\ burnt <= amount
    BY <1>0, ParamAssumption, PartBound
  <2> HIDE DEF burnt
  <2> QED BY <1>0, <2>1
<1> HIDE DEF fees
<1>2. owners \in Nat /\ value \in Nat
  <2>1. (fees * OwnerShare) \div OwnerScale \in Nat /\ (fees * OwnerShare) \div OwnerScale <= fees
    BY <1>1, ParamAssumption, PartBound
  <2>2. owners \in Nat /\ owners <= fees
    BY <1>1, <2>1
  <2> HIDE DEF owners
  <2> QED BY <1>1, <2>2
<1>3. /\ balance' = balance + fees
      /\ rewardAmountOwner' = IF owned THEN distributeRewardToOwners(calls, owners)
                                       ELSE rewardAmountOwner
      /\ validatorInfo' = IF shared THEN [validatorInfo EXCEPT ![v].income = @ + own]
                                    ELSE validatorInfo
      /\ stakingInfo' = IF shared THEN distributeRewardToDelegators(value - own, v, others)
                                  ELSE stakingInfo
      /\ shared => /\ coins > 0 /\ others >= 0
                   /\ elegibleDel(v) # {} => others > 0
  BY DEF deposit, fees
<1>4. /\ phase' = "paid"
      /\ UNCHANGED <<lists, totalDXTStake, punishing, claims, params, block, epochVals,
                     consensusVals, rewardAddresses, rewardClaimRecordsOwners,
                     contractsRecord>>
  BY DEF deposit
<1> HIDE DEF owners, value
<1>5. balance' \in Nat
  BY <1>1, <1>3, TypeFacts, SumIsNat, Zenon
<1>6. rewardAmountOwner' \in [Owners -> Nat]
  <2>1. CASE owned
    BY <1>0, <1>2, <1>3, <2>1, OwnersRewardType
  <2>2. CASE ~ owned
    BY <1>3, <2>2 DEF TypeOK, RegisterTypeOK
  <2> QED BY <2>1, <2>2
<1>7. validatorInfo' \in VI /\ stakingInfo' \in SI
  <2>1. CASE ~ shared
    BY <1>3, <2>1, TypeFacts
  <2>2. CASE shared
    <3>1. staked \in Nat /\ coins \in Int /\ validatorInfo[v].income \in Nat
      BY TypeFacts, ValidatorFields, UpdatedCoinsType
    <3>2. coins > 0 /\ others >= 0 /\ (elegibleDel(v) # {} => others > 0)
      BY <1>3, <2>2
    <3> HIDE DEF coins, staked, shared
    <3>3. coins \in Nat /\ others \in Nat /\ staked <= coins
      BY <3>1, <3>2
    <3>4. own \in Nat /\ own <= value
      BY <1>2, <3>1, <3>2, <3>3, ShareBound
    <3> HIDE DEF own, others
    <3>5. value - own \in Nat /\ validatorInfo[v].income + own \in Nat
      BY <1>2, <3>1, <3>4, RestIsNat, SumIsNat, Zenon
    <3>6. [validatorInfo EXCEPT ![v].income = @ + own] \in VI
      BY <3>5, TypeFacts, ValidatorUpdate
    <3>7. distributeRewardToDelegators(value - own, v, others) \in SI
      BY <3>2, <3>3, <3>5, DelegatorsRewardType, SMTT(30)
    <3> QED BY <1>3, <2>2, <3>6, <3>7
  <2> QED BY <2>1, <2>2
<1>8. TypeOK'
  BY <1>4, <1>5, <1>6, <1>7
     DEF TypeOK, VI, SI, RegisterTypeOK, lists, punishing, claims, params
<1> QED BY <1>4, <1>8, ListUnchanged DEF lists, params

\* Incomes stay natural numbers when a slashed validator's income is handed out.
LEMMA ForfeitedIncomeType ==
  ASSUME NEW vi \in VI, NEW hv \in Seq(Validators), NEW v, NEW share \in Nat
  PROVE  distributeRewardIncomeExcept(vi, hv, v, share) \in VI
<1> DEFINE mine(w) == {i \in DOMAIN hv : hv[i] = w}
           income(w) == IF w = v THEN 0 ELSE vi[w].income + share * Cardinality(mine(w))
<1>1. ASSUME NEW w \in Validators PROVE [vi[w] EXCEPT !.income = income(w)] \in ValidatorRec
  <2>1. Cardinality(mine(w)) \in Nat /\ vi[w].income \in Nat
    BY PositionsFinite, ValidatorFields
  <2>2. share * Cardinality(mine(w)) \in Nat
    BY <2>1, MulMono
  <2>3. income(w) \in Nat
    <3> HIDE DEF mine
    <3> QED BY <2>1, <2>2
  <2> HIDE DEF income
  <2>4. vi[w] \in ValidatorRec
    BY DEF VI
  <2> QED BY <2>3, <2>4, Zenon DEF ValidatorRec
<1>2. distributeRewardIncomeExcept(vi, hv, v, share)
        = [w \in Validators |-> [vi[w] EXCEPT !.income = income(w)]]
  BY DEF distributeRewardIncomeExcept
<1> HIDE DEF income
<1> QED BY <1>1, <1>2, Zenon DEF VI

\* Jailing: the records, and the list.
LEMMA JailStep ==
  ASSUME TypeOK, NEW v \in Validators, Jail(v), maxValidators' = maxValidators
  PROVE  /\ validatorInfo' \in VI /\ highestValidators' \in Seq(Validators)
         /\ punishRecord' \in [Validators -> PunishRec] /\ ListStep
<1> DEFINE vi == [validatorInfo EXCEPT ![v].status = "Jailed"]
           rm == removeFromHighestValidatorList(highestValidators, v)
<1>1. vi \in VI
  <2>1. "Jailed" \in Status
    BY DEF Status
  <2> QED BY <2>1, TypeFacts, ValidatorUpdate
<1>2. CoinsOK(vi)
  BY <1>1, CoinsOfType
<1>3. /\ highestValidators' = Promote(vi, currentValidators, rm, minimumStakeAmount,
                                      maxValidators, 0)
      /\ highestValidators' # << >>
      /\ validatorInfo' = distributeRewardIncomeExcept(vi, highestValidators', v,
                            validatorInfo[v].income \div Len(highestValidators'))
  BY DEF Jail
<1> HIDE DEF vi
<1>4. /\ rm \in Seq(Validators) /\ Len(rm) <= Len(highestValidators)
      /\ Len(highestValidators) >= MinHighest => Len(rm) >= MinHighest
  BY TypeFacts, RemoveFromHighestFacts
<1> HIDE DEF rm
<1>5. /\ highestValidators' \in Seq(Validators)
      /\ Len(highestValidators') >= Len(rm)
      /\ Len(rm) <= maxValidators => Len(highestValidators') <= maxValidators
  BY <1>2, <1>3, <1>4, TypeFacts, PromoteFacts
<1>6. ListStep
  BY <1>4, <1>5, TypeFacts DEF ListStep, HighestBounded
<1>7. validatorInfo' \in VI
  <2>1. validatorInfo[v].income \in Nat
    BY TypeFacts, ValidatorFields
  <2>2. Len(highestValidators') \in Nat /\ Len(highestValidators') > 0
    BY <1>3, <1>5, LenPositive, Zenon
  <2>3. validatorInfo[v].income \div Len(highestValidators') \in Nat
    BY <2>1, <2>2, DivFacts, Zenon
  <2> QED BY <1>1, <1>3, <1>5, <2>3, ForfeitedIncomeType
<1>8. punishRecord' \in [Validators -> PunishRec]
  BY TypeFacts DEF Jail, TypeOK, PunishRec
<1> QED BY <1>5, <1>6, <1>7, <1>8

\* Counting a miss: the record.
LEMMA CountedType ==
  ASSUME TypeOK, NEW v \in Validators,
         punishRecord' = [punishRecord EXCEPT ![v].missedBlockCounter = @ + 1,
                                              ![v].isPunished = TRUE]
  PROVE  punishRecord' \in [Validators -> PunishRec]
<1> DEFINE r1 == [punishRecord[v] EXCEPT !.missedBlockCounter = @ + 1]
           r2 == [r1 EXCEPT !.isPunished = TRUE]
<1>1. punishRecord \in [Validators -> PunishRec] /\ punishRecord[v] \in PunishRec
  BY DEF TypeOK
<1>2. r1 \in PunishRec
  BY <1>1 DEF PunishRec
<1>3. r2 \in PunishRec
  <2> HIDE DEF r1
  <2> QED BY <1>2, Zenon DEF PunishRec
<1>4. punishRecord' = [punishRecord EXCEPT ![v] = r2]
  BY <1>1, Zenon DEF PunishRec
<1> HIDE DEF r2
<1> QED BY <1>1, <1>3, <1>4, Zenon

\* slash: each of the three outcomes of punish.
LEMMA SlashStep ==
  ASSUME TypeOK, NEW v \in Validators, slash(v)
  PROVE  TypeOK' /\ ListStep
<1>1. /\ UNCHANGED <<stakingInfo, currentValidators, totalDXTStake, claims, params, balance,
                     block, epochVals, consensusVals, register>>
      /\ previousHeight' = block /\ phase' = "slashed" /\ punish(v)
  BY DEF slash
<1>2. /\ punishValidator' = IF punishRecord[v].isPunished THEN punishValidator
                            ELSE Append(punishValidator, v)
      /\ Jail(v) \/ ForfeitIncome(v) \/ CountMiss(v)
  BY <1>1 DEF punish
<1>3. punishValidator' \in Seq(Validators)
  BY <1>2 DEF TypeOK
<1>4. maxValidators' = maxValidators
  BY <1>1 DEF params
<1>5. /\ validatorInfo' \in VI /\ highestValidators' \in Seq(Validators)
      /\ punishRecord' \in [Validators -> PunishRec] /\ ListStep
  <2>1. CASE Jail(v)
    BY <1>4, <2>1, JailStep
  <2>2. CASE ForfeitIncome(v)
    <3>1. /\ validatorInfo' = distributeRewardIncomeExcept(validatorInfo, highestValidators, v,
                                validatorInfo[v].income \div (Len(highestValidators) - 1))
          /\ Len(highestValidators) > 1 /\ highestValidators' = highestValidators
      BY <2>2 DEF ForfeitIncome
    <3>2. Len(highestValidators) - 1 \in Nat /\ Len(highestValidators) - 1 > 0
      BY <3>1, TypeFacts
    <3>3. validatorInfo[v].income \in Nat
      BY TypeFacts, ValidatorFields
    <3>4. validatorInfo[v].income \div (Len(highestValidators) - 1) \in Nat
      BY <3>2, <3>3, DivFacts
    <3>5. validatorInfo' \in VI
      BY <3>1, <3>4, TypeFacts, ForfeitedIncomeType
    <3>6. punishRecord' \in [Validators -> PunishRec]
      BY <2>2, CountedType, Zenon DEF ForfeitIncome
    <3> QED BY <1>4, <3>1, <3>5, <3>6, TypeFacts, ListUnchanged
  <2>3. CASE CountMiss(v)
    <3>1. punishRecord' \in [Validators -> PunishRec]
      BY <2>3, CountedType, Zenon DEF CountMiss
    <3> QED BY <1>4, <2>3, <3>1, TypeFacts, ListUnchanged DEF CountMiss
  <2> QED BY <1>2, <2>1, <2>2, <2>3
<1>6. TypeOK'
  BY <1>1, <1>3, <1>5
     DEF TypeOK, VI, RegisterTypeOK, claims, params, register
<1> QED BY <1>5, <1>6

\* unJailed: the list grows only where there is room.
LEMMA UnJailedStep ==
  ASSUME TypeOK, NEW v \in Validators, unJailed(v)
  PROVE  TypeOK' /\ ListStep
<1> DEFINE vi == [validatorInfo EXCEPT ![v].status = "Staked"]
           room == Len(highestValidators) < maxValidators
<1>1. vi \in VI
  <2>1. "Staked" \in Status
    BY DEF Status
  <2> QED BY <2>1, TypeFacts, ValidatorUpdate
<1>2. CoinsOK(vi)
  BY <1>1, CoinsOfType
<1>3. /\ validatorInfo' = vi
      /\ room \/ highestValidators # << >>
      /\ highestValidators' =
           IF ~ room THEN ReplaceLowest(vi, currentValidators, highestValidators,
                                        minimumStakeAmount)
           ELSE IF vi[v].amount >= minimumStakeAmount THEN Append(highestValidators, v)
           ELSE highestValidators
      /\ punishValidator' = removeFromPunishValidator(punishValidator, v)
      /\ balance' = balance + UnjailFee
      /\ UNCHANGED <<stakingInfo, currentValidators, totalDXTStake, previousHeight, claims,
                     params, chain, register>>
  BY DEF unJailed
<1> HIDE DEF vi
<1>4. maxValidators' = maxValidators
  BY <1>3 DEF params
<1>5. highestValidators' \in Seq(Validators) /\ ListStep
  <2>1. CASE ~ room
    <3>1. /\ highestValidators' \in Seq(Validators)
          /\ Len(highestValidators') = Len(highestValidators)
      BY <1>2, <1>3, <2>1, TypeFacts, ReplaceLowestFacts
    <3> QED BY <1>4, <3>1, TypeFacts DEF ListStep, HighestBounded
  <2>2. CASE room /\ highestValidators' = Append(highestValidators, v)
    <3>1. /\ highestValidators' \in Seq(Validators)
          /\ Len(highestValidators') = Len(highestValidators) + 1
      BY <2>2, TypeFacts
    <3> QED BY <1>4, <2>2, <3>1, TypeFacts DEF ListStep, HighestBounded
  <2>3. CASE highestValidators' = highestValidators
    BY <1>4, <2>3, TypeFacts, ListUnchanged
  <2> QED BY <1>3, <2>1, <2>2, <2>3
<1>6. punishValidator' \in Seq(Validators)
  BY <1>3, RemoveFirstFacts DEF removeFromPunishValidator, TypeOK
<1>7. punishRecord' \in [Validators -> PunishRec]
  <2> DEFINE r1 == [punishRecord[v] EXCEPT !.jailedTime = 0]
             r2 == [r1 EXCEPT !.isPunished = FALSE]
  <2>1. punishRecord \in [Validators -> PunishRec] /\ punishRecord[v] \in PunishRec
    BY DEF TypeOK
  <2>2. r1 \in PunishRec
    BY <2>1 DEF PunishRec
  <2>3. r2 \in PunishRec
    <3> HIDE DEF r1
    <3> QED BY <2>2, Zenon DEF PunishRec
  <2>4. punishRecord' = [punishRecord EXCEPT ![v] = r2]
    BY <2>1, Zenon DEF unJailed, PunishRec
  <2> HIDE DEF r2
  <2> QED BY <2>1, <2>3, <2>4
<1>8. balance' \in Nat
  BY <1>3, TypeFacts, ParamAssumption, SumIsNat, Zenon
<1>9. TypeOK'
  BY <1>1, <1>3, <1>5, <1>6, <1>7, <1>8, Zenon
     DEF TypeOK, VI, RegisterTypeOK, claims, params, chain, register
<1> QED BY <1>5, <1>9

\* A vote on minimumStakeAmount shortens and refills the list.
LEMMA UpdateMinimumStep ==
  ASSUME TypeOK, NEW m \in GovMinStake, updateMinimumStakeAmount(m)
  PROVE  TypeOK' /\ ListStep
<1> DEFINE hv == DropPoor(validatorInfo, highestValidators, m)
<1>1. /\ hv \in Seq(Validators) /\ Len(hv) <= Len(highestValidators)
      /\ Len(highestValidators) >= MinHighest => Len(hv) >= MinHighest
  BY TypeFacts, DropPoorFacts
<1>2. /\ minimumStakeAmount' = m
      /\ highestValidators' = Refill(validatorInfo, currentValidators, hv, m, maxValidators, m)
      /\ UNCHANGED <<validatorInfo, stakingInfo, currentValidators, totalDXTStake, punishing,
                     claims, maxValidators, balance, chain, register>>
  BY DEF updateMinimumStakeAmount
<1> HIDE DEF hv
<1>3. /\ highestValidators' \in Seq(Validators)
      /\ Len(highestValidators') >= Len(hv)
      /\ Len(hv) <= maxValidators => Len(highestValidators') <= maxValidators
  BY <1>1, <1>2, TypeFacts, RefillFacts
<1>4. ListStep
  BY <1>1, <1>2, <1>3, TypeFacts DEF ListStep, HighestBounded
<1>5. TypeOK'
  <2>1. m \in Nat \ {0}
    BY InputAssumption
  <2> QED BY <1>2, <1>3, <2>1, Zenon DEF TypeOK, RegisterTypeOK, punishing, claims, chain, register
<1> QED BY <1>4, <1>5

\* A vote on maxValidators: the list is within the new limit because it was within the
\* old one, and as many rounds remove an entry as the limit drops.
LEMMA UpdateMaximumStep ==
  ASSUME TypeOK, HighestBounded, NEW m \in GovMaxValidators, updateMaxValidators(m)
  PROVE  TypeOK' /\ ListStep
<1> DEFINE n == maxValidators - m
           hv == IF m < maxValidators THEN DropExcess(validatorInfo, highestValidators, n)
                 ELSE highestValidators
<1>0. m \in Nat /\ m >= MinHighest
  BY InputAssumption
<1>1. /\ hv \in Seq(Validators) /\ Len(hv) <= m
      /\ Len(highestValidators) >= MinHighest => Len(hv) >= MinHighest
  <2>1. CASE m < maxValidators
    <3>1. n \in Nat /\ Len(highestValidators) <= m + n
      BY <1>0, <2>1, TypeFacts DEF HighestBounded
    <3> HIDE DEF n
    <3> QED BY <1>0, <2>1, <3>1, TypeFacts, DropExcessFacts
  <2>2. CASE ~ (m < maxValidators)
    BY <1>0, <2>2, TypeFacts DEF HighestBounded
  <2> QED BY <2>1, <2>2
<1>2. /\ maxValidators' = m
      /\ highestValidators' =
           Refill(validatorInfo, currentValidators, hv, minimumStakeAmount, m, 0)
      /\ UNCHANGED <<validatorInfo, stakingInfo, currentValidators, totalDXTStake, punishing,
                     claims, minimumStakeAmount, balance, chain, register>>
  BY DEF updateMaxValidators
<1> HIDE DEF hv
<1>3. /\ highestValidators' \in Seq(Validators)
      /\ Len(highestValidators') >= Len(hv)
      /\ Len(hv) <= m => Len(highestValidators') <= m
  BY <1>0, <1>1, <1>2, TypeFacts, RefillFacts
<1>4. ListStep
  BY <1>0, <1>1, <1>2, <1>3, TypeFacts DEF ListStep, HighestBounded
<1>5. TypeOK'
  BY <1>0, <1>2, <1>3, SMTT(30) DEF TypeOK, RegisterTypeOK, punishing, claims, chain, register
<1> QED BY <1>4, <1>5

(***************************************************************************)
(* The theorems                                                            *)
(***************************************************************************)

IInv == TypeOK /\ HighestBounded

\* The state after init() satisfies the invariant.
LEMMA InitInv == Init => IInv
<1> SUFFICES ASSUME Init PROVE IInv
  OBVIOUS
<1>1. << >> \in Seq(Validators) /\ << >> \in Seq(Addrs) /\ Len(<< >>) = 0
  OBVIOUS
<1>2. validatorInfo \in [Validators -> ValidatorRec]
  BY <1>1 DEF Init, ValidatorRec, Status
<1>3. stakingInfo \in [Addrs -> [Validators -> DelegatorRec]]
  BY DEF Init, DelegatorRec
<1>4. punishRecord \in [Validators -> PunishRec]
  BY DEF Init, PunishRec
<1>5. RegisterTypeOK
  BY DEF Init, RegisterInit, RegisterTypeOK
<1>6. maxValidators \in Nat /\ maxValidators >= MinHighest /\ minimumStakeAmount \in Nat \ {0}
  BY ParamAssumption DEF Init
<1>7. epochVals \subseteq Validators /\ consensusVals \subseteq Validators
  BY AddrAssumption DEF Init
<1>8. claimedV \in [Validators -> Nat] /\ claimedD \in [Addrs -> Nat]
  BY DEF Init
<1>9. /\ currentValidators = << >> /\ highestValidators = << >> /\ punishValidator = << >>
      /\ totalDXTStake = 0 /\ balance = 0 /\ block = 1 /\ phase = "txs" /\ previousHeight = 0
  BY DEF Init
<1>10. HighestBounded
  BY <1>1, <1>6, <1>9 DEF HighestBounded
<1>11. TypeOK
  BY <1>1, <1>2, <1>3, <1>4, <1>5, <1>6, <1>7, <1>8, <1>9 DEF TypeOK
<1> QED BY <1>10, <1>11 DEF IInv

\* Every step of the specification, stuttering included.
LEMMA StepInv ==
  ASSUME IInv, [Next]_vars
  PROVE  IInv' /\ ListStep
<1> SUFFICES TypeOK' /\ ListStep
  BY DEF IInv, ListStep
<1> USE DEF IInv
<1>1. CASE Transaction
  <2>1. CASE ValidatorTx
    <3>1. PICK v \in Validators :
            \/ \E x \in StakeAmounts : stakeValidator(v, x)
            \/ unstakeValidator(v)
            \/ \E x \in 0 .. validatorInfo[v].amount : withdrawValidatorStaking(v, x)
            \/ claimValidatorReward(v)
            \/ unJailed(v)
      BY <2>1 DEF ValidatorTx
    <3> QED BY <3>1, StakeValidatorStep, UnstakeValidatorStep, WithdrawValidatorStep,
               ClaimValidatorStep, UnJailedStep
  <2>2. CASE DelegatorTx
    <3>1. PICK d \in Addrs, v \in Validators :
            \/ \E x \in StakeAmounts : stakeDelegator(d, v, x)
            \/ unstakeDelegators(d, v)
            \/ \E x \in 0 .. stakingInfo[d][v].amount : withdrawDelegatorStaking(d, v, x)
            \/ claimDelegatorReward(d, v)
      BY <2>2 DEF DelegatorTx
    <3> QED BY <3>1, StakeDelegatorStep, UnstakeDelegatorsStep, WithdrawDelegatorStep,
               ClaimDelegatorStep
  <2>3. CASE OwnerTx
    BY <2>3, OwnerStep
  <2>4. CASE GovTx
    BY <2>4, UpdateMinimumStep, UpdateMaximumStep DEF GovTx
  <2> QED BY <1>1, <2>1, <2>2, <2>3, <2>4 DEF Transaction
<1>2. CASE EngineTx
  <2>1. ASSUME NEW v \in Missing, slash(v) PROVE TypeOK' /\ ListStep
    BY <2>1, SlashStep, InputAssumption, SMTT(30)
  <2> QED BY <1>2, <2>1, PushContractOwnerStep, DepositStep DEF EngineTx
<1>3. CASE NextBlock
  BY <1>3, NextBlockStep
<1>4. CASE UNCHANGED vars
  <2>1. UNCHANGED <<validatorInfo, stakingInfo, currentValidators, highestValidators,
                    totalDXTStake, punishRecord, punishValidator, previousHeight, claimedV,
                    claimedD, minimumStakeAmount, maxValidators, balance, block, phase,
                    epochVals, consensusVals, rewardAddresses, rewardAmountOwner,
                    rewardClaimRecordsOwners, contractsRecord>>
    BY <1>4 DEF vars, lists, punishing, claims, params, chain, register
  <2> QED BY <2>1, ListUnchanged DEF TypeOK, RegisterTypeOK
<1> QED BY <1>1, <1>2, <1>3, <1>4 DEF Next

\* The inductive invariant holds in every state.
LEMMA InvHolds == Spec => []IInv
<1>1. IInv /\ [Next]_vars => IInv'
  BY StepInv
<1> QED BY InitInv, <1>1, PTL DEF Spec

\* Every mapping, list and counter of the contract keeps its type, and no unsigned
\* value goes below zero, whatever the parameters, the accounts and their calls.
THEOREM TypeCorrect == Spec => []TypeOK
BY InvHolds, PTL DEF IInv

\* highestValidators never outgrows maxValidators, also when a vote lowers it.
THEOREM HighestNeverTooLong == Spec => []HighestBounded
BY InvHolds, PTL DEF IInv

\* Once highestValidators has MinHighest entries, no operation takes it below.
THEOREM HighestNeverBelowFloor == Spec => HighestFloorKept
<1>1. IInv /\ [Next]_vars
        => [Len(highestValidators) >= MinHighest => Len(highestValidators') >= MinHighest]_vars
  BY StepInv DEF ListStep
<1> QED BY InvHolds, <1>1, PTL DEF Spec, HighestFloorKept

=============================================================================
