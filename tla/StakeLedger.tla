----------------------------- MODULE StakeLedger -----------------------------
(***************************************************************************)
(* The contract's books: the properties of ValidatorSet that add up        *)
(* stakes, incomes and the balance.                                        *)
(***************************************************************************)
EXTENDS ValidatorSet

\* What x has staked for v: its own stake, or a delegation.
StakeOf(x, v) ==
  stakingInfo[x][v].amount + (IF x = v THEN validatorInfo[v].amount ELSE 0)

Coins == SumFunctionOnSet([v \in Validators |-> validatorInfo[v].coins], Validators)

\* The rewards earned through v that can be claimed: its own and its delegators'.
IncomeFrom(v) ==
  validatorInfo[v].income
  + SumFunctionOnSet([x \in Addrs |-> stakingInfo[x][v].income], Addrs)

Incomes == SumFunctionOnSet([v \in Validators |-> IncomeFrom(v)], Validators)
           + SumFunctionOnSet(rewardAmountOwner, Owners)

\* What the contract holds beyond what it owes.
Surplus == balance - totalDXTStake - Incomes

-----------------------------------------------------------------------------

\* The comment on Validator.coins, "self + delegators", is an invariant: coins is
\* kept by increments in four functions and never recomputed.
CoinsAreStakes ==
  \A v \in Validators :
    validatorInfo[v].coins = SumFunctionOnSet([x \in Addrs |-> StakeOf(x, v)], Addrs)

\* totalDXTStake covers the coins of all validators, so the subtraction that ends
\* a withdrawal never underflows and no stake is stuck because of it.
TotalStakeCovers == totalDXTStake >= Coins

\* The books agree over every order of stakes, unstakes and withdrawals: coins are the
\* stakes, and the total covers the coins.
BooksRight == CoinsAreStakes /\ TotalStakeCovers

\* Money that was taken as a stake and is in nobody's coins.
Uncredited == totalDXTStake - Coins

\* Coins and total part in one case only, and for good: a validator stakes that has no
\* stake and is no newcomer, which neither branch of stakeValidator credits.  It gets there
\* by unJailed, after a jailing without a stake.
CreditedOrKnown ==
  Uncredited' # Uncredited =>
    /\ Uncredited' > Uncredited
    /\ \E v \in Validators :
         /\ validatorInfo[v].amount = 0 /\ validatorInfo[v].status # "NotExist"
         /\ validatorInfo'[v] = [validatorInfo[v] EXCEPT !.status = "Staked"]
         /\ v \in Range(currentValidators')

\* Every step credits what it takes and takes out what it pays, with slashing and votes in
\* between, but for that one stake (stakeValidator, the two withdrawals, punish).
StakesCredited == [][CreditedOrKnown]_vars

\* Slashing moves income between validators and never creates any, except when a
\* misdemeanor hits a validator that is not in highestValidators: then Len - 1
\* shares are computed and Len of them paid.
IncomeMoved ==
  Surplus' < Surplus =>
    \E v \in Validators :
      /\ punishRecord'[v].missedBlockCounter > punishRecord[v].missedBlockCounter
      /\ ~ isTopValidator(highestValidators, v)

\* No step makes the contract owe more than it takes in, but the one case (deposit, the
\* claims, distributeRewardIncomeExcept, RewardRegister).
IncomeOnlyMoved == [][IncomeMoved]_vars

=============================================================================
