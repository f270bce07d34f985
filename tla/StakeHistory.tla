---------------------------- MODULE StakeHistory ----------------------------
(***************************************************************************)
(* ValidatorSet with a history variable: the block in which each stake was *)
(* last added to, which the contract itself does not keep.                 *)
(***************************************************************************)
EXTENDS StakeLedger

VARIABLE lastStaked

historyVars == <<vars, lastStaked>>

HistoryInit == Init /\ lastStaked = [x \in Addrs |-> [v \in Validators |-> 0]]

HistoryNext ==
  /\ Next
  /\ lastStaked' = [x \in Addrs |-> [v \in Validators |->
       IF StakeOf(x, v)' > StakeOf(x, v) THEN block ELSE lastStaked[x][v]]]

HistorySpec == HistoryInit /\ [][HistoryNext]_historyVars

\* No part of a stake leaves within LockPeriod of the last addition to it: staking
\* again while an unstake is pending cancels the pending unstake.
FundsStayLocked ==
  \A x \in Addrs, v \in Validators :
    StakeOf(x, v)' < StakeOf(x, v) => block >= lastStaked[x][v] + LockPeriod

\* No step pays out a stake before its lock period is over, and none hands out more income
\* than came in: the shares of validator, delegators and owners, each rounded twice, add up
\* to no more than the fee (stake, unstake and withdraw functions, deposit, the claims).
HoldingsKept == [][FundsStayLocked /\ IncomeMoved]_historyVars

=============================================================================
