----------------------------- MODULE Governance -----------------------------
(***************************************************************************)
(* The staking contract and the voting contract together: the calls of     *)
(* updateVotingValues come from votes in GovHub, and GovHub reads the list *)
(* and the coins as they are at the moment of a call.                      *)
(***************************************************************************)
EXTENDS ValidatorSet, GovHub

allVars == <<vars, govVars>>

CoinsNow == [v \in Validators |-> validatorInfo[v].coins]

Proposable(name, value) ==
  \/ /\ name = "minimumStakeAmount"
     /\ ProposableMin(value, highestValidators, CoinsNow)
  \/ /\ name = "maxValidators"
     /\ ProposableMax(value, MinHighest, Len(currentValidators))

Create(v, details, name, value) ==
  /\ validatorInfo[v].status = "Staked"
  /\ Proposable(name, value)
  /\ createProposal(v, details, name, value, block, highestValidators, CoinsNow)
  /\ UNCHANGED vars

Apply(v, id) == startVoteProposal(v, id, block) /\ UNCHANGED vars

authChangeValues(id) ==
  \/ /\ proposals[id].variable_name = "minimumStakeAmount"
     /\ updateMinimumStakeAmount(proposals[id].variable_value)
  \/ /\ proposals[id].variable_name = "maxValidators"
     /\ updateMaxValidators(proposals[id].variable_value)

Vote(v, id, auth) ==
  /\ voteProposal(v, id, auth, block)
  /\ IF Passes(v, id, auth) THEN authChangeValues(id) ELSE UNCHANGED vars

GovCall ==
  /\ phase = "txs"
  /\ \E v \in Validators :
       \/ \E d \in Details, name \in Variable, value \in ProposedValues :
            Create(v, d, name, value)
       \/ \E id \in DOMAIN proposals :
            Apply(v, id) \/ \E auth \in BOOLEAN : Vote(v, id, auth)

\* Everything else leaves GovHub alone.
StakingCall ==
  /\ \/ phase = "txs" /\ (ValidatorTx \/ DelegatorTx \/ OwnerTx)
     \/ EngineTx
     \/ NextBlock
  /\ UNCHANGED govVars

GovernanceInit == Init /\ GovInit

GovernanceNext == GovCall \/ StakingCall

GovernanceSpec == GovernanceInit /\ [][GovernanceNext]_allVars

-----------------------------------------------------------------------------
(***************************************************************************)
(* Properties                                                              *)
(***************************************************************************)

\* ValidatorSet takes the values that GovMinStake and GovMaxValidators list from a
\* vote at any time.  The two contracts together do no more than that, so what
\* holds of ValidatorSet holds of them.
ImplementsValidatorSet == Spec

\* Voting.pdf: "If the proposal get votes more than 51% of voting power of
\* validators then the proposed value will be changed".  createProposal adds up the
\* power over the active list, in which unJailed may have put a validator twice.
EnoughVotesPass ==
  \A id \in DOMAIN proposals :
    LET power == SumFunction(activeProposalMap[id].individualCoins)
    IN  100 * proposals[id].votePowerOfAgree > 51 * power => proposals[id].ispassed

=============================================================================
