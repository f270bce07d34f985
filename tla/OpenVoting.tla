----------------------------- MODULE OpenVoting -----------------------------
(***************************************************************************)
(* GovHub with any staking contract: whenever a proposal is created, the   *)
(* active list and the coins are some members of ActiveLists and Coins,    *)
(* and the passing of a vote has no effect that GovHub sees.               *)
(***************************************************************************)
EXTENDS GovHub

CONSTANTS
  Voters,
  Proposers,        \* inputs: the voters that make proposals
  ActiveLists,      \* inputs: what getValidators may return
  Coins,            \* inputs: what getCoins may return, by voter
  MaxTime           \* bound of the model

ASSUME VotersAssumption ==
  /\ Proposers \subseteq Voters
  /\ ActiveLists \subseteq Seq(Voters) /\ Coins \subseteq [Voters -> Nat]
  /\ MaxTime \in Nat

VARIABLE now        \* block.timestamp

votingVars == <<govVars, now>>

VotingInit == GovInit /\ now = 1

ProposerTx ==
  \E v \in Proposers, d \in Details, name \in Variable, value \in ProposedValues,
     list \in ActiveLists, coins \in Coins :
    createProposal(v, d, name, value, now, list, coins)

VoterTx ==
  \E v \in Voters, id \in DOMAIN proposals :
    \/ startVoteProposal(v, id, now)
    \/ \E auth \in BOOLEAN : voteProposal(v, id, auth, now)

Tick == now < MaxTime /\ now' = now + 1 /\ UNCHANGED govVars

VotingNext == Tick \/ ((ProposerTx \/ VoterTx) /\ UNCHANGED now)

VotingSpec == VotingInit /\ [][VotingNext]_votingVars

=============================================================================
