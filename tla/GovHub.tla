------------------------------- MODULE GovHub -------------------------------
(***************************************************************************)
(* The voting contract GovHub.sol.  Its actions take what it asks the      *)
(* staking contract for as parameters: the active list, the coins and the  *)
(* current time; Governance puts the two contracts together.               *)
(*                                                                         *)
(* A proposal's id is what its hash is made of: proposer, details and      *)
(* time.  The strings for details, variables and votes are values of small *)
(* sets; a string that is none of them reverts the call.  Left out: events *)
(* and getters, the counts of votes, the copies of the two variables, and  *)
(* pass, which is never set without resultExist and only read with it.     *)
(***************************************************************************)
EXTENDS Integers, FiniteSets, Sequences, Iteration, Functions

CONSTANTS
  Details,              \* inputs: the texts of proposals
  ProposedValues,       \* inputs: the values proposed
  LastingPeriod,        \* PROPOSAL_LASTING_PERIOD
  VoteDelay,            \* 48 hours
  ProposalFee, ProposalRefund,   \* 5000 and 4000 ether
  MaxProposals          \* bound of the model

ASSUME GovAssumption ==
  /\ ProposedValues \subseteq Nat
  /\ LastingPeriod \in Nat /\ VoteDelay \in Nat \ {0}
  /\ ProposalFee \in Nat /\ ProposalRefund \in Nat /\ ProposalRefund <= ProposalFee
  /\ MaxProposals \in Nat

VARIABLES
  proposals,            \* ProposalInfo by id, for the ids that exist
  activeProposalMap,    \* ActiveProposal by id: weights of the eligible, and their total
  ProposalsArray,       \* all ids, in order
  startvotes,           \* when a voter applied, by <<voter, id>>
  votes,                \* the vote cast, by <<voter, id>>
  hubBalance            \* address(this).balance

govVars == <<proposals, activeProposalMap, ProposalsArray, startvotes, votes, hubBalance>>

Variable == {"maxValidators", "minimumStakeAmount"}

\* f with the value y at x.
Put(f, x, y) == [z \in DOMAIN f \cup {x} |-> IF z = x THEN y ELSE f[z]]

GovInit ==
  /\ proposals = << >> /\ activeProposalMap = << >> /\ ProposalsArray = << >>
  /\ startvotes = << >> /\ votes = << >> /\ hubBalance = 0

\* The weights when a proposal is created.  An account listed twice counts twice
\* in the total.  Should the id exist already, the mappings keep older entries.
Electorate(id, list, coins) ==
  LET listed == {list[i] : i \in DOMAIN list}
      old    == IF id \in DOMAIN activeProposalMap
                THEN activeProposalMap[id].individualCoins ELSE << >>
  IN  [individualCoins |-> [w \in DOMAIN old \cup listed |->
                              IF w \in listed THEN coins[w] ELSE old[w]],
       totalVotePower  |-> SumTo([i \in DOMAIN list |-> coins[list[i]]], Len(list))]

\* Slip: zero is not kept out.
ProposableMinAny(value, list, coins) == \E i \in DOMAIN list : value <= coins[list[i]]

\* The limits of a proposed value.
ProposableMin(value, list, coins) ==
  value >= 1 /\ \E i \in DOMAIN list : value <= coins[list[i]]

ProposableMax(value, floor, current) == value >= floor /\ value <= current /\ value <= 51

\* None of the proposer's proposals on the same variable is still running.
NoneRunning(v, name, now) ==
  \A id \in DOMAIN proposals :
    id.proposer = v /\ proposals[id].variable_name = name
      => now >= proposals[id].createTime + LastingPeriod

createProposal(v, details, name, value, now, list, coins) ==
  LET id == [proposer |-> v, details |-> details, time |-> now]
  IN  /\ Len(ProposalsArray) < MaxProposals
      /\ NoneRunning(v, name, now)
      /\ activeProposalMap' = Put(activeProposalMap, id, Electorate(id, list, coins))
      /\ proposals' = Put(proposals, id,
           [createTime |-> now, variable_name |-> name, variable_value |-> value,
            access |-> TRUE, votePowerOfAgree |-> 0, votePowerOfDisagree |-> 0,
            ispassed |-> FALSE, resultExist |-> FALSE])
      /\ ProposalsArray' = Append(ProposalsArray, id)
      /\ hubBalance' = hubBalance + ProposalFee
      /\ UNCHANGED <<startvotes, votes>>

\* Slip: an account may still vote after the verdict.
VotingOpenStill(v, id, now) ==
  /\ id \in DOMAIN proposals
  /\ now < proposals[id].createTime + LastingPeriod
  /\ v \in DOMAIN activeProposalMap[id].individualCoins
  /\ <<v, id>> \notin DOMAIN votes

\* What startVoteProposal and voteProposal both require.
VotingOpen(v, id, now) ==
  /\ id \in DOMAIN proposals
  /\ now < proposals[id].createTime + LastingPeriod
  /\ v \in DOMAIN activeProposalMap[id].individualCoins
  /\ proposals[id].access
  /\ <<v, id>> \notin DOMAIN votes

startVoteProposal(v, id, now) ==
  /\ VotingOpen(v, id, now)
  /\ <<v, id>> \notin DOMAIN startvotes
  /\ startvotes' = Put(startvotes, <<v, id>>, now)
  /\ UNCHANGED <<proposals, activeProposalMap, ProposalsArray, votes, hubBalance>>

Counted(p, auth, coins) ==
  IF auth THEN [p EXCEPT !.votePowerOfAgree = @ + coins]
  ELSE [p EXCEPT !.votePowerOfDisagree = @ + coins]

\* Slip: half of the power is enough.
HalfOf(id) == activeProposalMap[id].totalVotePower \div 2

Majority(id) == activeProposalMap[id].totalVotePower \div 2 + 1

\* Whether the vote of v decides for the proposal.
Passes(v, id, auth) ==
  Counted(proposals[id], auth, activeProposalMap[id].individualCoins[v]).votePowerOfAgree
    >= Majority(id)

\* Slip: a rejected proposal is refunded too.
RefundAnyway(passes, decided) == IF decided THEN ProposalRefund ELSE 0

RefundDue(passes, decided) == IF passes THEN ProposalRefund ELSE 0

voteProposal(v, id, auth, now) ==
  LET p       == Counted(proposals[id], auth, activeProposalMap[id].individualCoins[v])
      passes  == Passes(v, id, auth)
      decided == passes \/ p.votePowerOfDisagree >= Majority(id)
      refund  == RefundDue(passes, decided)
  IN  /\ VotingOpen(v, id, now)
      /\ <<v, id>> \in DOMAIN startvotes /\ startvotes[<<v, id>>] + VoteDelay <= now
      /\ hubBalance >= refund
      /\ votes' = Put(votes, <<v, id>>, auth)
      /\ proposals' = [proposals EXCEPT ![id] =
           [p EXCEPT !.access = ~decided, !.resultExist = decided, !.ispassed = passes]]
      /\ hubBalance' = hubBalance - refund
      /\ UNCHANGED <<activeProposalMap, ProposalsArray, startvotes>>

-----------------------------------------------------------------------------
(***************************************************************************)
(* Properties                                                              *)
(***************************************************************************)

PowerOf(id, auth) ==
  LET coins == activeProposalMap[id].individualCoins
      voters == {w \in DOMAIN coins : <<w, id>> \in DOMAIN votes /\ votes[<<w, id>>] = auth}
  IN  SumFunctionOnSet(coins, voters)

\* The two tallies of a proposal are the weights, at its creation, of those who
\* voted for and against: nobody counts twice, whatever coins do in the meantime.
TallyExact ==
  \A id \in DOMAIN proposals :
    /\ proposals[id].votePowerOfAgree = PowerOf(id, TRUE)
    /\ proposals[id].votePowerOfDisagree = PowerOf(id, FALSE)

CreatedOnce(id) == \A i, j \in DOMAIN ProposalsArray :
  ProposalsArray[i] = id /\ ProposalsArray[j] = id => i = j

\* A verdict has more than half of the power behind it, and a decided proposal
\* takes no more votes.  For and against do not exceed the total, so the opposite
\* verdict is out of reach in any order of the votes: unless the proposal was
\* created a second time under its id, when earlier electors remain.
VerdictByMajority ==
  \A id \in DOMAIN proposals :
    LET p == proposals[id]
        total == activeProposalMap[id].totalVotePower
    IN  /\ p.ispassed => p.resultExist /\ 2 * p.votePowerOfAgree > total
        /\ p.resultExist /\ ~p.ispassed => 2 * p.votePowerOfDisagree > total
        /\ p.access <=> ~p.resultExist
        /\ CreatedOnce(id) => p.votePowerOfAgree + p.votePowerOfDisagree <= total

\* The contract keeps the fee of every proposal, less the refunds of those that
\* passed: creating a proposal twice under one id, or a late vote, pays nothing out.
FeesAccounted ==
  hubBalance = ProposalFee * Len(ProposalsArray)
               - ProposalRefund * Cardinality({id \in DOMAIN proposals : proposals[id].ispassed})

\* Every vote counts once, at its weight when the proposal was made, and the verdict is
\* the majority's (createProposal, voteProposal).
VotesRight == TallyExact /\ VerdictByMajority

\* What was decided stays so: no later vote, and no proposal that gets the same
\* id, changes a proposal with a result.
VerdictFinal ==
  [][\A id \in DOMAIN proposals :
       proposals[id].resultExist => proposals'[id] = proposals[id]]_govVars

=============================================================================
