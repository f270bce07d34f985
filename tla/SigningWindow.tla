--------------------------- MODULE SigningWindow ----------------------------
(***************************************************************************)
(* What Parlia promises about who signs: a validator that signed one of    *)
(* the last n/2 blocks waits, where n is the number of members, and the    *)
(* set of members may be replaced at any block.  When it grows, the window *)
(* grows by one with every block, for the signers of earlier blocks are    *)
(* forgotten.                                                              *)
(***************************************************************************)
EXTENDS Integers, FiniteSets, Sequences

CONSTANT Signers          \* everybody who may ever be a member

VARIABLES signed,         \* who signed block 1, 2, ...
          members,        \* who may sign now
          window          \* how many of the last blocks are remembered

windowVars == <<signed, members, window>>

AtMost(a, b) == IF a <= b THEN a ELSE b

Limit(S) == Cardinality(S) \div 2 + 1

Memory == AtMost(window, Cardinality(members) \div 2)

Blocked == {signed[k] : k \in Len(signed) - Memory + 1 .. Len(signed)}

\* The sets that may be in force.
Councils == {S \in SUBSET Signers : S # {} /\ IsFiniteSet(S)}

WindowInit ==
  /\ signed = << >> /\ window = 0
  /\ members \in Councils

Sign(v, new) ==
  /\ v \in members \ Blocked
  /\ signed'  = Append(signed, v)
  /\ members' = new
  /\ window'  = AtMost(Memory + 1, Limit(new))

WindowNext == \E v \in Signers, new \in Councils : Sign(v, new)

WindowSpec == WindowInit /\ [][WindowNext]_windowVars

=============================================================================
