---------------------------- MODULE MCOpenVoting ----------------------------
(***************************************************************************)
(* A small instance of OpenVoting for TLC.                                 *)
(***************************************************************************)
EXTENDS OpenVoting

CONSTANTS a, b, c

\* All of the voters, and a list with one of them twice and another one missing.
SomeLists == {<<a, b, c>>, <<a, a, b>>}

\* One voter has half of the power of the three, which one may change between proposals.
SomeCoins == {[v \in Voters |-> IF v = rich THEN 2 ELSE 1] : rich \in {a, b}}

=============================================================================
