------------------------------ MODULE MCParlia ------------------------------
(***************************************************************************)
(* Small instances of Parlia for TLC.                                      *)
(***************************************************************************)
EXTENDS Parlia

\* Two client versions that disagree about the next fork.
TwoForks == [a \in Addrs |-> IF a <= 2 THEN "f1" ELSE "f2"]

\* Lists that shrink, grow and replace the set.
SomeElections == {{1}, {2, 3}, {1, 2, 4}, {1, 2, 3, 4, 5}}

=============================================================================
