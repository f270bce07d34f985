--------------------------- MODULE MCValidatorSet ---------------------------
(***************************************************************************)
(* Small instances of ValidatorSet for TLC.                                *)
(***************************************************************************)
EXTENDS StakeLedger, TLC

CONSTANTS v1, v2, v3, d1, d2, o1, o2, c1, c2

Symmetry == Permutations(Validators)

\* Who delegates to whom.
NoDelegations   == {}
OneDelegator    == {d1} \X Validators
WithSelf        == (Delegators \cup {v1}) \X {v1}

\* Which contracts the transactions of a block call.
NoCalls   == {<< >>}
OneCall   == {<< >>, <<c1>>}
SomeCalls == {<< >>, <<c1>>, <<c1, c2>>, <<c1, c1, c2>>}

=============================================================================
