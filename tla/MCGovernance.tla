---------------------------- MODULE MCGovernance ----------------------------
(***************************************************************************)
(* Small instances of Governance for TLC.                                  *)
(***************************************************************************)
EXTENDS Governance, TLC

CONSTANTS v1, v2, v3, t1

Symmetry == Permutations(Validators)

NoCalls == {<< >>}

=============================================================================
