--------------------------- MODULE MCStakeHistory ---------------------------
(***************************************************************************)
(* Small instances of StakeHistory for TLC.                                *)
(***************************************************************************)
EXTENDS MCValidatorSet, StakeHistory

=============================================================================
