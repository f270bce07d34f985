------------------------------ MODULE MCMiner ------------------------------
EXTENDS Miner

CONSTANTS k1, k2

MCKeys == {k1, k2}
MCValidators == {k1, k2}
MCOwnTurn == {2}

=============================================================================
