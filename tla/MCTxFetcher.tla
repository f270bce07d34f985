----------------------------- MODULE MCTxFetcher -----------------------------
EXTENDS TxFetcher

\* What a peer has announced is resolved.  All peers and all hashes are alike, so that one
\* of each stands for all.
Resolved == ResolvedFor(CHOOSE p \in Peers : TRUE, CHOOSE h \in Hashes : TRUE)

=============================================================================
