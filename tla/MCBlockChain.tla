---------------------------- MODULE MCBlockChain ----------------------------
EXTENDS BlockChain

B(d, t) == [difficulty |-> d, txs |-> t]

\* Two branches: in-turn blocks and a longer one of others, with the same transactions in
\* another order.
A1 == <<B(2, {"t1"})>>
A2 == Append(A1, B(2, {"t2"}))
A3 == Append(A2, B(2, {}))
B1 == <<B(1, {"t2"})>>
B2 == Append(B1, B(1, {"t1"}))
B3 == Append(B2, B(1, {}))
C2 == Append(B1, B(2, {}))

MCTree == {<< >>, A1, A2, A3, B1, B2, B3, C2}
MCLocal == {}

=============================================================================
