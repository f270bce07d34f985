------------------------------ MODULE MCTxPool ------------------------------
EXTENDS TxPool

Tx(a, n, price, cost) == [from |-> a, nonce |-> n, price |-> price, cost |-> cost, slots |-> 1]

A0  == Tx("a", 0, 2, 1)
A0x == Tx("a", 0, 4, 1)
A1  == Tx("a", 1, 3, 1)
A2  == [Tx("a", 2, 3, 1) EXCEPT !.slots = 2]
B0  == Tx("b", 0, 1, 2)
B1  == Tx("b", 1, 5, 1)

MCTxs == {A0, A0x, A1, A2, B0, B1}
MCBatches == {<<A0, A1, A2>>, <<A0x>>, <<B0>>, <<B1>>}
MCLocalBatches == {<<B1>>}

X == <<[txs |-> <<A0>>, poor |-> {}]>>
Y == <<[txs |-> << >>, poor |-> {"b"}]>>

MCTree == {<< >>, X, Y}

=============================================================================
