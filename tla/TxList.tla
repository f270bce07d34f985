------------------------------- MODULE TxList -------------------------------
(***************************************************************************)
(* The lists of the transaction pool (core/tx_list.go, txLookup of         *)
(* core/tx_pool.go).                                                       *)
(*                                                                         *)
(* A transaction is a record of its sender, nonce, gas price, cost and     *)
(* size in slots.  A list is a set of transactions with one per sender and *)
(* nonce.  The lookup, the price heap and the lists of all senders are     *)
(* fields of a pool p:                                                     *)
(*   pending, queue   the lists                                            *)
(*   local, remote    the lookup of all transactions                       *)
(*   heap, stales     remote transactions, cheapest first, and the number  *)
(*                    of its entries that are thought to be stale          *)
(* Left out: gas limits and the cached caps of a list.                     *)
(***************************************************************************)
EXTENDS Integers, Sequences, FiniteSets, SequencesExt

CONSTANT PriceBump   \* percent by which a replacement must pay more

Of(S, a) == {t \in S : t.from = a}
At(S, t) == {u \in S : u.from = t.from /\ u.nonce = t.nonce}
Above(S, n) == {t \in S : t.nonce > n}

ByNonce(S) == SetToSortSeq(S, LAMBDA t, u : t.nonce < u.nonce)

\* The n transactions of lowest nonce.
Lowest(S, n) == {t \in S : Cardinality({u \in S : u.nonce < t.nonce}) < n}

Better(t, old) ==
  /\ t.price > old.price
  /\ t.price >= (old.price * (100 + PriceBump)) \div 100

\* Whether t can enter list S.
Fits(S, t) == \A u \in At(S, t) : Better(t, u)

\* The run of nonces from the lowest on, if that is at most start.
Ready(S, start) ==
  {t \in S : \E low \in {u.nonce : u \in S} :
     /\ low <= start /\ \A u \in S : u.nonce >= low
     /\ \A n \in low .. t.nonce : \E u \in S : u.nonce = n}

-----------------------------------------------------------------------------
All(p) == p.local \cup p.remote

Slots(S) == MapThenSumSet(LAMBDA t : t.slots, S)

AllRemove(p, S) == [p EXCEPT !.local = @ \ S, !.remote = @ \ S]

\* The order of the heap: cheaper first, then the higher nonce.
Worse(t, u) == t.price < u.price \/ (t.price = u.price /\ t.nonce > u.nonce)

Reheap(p) == [p EXCEPT !.stales = 0, !.heap = SetToSortSeq(p.remote, Worse)]

\* n entries have become stale; the heap is rebuilt when more than a quarter is.
Removed(p, n) ==
  IF p.stales + n <= Len(p.heap) \div 4 THEN [p EXCEPT !.stales = @ + n] ELSE Reheap(p)

\* A transaction enters the lookup, and the heap if it is remote.
Put(p, t, isLocal) ==
  IF isLocal THEN [p EXCEPT !.local = @ \cup {t}]
  ELSE LET cheaper == Len(SelectSeq(p.heap, LAMBDA u : Worse(u, t)))
       IN  [p EXCEPT !.remote = @ \cup {t}, !.heap = InsertAt(@, cheaper + 1, t)]

\* Slip: the old transaction stays in the lookup.
ListAddOnly(p, f, t) == [p EXCEPT ![f] = (@ \ At(@, t)) \cup {t}]

\* t enters list f, in place of the transaction with its nonce.
ListAdd(p, f, t) ==
  LET old == At(p[f], t)
      q   == [p EXCEPT ![f] = (@ \ old) \cup {t}]
  IN  IF old = {} THEN q ELSE Removed(AllRemove(q, old), 1)

\* The account becomes local, and what it has in the pool with it.
RemoteToLocals(p, a) ==
  LET moved == Of(p.remote, a)
  IN  Removed([p EXCEPT !.locals = @ \cup {a}, !.local = @ \cup moved, !.remote = @ \ moved],
              Cardinality(moved))

\* Stale entries at the front of the heap are dropped.
Fresh(p) ==
  LET first == SelectInSeq(p.heap, LAMBDA t : t \in p.remote)
      n     == IF first = 0 THEN Len(p.heap) ELSE first - 1
  IN  [p EXCEPT !.heap = SubSeq(@, n + 1, Len(@)), !.stales = @ - n]

\* The heap is not empty and its cheapest transaction pays at least as much.
Underpriced(p, t) == p.heap # << >> /\ p.heap[1].price >= t.price

\* The cheapest transactions that make up n slots leave the heap.  If there are not enough,
\* they go back, unless the room is forced.
Discard(p, n, force) ==
  LET live(k)   == SelectSeq(SubSeq(p.heap, 1, k), LAMBDA t : t \in p.remote)
      slots(k)  == FoldLeft(LAMBDA sum, t : sum + t.slots, 0, live(k))
      enough    == {k \in 0 .. Len(p.heap) : slots(k) >= n}
      k         == IF enough = {} THEN Len(p.heap) ELSE Min(enough)
      q         == [p EXCEPT !.heap = SubSeq(@, k + 1, Len(@)), !.stales = @ - (k - Len(live(k)))]
  IN  IF enough = {} /\ ~force
        THEN [ok |-> FALSE, drop |-> << >>, p |-> [q EXCEPT !.heap = live(k)]]
        ELSE [ok |-> TRUE, drop |-> live(k), p |-> q]

\* The transactions that pay less than price leave the heap.
CapPrice(p, price) ==
  LET first == SelectInSeq(p.heap, LAMBDA t : t \in p.remote /\ t.price >= price)
      n     == IF first = 0 THEN Len(p.heap) ELSE first - 1
      drop  == SelectSeq(SubSeq(p.heap, 1, n), LAMBDA t : t \in p.remote)
  IN  [drop |-> drop,
       p    |-> [p EXCEPT !.heap = SubSeq(@, n + 1, Len(@)), !.stales = @ - (n - Len(drop))]]

=============================================================================
