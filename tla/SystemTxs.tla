----------------------------- MODULE SystemTxs ------------------------------
(***************************************************************************)
(* The system transactions at the end of a block (parlia.go).  The         *)
(* proposer makes and signs them in FinalizeAndAssemble; a node that       *)
(* processes the block computes them again in Finalize and compares.  A    *)
(* block b is a record of its number, the coinbase that Prepare wrote into *)
(* it, its user transactions ("transfer", "call" or "create") and the fees *)
(* they left at SystemAddress.                                             *)
(*                                                                         *)
(* External: b.refused, the methods that the contracts refuse.  A call has *)
(* the same outcome for every node, it is a function of the state.  So has *)
(* getCurrentValidators, with which Finalize compares the list of an epoch *)
(* header: the list that Prepare wrote is right.                           *)
(***************************************************************************)
EXTENDS Snapshot, SequencesExt

CONSTANT InitContracts  \* the contracts that block 1 initializes, in order

\* The end of a block while it is computed: the system transactions so far, those
\* of the block that are not yet matched, whether the last call failed.
NewWork(received) == [system |-> << >>, received |-> received, err |-> FALSE]

\* The nonce of the coinbase grows by one with each system transaction.
SystemTx(w, method, arg) == [nonce |-> Len(w.system), method |-> method, arg |-> arg]

\* node signs tx itself when it makes the block, and takes it from the block
\* otherwise.  A refused call leaves no trace, but a matched transaction is used up.
applyTransaction(w, b, tx, node, mining) ==
  LET signs == mining /\ b.coinbase = node
      left  == IF signs THEN w.received ELSE Tail(w.received)
  IN  IF ~signs /\ (w.received = << >> \/ Head(w.received) # tx)
      THEN [w EXCEPT !.err = TRUE]
      ELSE IF tx.method \in b.refused
      THEN [w EXCEPT !.err = TRUE, !.received = left]
      ELSE [system |-> Append(w.system, tx), received |-> left, err |-> FALSE]

\* init of the genesis contracts, in block 1: it ends at the first that refuses.
initContract(w, b, node, mining) ==
  IF b.number # 1 THEN w
  ELSE FoldLeft(LAMBDA a, c : IF a.err THEN a
                  ELSE applyTransaction(a, b, SystemTx(a, "init", <<c>>), node, mining),
                w, InitContracts)

slash(w, b, s, node, mining) ==
  LET spoiled == SpoiledVals(s, b.coinbase)
  IN  IF spoiled = {} THEN w
      ELSE applyTransaction(w, b, SystemTx(w, "slash", SetToSeq(spoiled)), node, mining)

\* One pushOwner for each creation and each receipt there is by then, whether the
\* receipt is of a creation or not, and as if mining on every node.
pushOwners(w, b, node) ==
  LET Push(a, j, i) ==
        applyTransaction(a, b, SystemTx(a, "pushContractOwner", <<j, i>>), node, TRUE)
      Receipts(a) == [i \in 1 .. Len(b.txs) + Len(a.system) |-> i]
      ForTx(a, j) == FoldLeft(LAMBDA x, i : Push(x, j, i), a, Receipts(a))
  IN  FoldLeft(LAMBDA a, j : IF b.txs[j] = "create" THEN ForTx(a, j) ELSE a,
               w, [j \in DOMAIN b.txs |-> j])

\* The contracts called so far, by user transactions and then by the engine.
contAddr(w, b) ==
  SelectSeq([j \in DOMAIN b.txs |-> j], LAMBDA j : b.txs[j] = "call")
    \o [k \in DOMAIN w.system |-> -k]

distributeIncoming(w, b, val, node, mining) ==
  LET p == pushOwners(w, b, node)
  IN  IF b.fees = 0 THEN [p EXCEPT !.err = FALSE]
      ELSE applyTransaction(p, b, SystemTx(p, "deposit", <<val>> \o contAddr(w, b)), node, mining)

\* The system transactions of a block that node makes after a parent with snapshot
\* s; err when there is no block.
FinalizeAndAssemble(s, b, node) ==
  distributeIncoming(
    slash(initContract(NewWork(<< >>), b, node, TRUE), b, s, node, TRUE),
    b, node, node, TRUE)

\* Slip: the validator is slashed after the income is handed out.
FinalizeSlashLast(s, b, received, node) ==
  LET w == slash(distributeIncoming(initContract(NewWork(received), b, node, FALSE),
                                    b, b.coinbase, node, FALSE), b, s, node, FALSE)
  IN  ~w.err /\ w.received = << >>

\* Whether node accepts the block b with the system transactions received.
Finalize(s, b, received, node) ==
  LET w == distributeIncoming(
             slash(initContract(NewWork(received), b, node, FALSE), b, s, node, FALSE),
             b, b.coinbase, node, FALSE)
  IN  ~w.err /\ w.received = << >>

=============================================================================
