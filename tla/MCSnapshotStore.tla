-------------------------- MODULE MCSnapshotStore ---------------------------
(***************************************************************************)
(* A small instance of SnapshotStore for TLC.                              *)
(***************************************************************************)
EXTENDS SnapshotStore

TwoContracts == <<1, 2>>

OneFork == [a \in Addrs |-> "f"]

Header(v, difficulty, list, txs, fees, ref) ==
  [signer |-> v, difficulty |-> difficulty, extra |-> list, forkHash |-> "f",
   txs |-> txs, fees |-> fees, refused |-> ref]

Stem == <<Header(2, 2, {}, <<"call">>, 1, {"init"}),
          Header(1, 1, {}, <<"create", "transfer">>, 2, {})>>

\* Block 3 elects another set in each branch; it is in force after block 4.
TwoBranches ==
  {Stem \o <<Header(2, 1, {2, 3, 4}, <<"create">>, 0, {"slash"}),
             Header(3, 1, {}, <<"create", "create">>, 3, {}),
             Header(4, 2, {}, <<"create", "call">>, 1, {"pushContractOwner"})>>,
   Stem \o <<Header(3, 1, {1, 2}, << >>, 1, {}),
             Header(2, 2, {}, << >>, 0, {})>>}

=============================================================================
