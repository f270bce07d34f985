------------------------------ MODULE Snapshot ------------------------------
(***************************************************************************)
(* The authorization snapshot of the Parlia engine (snapshot.go): which    *)
(* validators are in force after a block, and which of them signed lately. *)
(* An address is a natural number, ordered as the bytes of the address     *)
(* are.  A header is a record of what the engine reads: its signer, its    *)
(* difficulty, the validator list in its extra data (at epoch blocks), the *)
(* fork hash its signer's client expects next, and the validators its      *)
(* system transactions slash.  Hashes are left out: a chain is a sequence  *)
(* of headers, and the genesis header is the set Genesis at number 0.      *)
(***************************************************************************)
EXTENDS Integers, FiniteSets, Sequences, Functions

CONSTANTS
  Addrs,       \* addresses of validators, as naturals
  Genesis,     \* the validators in the extra data of block 0
  Epoch,       \* config.Epoch
  ForkHash,    \* the next fork hash in the headers a validator makes
  Wrap         \* 2^64: the arithmetic of uint64

ASSUME SnapshotAssumption ==
  /\ Addrs \subseteq Nat /\ IsFiniteSet(Addrs)
  /\ Genesis \subseteq Addrs /\ Genesis # {}
  /\ Epoch \in Nat \ {0} /\ Wrap \in Nat /\ Wrap > Cardinality(Addrs)
  /\ DOMAIN ForkHash = Addrs

\* Half a validator set passes within an epoch: 25 blocks of 200 for 51.
ASSUME EpochAssumption == Cardinality(Addrs) \div 2 < Epoch

diffInTurn == 2
diffNoTurn == 1

MinusU64(a, b) == IF a >= b THEN a - b ELSE Wrap + a - b

Without(f, ks) == Restrict(f, DOMAIN f \ ks)

newSnapshot ==
  [Number |-> 0, Validators |-> Genesis, Recents |-> << >>, RecentForkHashes |-> << >>]

\* Slips: the whole set must sign before a validator may again, or one less.
LimitOfAll(vals) == Cardinality(vals)
LimitOfHalf(vals) == Cardinality(vals) \div 2

SnapshotLimit(vals) == Cardinality(vals) \div 2 + 1

\* Position in ascending order, from 0.
indexOfVal(vals, v) ==
  IF v \in vals THEN Cardinality({w \in vals : w < v}) ELSE -1

Offset(s) == (s.Number + 1) % Cardinality(s.Validators)

supposeValidator(s) ==
  CHOOSE v \in s.Validators : indexOfVal(s.Validators, v) = Offset(s)

inturn(s, v) == v \in s.Validators /\ v = supposeValidator(s)

CalcDifficulty(s, v) == IF inturn(s, v) THEN diffInTurn ELSE diffNoTurn

verifySeal(s, header) ==
  LET number == s.Number + 1
      limit  == SnapshotLimit(s.Validators)
  IN  /\ header.signer \in s.Validators
      /\ \A seen \in DOMAIN s.Recents :
           s.Recents[seen] = header.signer => seen <= MinusU64(number, limit)
      /\ header.difficulty = CalcDifficulty(s, header.signer)

\* Slip: a validator that had to wait is slashed too.
SpoiledAlways(s, v) ==
  {w \in {supposeValidator(s)} : CalcDifficulty(s, v) # diffInTurn}

\* Whom the system transactions of a block by v slash.
SpoiledVals(s, v) ==
  {w \in {supposeValidator(s)} :
     CalcDifficulty(s, v) # diffInTurn /\ w \notin Range(s.Recents)}

\* Slip: the list of the epoch before.
FindOlderHeader(ch, ite) ==
  LET k == Len(ch) - ite - Epoch IN IF k <= 0 THEN Genesis ELSE ch[k].extra

\* The validator list in the header ite blocks before the last one of ch.
FindAncientHeader(ch, ite) ==
  LET k == Len(ch) - ite IN IF k = 0 THEN Genesis ELSE ch[k].extra

-----------------------------------------------------------------------------
(***************************************************************************)
(* apply, for one header: the last one of ch, on the snapshot before it    *)
(***************************************************************************)

\* The oldest signer may sign again.
Shifted(s, number) == Without(s.Recents, {number - SnapshotLimit(s.Validators)})

Applicable(s, v) ==
  /\ v \in s.Validators
  /\ v \notin Range(Shifted(s, s.Number + 1))

\* The numbers a shorter window no longer covers.
Dropped(number, oldLimit, newLimit) ==
  {number - newLimit - i : i \in 0 .. oldLimit - newLimit - 1}

apply(s, ch) ==
  LET number  == s.Number + 1
      header  == ch[number]
      size    == Cardinality(s.Validators)
      recents == [k \in DOMAIN Shifted(s, number) \cup {number} |->
                    IF k = number THEN header.signer ELSE s.Recents[k]]
      forks   == Without(s.RecentForkHashes, {number - size})
      newVals == IF number % Epoch = size \div 2
                 THEN FindAncientHeader(ch, size \div 2) ELSE s.Validators
      kept    == Without(forks, Dropped(number, size, Cardinality(newVals)))
  IN  [Number           |-> number,
       Validators       |-> newVals,
       Recents          |-> Without(recents, Dropped(number, SnapshotLimit(s.Validators),
                                                     SnapshotLimit(newVals))),
       RecentForkHashes |-> [k \in DOMAIN kept \cup {number} |->
                               IF k = number THEN header.forkHash ELSE kept[k]]]

=============================================================================
