------------------------------- MODULE Parlia -------------------------------
(***************************************************************************)
(* One branch of the chain as the Parlia engine makes it (parlia.go): a    *)
(* validator prepares, finalizes and seals the next block, every node      *)
(* verifies it and applies it to its snapshot.  Branches do not influence  *)
(* each other, a snapshot depends on the headers below it only.            *)
(*                                                                         *)
(* Elections are the lists that getCurrentValidators may read from the     *)
(* staking contract at an epoch block.  The empty list, which the contract *)
(* returns until the first stake, is not one of them: apply would install  *)
(* it and nobody could seal again.  Left out: gas, time and back-off,      *)
(* signatures (a header carries its signer), and the checks of fixed       *)
(* header fields.                                                          *)
(***************************************************************************)
EXTENDS Snapshot

CONSTANTS
  Elections,   \* inputs: the validator lists an epoch block may carry
  MaxNumber    \* bound: the height of the model

ASSUME ElectionAssumption ==
  /\ Elections \subseteq (SUBSET Addrs) \ {{}}
  /\ MaxNumber \in Nat /\ MaxNumber < Wrap

VARIABLES
  chain,       \* the headers of blocks 1, 2, ...
  snap,        \* the snapshot after the last block it could be computed for
  parentSnap   \* the snapshot before that, still in recentSnaps

vars == <<chain, snap, parentSnap>>

Header == [signer : Addrs, difficulty : {diffInTurn, diffNoTurn},
           extra : SUBSET Addrs, forkHash : Range(ForkHash), slashed : SUBSET Addrs]

\* Slip: a signer is let back in one block early.
MustWaitLess(s, v, number) ==
  LET limit == SnapshotLimit(s.Validators)
  IN  \E seen \in DOMAIN s.Recents :
        s.Recents[seen] = v /\ (number < limit \/ seen > number - limit + 1)

\* The loop over Recents that Seal and SignRecently share.
MustWait(s, v, number) ==
  LET limit == SnapshotLimit(s.Validators)
  IN  \E seen \in DOMAIN s.Recents :
        s.Recents[seen] = v /\ (number < limit \/ seen > number - limit)

MaySeal(s, v) == v \in s.Validators /\ ~MustWait(s, v, s.Number + 1)

\* Slip: the head is taken for the block to be made.
SignRecentlyForHead(v) ==
  v \notin parentSnap.Validators \/ MustWait(parentSnap, v, snap.Number)

\* Whether a validator is told to wait when block number is the new head: the
\* snapshot is looked up with the hash of the head's parent.  A snapshot that cannot
\* be read is an error here; SnapshotStore has those.
SignRecently(v) ==
  v \notin parentSnap.Validators \/ MustWait(parentSnap, v, snap.Number + 1)

\* The header that Prepare and FinalizeAndAssemble make.
Prepare(s, v, list) ==
  [signer     |-> v,
   difficulty |-> CalcDifficulty(s, v),
   extra      |-> IF (s.Number + 1) % Epoch = 0 THEN list ELSE {},
   forkHash   |-> ForkHash[v],
   slashed    |-> SpoiledVals(s, v)]

Init ==
  /\ chain = << >> /\ snap = newSnapshot /\ parentSnap = newSnapshot

\* v makes the next block, with the list that the contract holds, and the nodes
\* compute the snapshot after it.  When that fails, they have none from there on.
Seal(v, list) ==
  /\ snap.Number = Len(chain) /\ Len(chain) < MaxNumber
  /\ MaySeal(snap, v)
  /\ chain' = Append(chain, Prepare(snap, v, list))
  /\ IF Applicable(snap, v)
     THEN snap' = apply(snap, chain') /\ parentSnap' = snap
     ELSE UNCHANGED <<snap, parentSnap>>

\* What getCurrentValidators may return, at an epoch block.
Lists == IF (Len(chain) + 1) % Epoch = 0 THEN Elections ELSE {{}}

Next == \E v \in Addrs, list \in Lists : Seal(v, list)

Spec == Init /\ [][Next]_vars

-----------------------------------------------------------------------------
(***************************************************************************)
(* Properties                                                              *)
(***************************************************************************)

SnapshotRec(s) ==
  /\ s.Number \in Nat /\ s.Validators \in (SUBSET Addrs) \ {{}}
  /\ DOMAIN s.Recents \subseteq 1 .. s.Number
  /\ \A k \in DOMAIN s.Recents : s.Recents[k] \in Addrs
  /\ DOMAIN s.RecentForkHashes \subseteq 1 .. s.Number

TypeOK ==
  /\ chain \in Seq(Header)
  /\ SnapshotRec(snap) /\ SnapshotRec(parentSnap)

\* Who may sign next is written three times, in Seal, verifySeal and apply.  The
\* first and the third always agree, also around a change of validators, and
\* verifySeal accepts what they allow: so every node has a snapshot for the head.
\* verifySeal allows no more, except below the limit, where its number-limit wraps.
RulesAgree ==
  /\ snap.Number = Len(chain)
  /\ \A v \in Addrs :
       LET verified == verifySeal(snap, Prepare(snap, v, {}))
       IN  /\ MaySeal(snap, v) <=> Applicable(snap, v)
           /\ MaySeal(snap, v) => verified
           /\ verified => MaySeal(snap, v) \/ snap.Number + 1 < SnapshotLimit(snap.Validators)

\* SignRecently, which the miner asks before it starts on a block, looks at a
\* snapshot that is one block old.  It holds back a validator that may seal only
\* when the last block has changed the set.
HeldBackOnlyAtChange ==
  snap.Validators = parentSnap.Validators =>
    \A v \in Addrs : SignRecently(v) => ~MaySeal(snap, v)

ListOf(k) == IF k <= 0 THEN Genesis ELSE chain[k].extra

\* The validators in force are the ones of the last epoch header that half of
\* their predecessors have signed on top of, whatever the sizes of the lists.
InForceIsElected ==
  LET e == snap.Number - (snap.Number % Epoch)
      old == ListOf(e - Epoch)
  IN  snap.Validators =
        IF snap.Number % Epoch >= Cardinality(old) \div 2 THEN ListOf(e) ELSE old

\* Recents is the abstract window: the last signers, all different, never more
\* of them than the set in force allows.
Window == INSTANCE SigningWindow WITH
  Signers <- Addrs,
  signed  <- [k \in DOMAIN chain |-> chain[k].signer],
  members <- snap.Validators,
  window  <- Cardinality(DOMAIN snap.Recents)

ImplementsWindow == Window!WindowSpec

\* Recents remembers the right signers of the right blocks, with no gap, and so
\* does RecentForkHashes for as many blocks as there are validators.
MapsAreSuffixes ==
  LET Suffix(n) == snap.Number - n + 1 .. snap.Number
      recents == Cardinality(DOMAIN snap.Recents)
      forks == Cardinality(DOMAIN snap.RecentForkHashes)
  IN  /\ recents <= SnapshotLimit(snap.Validators) /\ forks <= Cardinality(snap.Validators)
      /\ snap.Recents = [k \in Suffix(recents) |-> chain[k].signer]
      /\ snap.RecentForkHashes = [k \in Suffix(forks) |-> chain[k].forkHash]

\* The snapshot that apply makes block by block is what the headers say: the set in force
\* is the elected one and the two maps are the last blocks.
SnapshotRight == TypeOK /\ InForceIsElected /\ MapsAreSuffixes

\* Any majority of the validators in force can go on sealing: one of them is
\* always allowed to, however the set changed.
MajorityCanSeal ==
  \A S \in SUBSET snap.Validators :
    2 * Cardinality(S) > Cardinality(snap.Validators) => \E v \in S : MaySeal(snap, v)

\* Only a validator that was free to seal a block, and did not, is slashed for it.
SlashesOnlyIdlers ==
  [][\A v \in chain'[Len(chain')].slashed :
       MaySeal(snap, v) /\ v # chain'[Len(chain')].signer]_chain

=============================================================================
