--------------------------- MODULE SnapshotStore ----------------------------
(***************************************************************************)
(* How one node gets at the snapshots of Parlia (parlia.go, snapshot): an  *)
(* in-memory cache, checkpoints on disk, and headers applied on top of     *)
(* what is found.  The headers of a batch are verified one by one ahead of *)
(* being stored, block by block as their transactions are processed, while *)
(* the miner and the RPC ask for snapshots too and while the node may      *)
(* crash.                                                                  *)
(*                                                                         *)
(* A hash is the sequence of headers up to the block it belongs to.        *)
(* External: the replacement policy of the ARC cache, any entry but the    *)
(* new one may go; the chain's header database.                            *)
(***************************************************************************)
EXTENDS SystemTxs

CONSTANTS
  Branches,            \* inputs: header sequences of valid blocks, with common prefixes
  checkpointInterval,  \* blocks between snapshots on disk
  inmemorySnapshots,   \* the size of the cache
  Self,                \* the address that this node seals with
  MaxCrashes           \* bound: restarts of the node

Hashes == UNION {{SubSeq(ch, 1, n) : n \in 0 .. Len(ch)} : ch \in Branches}

Number(h) == Len(h)
Parent(h) == Front(h)

\* What apply computes from the genesis on, without cache or disk.
Reference[h \in Hashes] ==
  IF h = << >> THEN newSnapshot ELSE apply(Reference[Parent(h)], h)

\* The block of a header, and the end that its proposer gave it.
Block(h) ==
  [number |-> Number(h), coinbase |-> Last(h).signer,
   txs |-> Last(h).txs, fees |-> Last(h).fees, refused |-> Last(h).refused]

Assembled(h) == FinalizeAndAssemble(Reference[Parent(h)], Block(h), Last(h).signer)

ASSUME StoreAssumption ==
  /\ Hashes # {} /\ MaxCrashes \in Nat
  /\ checkpointInterval \in Nat \ {0} /\ inmemorySnapshots \in Nat \ {0}

ASSUME ValidBranches ==
  \A h \in Hashes \ {<< >>} :
    /\ Applicable(Reference[Parent(h)], Last(h).signer)
    /\ verifySeal(Reference[Parent(h)], Last(h))
    /\ ~Assembled(h).err

VARIABLES
  stored,       \* hashes of the blocks in the database
  recentSnaps,  \* in-memory snapshots by hash
  disk,         \* checkpoint snapshots by hash
  batch,        \* the headers handed to VerifyHeaders: up to this hash,
  base,         \*   after this number,
  verified,     \*   those up to this number found right,
  written,      \*   those up to this number stored
  refused,      \* whether a header of a batch has been refused
  crashes

vars == <<stored, recentSnaps, disk, batch, base, verified, written, refused, crashes>>

NoSnapshot == [Number |-> -1]

-----------------------------------------------------------------------------
(***************************************************************************)
(* snapshot(number, hash, parents): parents are the headers base+1 .. last *)
(* of hash, that may not be stored yet                                     *)
(***************************************************************************)

Prefix(h, n) == SubSeq(h, 1, n)

InMemory(h) == h \in DOMAIN recentSnaps
OnDisk(h) == Number(h) % checkpointInterval = 0 /\ h \in DOMAIN disk

\* Where the search backwards from h ends.
Start(h) ==
  Max({n \in 0 .. Number(h) : InMemory(Prefix(h, n)) \/ OnDisk(Prefix(h, n)) \/ n = 0})

StartSnapshot(h) ==
  LET p == Prefix(h, Start(h))
  IN  IF InMemory(p) THEN recentSnaps[p] ELSE IF OnDisk(p) THEN disk[p] ELSE newSnapshot

\* The header n of h: from the parents that are left, or from the database.
Reachable(h, n, first, last) ==
  n \in first .. last \/ Prefix(h, n) \in stored

\* apply to the headers after start, of which FindAncientHeader sees only those
\* of the parents that the search has not taken.
ApplyTo(h, start, snap, first) ==
  FoldLeft(LAMBDA s, n :
             LET half == Cardinality(s.Validators) \div 2
             IN  IF s = NoSnapshot \/ ~Applicable(s, h[n].signer) THEN NoSnapshot
                 ELSE IF n % Epoch = half
                         /\ \E k \in n - half .. n - 1 : ~Reachable(h, k, first, start)
                 THEN NoSnapshot ELSE apply(s, Prefix(h, n)),
           snap, [i \in 1 .. Number(h) - start |-> start + i])

\* The snapshot after block h, when the headers from first on are in parents.
snapshot(h, first) ==
  IF \A n \in Start(h) + 1 .. Number(h) : Reachable(h, n, first, Number(h))
  THEN ApplyTo(h, Start(h), StartSnapshot(h), first) ELSE NoSnapshot

Stores(h, snap) == snap.Number % checkpointInterval = 0 /\ Start(h) < Number(h)

\* Slip: the headers are applied to the cached snapshot itself, not to a copy.
AddShared(h, snap) ==
  recentSnaps' = IF InMemory(Prefix(h, Start(h)))
                 THEN [p \in {Prefix(h, Start(h)), h} |-> snap]
                 ELSE (h :> snap)

\* Adds to a cache that makes room when it is full.
Add(h, snap) ==
  LET kept == DOMAIN recentSnaps \ {h}
  IN  \E gone \in SUBSET kept :
        /\ Cardinality(gone) = IF Cardinality(kept) < inmemorySnapshots THEN 0 ELSE 1
        /\ recentSnaps' = (h :> snap) @@ Restrict(recentSnaps, kept \ gone)

\* The cache and the disk after a call that found snap; the genesis snapshot is
\* stored as soon as the search comes to it.
Remember(h, snap) ==
  LET genesis == IF Start(h) = 0 /\ ~InMemory(<< >>) THEN (<< >> :> newSnapshot) ELSE << >>
      checkpoint == IF snap # NoSnapshot /\ Stores(h, snap) THEN (h :> snap) ELSE << >>
  IN  /\ disk' = checkpoint @@ genesis @@ disk
      /\ IF snap = NoSnapshot THEN UNCHANGED recentSnaps ELSE Add(h, snap)

-----------------------------------------------------------------------------
Init ==
  /\ stored = {<< >>} /\ recentSnaps = << >> /\ disk = << >>
  /\ batch = << >> /\ base = 0 /\ verified = 0 /\ written = 0
  /\ refused = FALSE /\ crashes = 0

Idle == written = Number(batch)

\* A peer's headers up to h, on top of a stored block.
VerifyHeaders(h, n) ==
  /\ Idle /\ h \notin stored /\ Prefix(h, n) \in stored
  /\ batch' = h /\ base' = n /\ verified' = n /\ written' = n /\ refused' = FALSE
  /\ UNCHANGED <<stored, recentSnaps, disk, crashes>>

DropBatch == batch' = << >> /\ base' = 0 /\ verified' = 0 /\ written' = 0

\* verifyHeader, for the next header of the batch; the ones before it are parents.
VerifyNext ==
  /\ verified < Number(batch)
  /\ LET h == Prefix(batch, verified)
         snap == snapshot(h, base + 1)
         right == snap # NoSnapshot /\ verifySeal(snap, batch[verified + 1])
     IN  /\ Remember(h, snap)
         /\ IF right THEN verified' = verified + 1 /\ UNCHANGED <<batch, base, written>>
            ELSE DropBatch
         /\ refused' = ~right
  /\ UNCHANGED <<stored, crashes>>

\* The next verified block is processed and written.
InsertBlock ==
  /\ written < verified
  /\ LET h == Prefix(batch, written + 1)
         snap == snapshot(Parent(h), Number(h))
         right == snap # NoSnapshot /\ Finalize(snap, Block(h), Assembled(h).system, Self)
     IN  /\ Remember(Parent(h), snap)
         /\ IF right THEN written' = written + 1 /\ UNCHANGED <<batch, base, verified>>
            ELSE DropBatch
         /\ refused' = ~right
         /\ stored' = IF right THEN stored \cup {h} ELSE stored
  /\ UNCHANGED crashes

\* A chain of headers without blocks is written when all of it is verified.
InsertHeaderChain ==
  /\ ~Idle /\ verified = Number(batch)
  /\ stored' = stored \cup {Prefix(batch, n) : n \in written + 1 .. verified}
  /\ written' = verified
  /\ UNCHANGED <<recentSnaps, disk, batch, base, verified, refused, crashes>>

\* The miner or the RPC asks for the snapshot after a block of the database.
Query(h) ==
  /\ h \in stored
  /\ Remember(h, snapshot(h, Number(h) + 1))
  /\ UNCHANGED <<stored, batch, base, verified, written, refused, crashes>>

\* The node seals a block, and writes it without verifying it.
SealOwn(h) ==
  /\ h \notin stored /\ h # << >> /\ Parent(h) \in stored /\ Last(h).signer = Self
  /\ Remember(Parent(h), snapshot(Parent(h), Number(h)))
  /\ stored' = stored \cup {h}
  /\ UNCHANGED <<batch, base, verified, written, refused, crashes>>

Crash ==
  /\ crashes < MaxCrashes /\ crashes' = crashes + 1
  /\ recentSnaps' = << >> /\ DropBatch /\ refused' = FALSE
  /\ UNCHANGED <<stored, disk>>

Next ==
  \/ \E h \in Hashes : \E n \in 0 .. Number(h) - 1 : VerifyHeaders(h, n)
  \/ VerifyNext \/ InsertBlock \/ InsertHeaderChain
  \/ \E h \in Hashes : Query(h) \/ SealOwn(h)
  \/ Crash

Spec == Init /\ [][Next]_vars

-----------------------------------------------------------------------------
(***************************************************************************)
(* Properties                                                              *)
(***************************************************************************)

TypeOK ==
  /\ stored \subseteq Hashes /\ batch \in Hashes
  /\ DOMAIN recentSnaps \subseteq Hashes /\ DOMAIN disk \subseteq Hashes
  /\ Cardinality(DOMAIN recentSnaps) <= inmemorySnapshots
  /\ 0 <= base /\ base <= written /\ written <= verified /\ verified <= Number(batch)
  /\ refused \in BOOLEAN /\ crashes \in 0 .. MaxCrashes

\* Whatever was evicted or lost in a crash, the snapshot of every block in the
\* database can be had, and it is the one that the headers alone determine: a
\* checkpoint, a cached entry of another branch and an unstored parent never leak
\* into it.
SnapshotsExact ==
  /\ \A h \in DOMAIN recentSnaps : recentSnaps[h] = Reference[h]
  /\ \A h \in DOMAIN disk : disk[h] = Reference[h]
  /\ \A h \in stored : snapshot(h, Number(h) + 1) = Reference[h]

\* Cache, disk and batch are within their bounds and hold exact snapshots.
StoreRight == TypeOK /\ SnapshotsExact

\* The snapshot before the last verified header has been evicted meanwhile.
Evicted == Start(Prefix(batch, verified)) < verified - 1

\* The next block is one the node made itself, with a contract creation.
OwnCreation ==
  LET b == Block(Prefix(batch, written + 1))
  IN  b.coinbase = Self /\ "create" \in ToSet(b.txs)

\* A node refuses no valid block, in any batch, after any crash.  Two exceptions:
\* a header whose epoch header was taken from the batch to rebuild an evicted
\* snapshot, where apply no longer finds it; and a block of its own that
\* creates a contract and that it has to process again, where pushOwner makes
\* the transactions anew instead of matching them.
ValidAccepted ==
  [][refused' => refused \/ Evicted \/ OwnCreation]_vars

=============================================================================
