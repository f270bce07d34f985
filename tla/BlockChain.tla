----------------------------- MODULE BlockChain -----------------------------
(***************************************************************************)
(* The block chain of a full node (core/blockchain.go): the import of      *)
(* blocks, the choice of the head, the indexes on disk that go with it,    *)
(* the states that are kept, and the way back after a crash.               *)
(*                                                                         *)
(* The chain mutex admits one writer at a time, so that an operation is a  *)
(* job; each write to the database is a step of its own, and the node may  *)
(* crash between any two of them.  A block has a state root of its own.    *)
(* Left out: bad blocks, blocks of the future, fast sync and the freezer,  *)
(* state snapshots, an archive node.                                       *)
(***************************************************************************)
EXTENDS ForkChoice

CONSTANTS
  Tree,            \* the blocks of the network, with the genesis block
  Local,           \* those that the node itself made
  triesInMemory,   \* states below the head that memory keeps
  MaxImports, MaxCrashes, MaxRewinds  \* bounds

Genesis == << >>

TxsOf(b) == IF b = Genesis THEN {} ELSE Header(b).txs

\* No difficulty is negative, so the total does not fall along a branch.  The nonces see
\* to it that a branch has a transaction once.  A branch that is longer by
\* the states that memory keeps is heavier: with difficulties 1 and 2 it is, for forks that
\* are not deeper than that; else the state of the head may be dropped for a lighter block.
ASSUME BlockChainAssumption ==
  /\ << >> \in Tree /\ Local \subseteq Tree
  /\ \A b \in Tree : b \in Seq(Range(b)) /\ Td(b) \in Nat
  /\ \A b \in Tree \ {<< >>} : Parent(b) \in Tree /\ Td(Parent(b)) <= Td(b)
  /\ \A b \in Tree : \A m, n \in 1 .. Number(b) :
       TxsOf(Ancestor(b, m)) \cap TxsOf(Ancestor(b, n)) # {} => m = n
  /\ triesInMemory \in Nat \ {0}
  /\ \A b, c \in Tree : Number(b) >= Number(c) + triesInMemory => Td(b) > Td(c)

VARIABLES
  stored,       \* blocks in the database, with their total difficulty
  canon,        \* number -> canonical block
  lookup,       \* transaction -> number of its block
  head,         \* LastBlock and currentBlock
  header,       \* LastHeader and currentHeader
  disk, mem,    \* the blocks whose state is on disk, in memory
  job,          \* the operation that holds the mutex
  lastCanon,    \* the last canonical block of this import
  announced,    \* block of the last head event
  imports, crashes, rewinds, torn, rewound, midway  \* history

chain   == <<stored, canon, lookup, head, header>>
states  == <<disk, mem>>
history == <<imports, crashes, rewinds, torn, rewound, midway>>
vars    == <<chain, states, job, lastCanon, announced, history>>

\* A job: what it does next; the blocks that it still has to import, and whether none was
\* executed yet; the block that is being made head, the blocks below it that are made head
\* before it, and the head that it replaces; the number to rewind to.
Job(do, todo) ==
  [do |-> do, todo |-> todo, first |-> TRUE, new |-> Genesis, heads |-> << >>,
   old |-> Genesis, to |-> 0]

Idle == Job("idle", << >>)

Running == job.do \notin {"stopped", "down"}

\* The blocks of the branch of b that are numbered from..to.
Branch(b, from, to) == [i \in 1 .. to - from + 1 |-> Ancestor(b, from + i - 1)]

HasState(b) == b \in disk \cup mem
HasBlockAndState(b) == b \in stored /\ HasState(b)

\* The nearest block with a state, from b down.
Rewound(b) ==
  LET n == CHOOSE n \in 0 .. Number(b) :
             /\ HasState(Ancestor(b, n))
             /\ \A m \in n + 1 .. Number(b) : ~HasState(Ancestor(b, m))
  IN  Ancestor(b, n)

\* The verdict on a block, its header being valid.
ValidateBody(b) ==
  IF HasBlockAndState(b) THEN "known"
  ELSE IF Parent(b) \notin stored THEN "unknown"
  ELSE IF ~HasState(Parent(b)) THEN "pruned" ELSE "ok"

Init ==
  /\ stored = {Genesis} /\ canon = [n \in {0} |-> Genesis] /\ lookup = << >>
  /\ head = Genesis /\ header = Genesis
  /\ disk = {Genesis} /\ mem = {}
  /\ job = Idle /\ lastCanon = Genesis /\ announced = Genesis
  /\ imports = 0 /\ crashes = 0 /\ rewinds = 0 
  /\ torn = FALSE /\ rewound = FALSE /\ midway = FALSE

-----------------------------------------------------------------------------
(***************************************************************************)
(* Writes                                                                  *)
(***************************************************************************)

Renumbered(b) ==
  [n \in DOMAIN canon \cup {Number(b)} |-> IF n = Number(b) THEN b ELSE canon[n]]

\* Slip: the transactions of the block are not indexed.
writeHeadOnly(b) ==
  /\ canon' = Renumbered(b)
  /\ head' = b
  /\ header' = IF Number(b) \in DOMAIN canon /\ canon[Number(b)] = b THEN header ELSE b
  /\ UNCHANGED <<stored, lookup>>

\* One batch: the number, the transactions, the head; the header when b was not canonical.
writeHeadBlock(b) ==
  /\ canon' = Renumbered(b)
  /\ lookup' = [t \in DOMAIN lookup \cup TxsOf(b) |-> IF t \in TxsOf(b) THEN Number(b) ELSE lookup[t]]
  /\ head' = b
  /\ header' = IF Number(b) \in DOMAIN canon /\ canon[Number(b)] = b THEN header ELSE b
  /\ UNCHANGED stored

\* The state of b is kept in memory.  Past triesInMemory blocks the canonical state below
\* may be flushed to disk, when enough time was spent, and older states are dropped.
commitState(b) ==
  LET chosen == Number(b) - triesInMemory
      kept   == mem \cup {b}
  IN  IF chosen <= 0 THEN mem' = kept /\ UNCHANGED disk
      ELSE /\ mem' = {c \in kept : Number(c) > chosen}
           /\ \/ UNCHANGED disk
              \/ /\ chosen \in DOMAIN canon /\ canon[chosen] \in kept
                 /\ disk' = disk \cup {canon[chosen]}

\* Slip: the blocks between the fork and b keep the numbers of the old branch.
ToHeadAtOnce(j, b) == [j EXCEPT !.do = "head", !.new = b]

\* Block b is to be the head: at once on the head, else after a reorg.
ToHead(j, b) ==
  LET c == CommonBlock(head, b) IN
  IF Parent(b) = head THEN [j EXCEPT !.do = "head", !.new = b]
  ELSE [j EXCEPT !.do = "reorg", !.new = b, !.old = head,
                 !.heads = Branch(b, Number(c) + 1, Number(b) - 1)]

-----------------------------------------------------------------------------
(***************************************************************************)
(* InsertChain                                                             *)
(***************************************************************************)

\* Known blocks at the front that are not heavier than the head are skipped.
Skipped(b) == HasBlockAndState(b) /\ Td(b) <= Td(head)

Trim(batch) ==
  LET n == CHOOSE n \in 0 .. Len(batch) :
             /\ \A i \in 1 .. n : Skipped(batch[i])
             /\ n < Len(batch) => ~Skipped(batch[n + 1])
  IN  SubSeq(batch, n + 1, Len(batch))

\* A batch comes: the blocks from number n to b.
InsertChain(b, n) ==
  /\ job.do = "idle" /\ n \in 1 .. Number(b) /\ imports < MaxImports
  /\ job' = Job("next", Trim(Branch(b, n, Number(b))))
  /\ lastCanon' = Genesis /\ imports' = imports + 1 /\ midway' = FALSE
  /\ UNCHANGED <<chain, states, announced, crashes, rewinds, torn, rewound>>

\* The verdict on the next block of the batch.
Importing(verdict) ==
  /\ job.do = "next" /\ job.todo # << >>
  /\ ValidateBody(job.todo[1]) = verdict

\* writeKnownBlock
InsertKnown ==
  /\ Importing("known") /\ job.new = Genesis
  /\ job' = ToHead(job, job.todo[1])
  /\ midway' = (midway \/ ~job.first)
  /\ UNCHANGED <<chain, states, lastCanon, announced, imports, crashes, rewinds, torn, rewound>>

\* The block is executed and written, then it is decided whether it becomes the head.
InsertBlock ==
  /\ Importing("ok") /\ job.new = Genesis
  /\ LET b == job.todo[1] IN
     /\ stored' = stored \cup {b}
     /\ commitState(b)
     /\ \E r \in Reorg(b, head, head \in Local) :
          job' = IF r THEN ToHead([job EXCEPT !.first = FALSE], b)
                 ELSE [job EXCEPT !.first = FALSE, !.todo = Tail(@)]
  /\ UNCHANGED <<canon, lookup, head, header, lastCanon, announced, history>>

\* reorg, step by step: each new canonical block below the last is made the head.
ReorgHead ==
  /\ job.do = "reorg" /\ job.heads # << >>
  /\ writeHeadBlock(job.heads[1])
  /\ job' = [job EXCEPT !.heads = Tail(@)]
  /\ UNCHANGED <<states, lastCanon, announced, history>>

\* The canonical numbers above the block that is the head now, up to the first gap.
Above(n) ==
  {m \in DOMAIN canon : m > n /\ n + 1 .. m \subseteq DOMAIN canon}

\* Transactions of the old branch that the new one does not have, its last block aside.
Dropped ==
  LET c == Number(CommonBlock(job.old, job.new)) IN
  (UNION {TxsOf(Ancestor(job.old, n)) : n \in c + 1 .. Number(job.old)})
    \ (UNION {TxsOf(Ancestor(job.new, n)) : n \in c + 1 .. Number(job.new) - 1})

ReorgDelete ==
  /\ job.do = "reorg" /\ job.heads = << >>
  /\ lookup' = Restrict(lookup, DOMAIN lookup \ Dropped)
  /\ canon' = Restrict(canon, DOMAIN canon \ Above(Number(head)))
  /\ job' = [job EXCEPT !.do = "head"]
  /\ UNCHANGED <<stored, head, header, states, lastCanon, announced, history>>

SetNewHead ==
  /\ job.do = "head"
  /\ writeHeadBlock(job.new)
  /\ lastCanon' = job.new
  /\ job' = [Job("next", Tail(job.todo)) EXCEPT !.first = job.first]
  /\ UNCHANGED <<states, announced, history>>

\* insertSideChain: blocks on a pruned parent are stored without state.
SideBlock ==
  /\ Importing("pruned") /\ job.first
  /\ stored' = stored \cup {job.todo[1]}
  /\ job' = [job EXCEPT !.new = job.todo[1], !.todo = Tail(@)]
  /\ UNCHANGED <<canon, lookup, head, header, states, lastCanon, announced, history>>

\* Whether the blocks stored so are as heavy as the head's branch.
HeavyEnough(b) == Td(b) >= Td(head)

\* The next block of the batch ends the side chain, or the batch does.
SideDone ==
  /\ job.do = "next" /\ job.new # Genesis
  /\ job.todo # << >> => ValidateBody(job.todo[1]) # "pruned"

\* A side chain that is heavy enough is executed from its last block with a state on.
SideExecute ==
  /\ SideDone /\ HeavyEnough(job.new)
  /\ job' = Job("next", Branch(job.new, Number(Rewound(job.new)) + 1, Number(job.new)))
  /\ UNCHANGED <<chain, states, lastCanon, announced, history>>

\* The batch ends, and a head event tells of the last canonical block if it is the head.
InsertDone ==
  /\ job.do = "next"
  /\ IF job.new # Genesis THEN SideDone /\ ~HeavyEnough(job.new)
     ELSE job.todo = << >> \/ Importing("unknown") \/ (Importing("pruned") /\ ~job.first)
  /\ job' = Idle
  /\ IF lastCanon # Genesis /\ head = lastCanon
       THEN announced' = head /\ rewound' = FALSE
       ELSE UNCHANGED <<announced, rewound>>
  /\ UNCHANGED <<chain, states, lastCanon, imports, crashes, rewinds, torn, midway>>

-----------------------------------------------------------------------------
(***************************************************************************)
(* SetHead, shutdown, crash and restart                                    *)
(***************************************************************************)

\* At the height of the head it only looks for a state.
SetHead(n) ==
  /\ job.do = "idle" /\ rewinds < MaxRewinds
  /\ IF n = Number(head)
       THEN head' = Rewound(head) /\ UNCHANGED job
       ELSE job' = [Job("rewind", << >>) EXCEPT !.to = n, !.new = header] /\ UNCHANGED head
  /\ rewinds' = rewinds + 1 /\ rewound' = TRUE
  /\ UNCHANGED <<stored, canon, lookup, header, states, lastCanon, announced, imports,
                 crashes, torn, midway>>

\* The header goes down one block, and the head to a block with a state at most there.
RewindHeader ==
  /\ job.do = "rewind" /\ Number(header) > job.to
  /\ header' = Parent(header)
  /\ head' = IF Number(header) - 1 <= Number(head) THEN Rewound(Parent(header)) ELSE head
  /\ UNCHANGED <<stored, canon, lookup, states, job, lastCanon, announced, history>>

\* The heights that are deleted: those above the new header.
Deleted == {Number(b) : b \in {b \in stored : Number(b) > Number(header)}}

\* Every block above goes, on all branches, and its number.
RewindDelete ==
  /\ job.do = "rewind" /\ Number(header) <= job.to
  /\ IF Number(job.new) > job.to
       THEN /\ stored' = {b \in stored : Number(b) \notin Deleted}
            /\ canon' = Restrict(canon, DOMAIN canon \ Deleted)
       ELSE UNCHANGED <<stored, canon>>
  /\ job' = Idle
  /\ UNCHANGED <<lookup, head, header, states, lastCanon, announced, history>>

\* The states that Stop writes to disk, as offsets from the head.
Offsets == {0, 1, triesInMemory - 1}

Stop ==
  /\ job.do = "idle" /\ crashes < MaxCrashes
  /\ disk' = disk \cup (mem \cap {canon[Number(head) - o] :
                                   o \in {o \in Offsets : Number(head) > o}})
  /\ mem' = {} /\ job' = Job("stopped", << >>) /\ crashes' = crashes + 1
  /\ UNCHANGED <<chain, lastCanon, announced, imports, rewinds, torn, rewound, midway>>

\* The index of the old branch is gone, and the new head is not yet written.
InReorg == job.do = "head" /\ Parent(job.new) # head

Crash ==
  /\ Running /\ crashes < MaxCrashes
  /\ mem' = {} /\ job' = Job("down", << >>) /\ crashes' = crashes + 1
  /\ torn' = (torn \/ InReorg)
  /\ UNCHANGED <<chain, disk, lastCanon, announced, imports, rewinds, rewound, midway>>

\* Slip: the head is taken as it is.
RestartOnly ==
  /\ ~Running
  /\ job' = Idle /\ announced' = head
  /\ UNCHANGED <<chain, states, lastCanon, history>>

\* NewBlockChain: the head goes down to a block with a state.  The header stays.
Restart ==
  /\ ~Running
  /\ head' = Rewound(head) /\ announced' = Rewound(head)
  /\ job' = Idle
  /\ UNCHANGED <<stored, canon, lookup, header, states, lastCanon, history>>

Next ==
  \/ \E b \in Tree : \E n \in 1 .. Number(b) : InsertChain(b, n)
  \/ InsertKnown \/ InsertBlock \/ SideBlock \/ SideExecute \/ InsertDone
  \/ ReorgHead \/ ReorgDelete \/ SetNewHead
  \/ \E b \in Tree : SetHead(Number(b))
  \/ RewindHeader \/ RewindDelete
  \/ Stop \/ Crash \/ Restart

Spec == Init /\ [][Next]_vars

-----------------------------------------------------------------------------
(***************************************************************************)
(* Properties                                                              *)
(***************************************************************************)

\* Types; the head and the header are blocks of the database, and no block has two numbers.
TypeOK ==
  /\ stored \subseteq Tree /\ head \in stored /\ header \in stored
  /\ disk \cup mem \subseteq Tree
  /\ IsInjective(canon) /\ Range(canon) \subseteq Tree
  /\ job.do \in {"idle", "next", "reorg", "head", "rewind", "stopped", "down"}

\* After every single write to the database (in the middle of a reorganisation, of a rewind,
\* after a crash at any of them) the canonical numbers up to the head are those of the
\* head's own ancestors: the order of writes in reorg and SetHead.
CanonIsHeadsBranch ==
  \A n \in 0 .. Number(head) : n \in DOMAIN canon /\ canon[n] = Ancestor(head, n)

\* Between operations every transaction of the head's branch is found under the number of
\* its block, also when branches with the same transactions in other blocks replaced one
\* another.  Excepted: a crash after reorg deleted the entries of the old branch and
\* before writeHeadBlock wrote the new head; the old head is then the head again.
TxsIndexed ==
  job.do = "idle" /\ ~torn =>
    \A n \in 1 .. Number(head) : \A t \in TxsOf(Ancestor(head, n)) :
      t \in DOMAIN lookup /\ lookup[t] = n

\* Between operations the state of the head is there, although older states are dropped
\* (tryCommitTrieDB) and those in memory are lost by a crash.
HeadHasState == job.do = "idle" => HasState(head)

\* Between operations the last head event is about the head (the pool and the miner work on
\* the block of the last event).  Excepted: SetHead, which sends none.
HeadAnnounced == job.do = "idle" => announced = head \/ rewound

\* The head is in the database, its state is there, and it was announced.
HeadRight == TypeOK /\ HeadHasState /\ HeadAnnounced

\* Head events are of ever heavier branches.  Excepted: after SetHead and a restart, and a
\* known block that follows an executed one in a batch, which insertChain makes the head
\* whatever its total difficulty.
TdGrows ==
  announced' # announced => Td(announced') >= Td(announced) \/ ~Running \/ rewound \/ midway

\* After an orderly shutdown the node comes back with the head it had (Stop, NewBlockChain).
StopKeepsHead == job.do = "stopped" => head' = head

\* The head moves to heavier branches only, and a shutdown does not move it.
HeadMovesRight == [][TdGrows /\ StopKeepsHead]_vars

=============================================================================
