------------------------------- MODULE TxPool -------------------------------
(***************************************************************************)
(* The transaction pool (core/tx_pool.go, tx_noncer.go, tx_journal.go):    *)
(* the threads that add transactions, the loop that receives head events,  *)
(* the loop that schedules runs of runReorg, and the run itself, which     *)
(* holds the pool lock and sends its events after it has given it back.    *)
(*                                                                         *)
(* A block is a sequence of records (ForkChoice) of its transactions and   *)
(* of the accounts that are poor after it.  Besides the fields of TxList a *)
(* pool has the virtual nonces, the local accounts, the least price and    *)
(* the block whose state it works on.  Left out: gas limits, signatures,   *)
(* forks, heartbeats (any account may be evicted, and the queue is cut in  *)
(* any order of accounts), blocks that are gone from the database.         *)
(***************************************************************************)
EXTENDS ForkChoice, TxList

CONSTANTS
  Accounts, Tree,
  Txs, Batches, LocalBatches,   \* sequences of transactions from peers, and from users
  AccountSlots, GlobalSlots, AccountQueue, GlobalQueue,
  maxDepth,        \* the deepest reorganisation whose transactions come back
  Prices,          \* the least prices that may be set
  Adders,          \* threads in AddLocals and AddRemotes
  MaxAdds, MaxHeads, MaxRestarts  \* bounds

ASSUME TxPoolAssumption ==
  /\ << >> \in Tree /\ \A b \in Tree \ {<< >>} : Parent(b) \in Tree
  /\ {AccountSlots, GlobalSlots, AccountQueue, GlobalQueue} \subseteq Nat \ {0}

VARIABLES
  pool,
  journal,       \* local transactions on disk
  adder,         \* per thread, the accounts that it has to ask promotion for
  head,          \* head of the event loop
  reset, dirty, launchNextRun, queuedEvents,  \* the next run
  run,           \* the run that is active
  told,          \* transactions of the events that were sent
  saved,         \* history: every transaction that was journaled
  adds, heads, restarts

scheduled == <<reset, dirty, launchNextRun, queuedEvents>>
bounds    == <<adds, heads, restarts>>
vars      == <<pool, journal, adder, head, scheduled, run, told, saved, bounds>>

\* External: the state after block b.
GetNonce(b, a) ==
  FoldLeft(LAMBDA n, r : n + Len(SelectSeq(r.txs, LAMBDA t : t.from = a)), 0, b)
GetBalance(b, a) == IF b = << >> \/ a \notin Last(b).poor THEN 2 ELSE 1

EmptyPool(b) ==
  [pending |-> {}, queue |-> {}, local |-> {}, remote |-> {}, heap |-> << >>, stales |-> 0,
   nonces |-> [a \in Accounts |-> GetNonce(b, a)], locals |-> {}, gasPrice |-> 1, head |-> b]

Init ==
  /\ pool = EmptyPool(<< >>) /\ journal = {} /\ adder = [i \in Adders |-> << >>]
  /\ head = << >> /\ reset = << >> /\ dirty = {} /\ launchNextRun = FALSE
  /\ queuedEvents = {} /\ run = << >> /\ told = {} /\ saved = {}
  /\ adds = 0 /\ heads = 0 /\ restarts = 0

-----------------------------------------------------------------------------
(***************************************************************************)
(* Removal and addition, under the lock                                    *)
(***************************************************************************)

\* Transactions that are pending no more go to the queue; the lookup keeps them.
Demoted(p, S) ==
  FoldLeft(LAMBDA q, t : IF Fits(q.queue, t) THEN ListAdd(q, "queue", t) ELSE q, p, ByNonce(S))

setIfLower(p, a, n) == [p EXCEPT !.nonces[a] = IF n < @ THEN n ELSE @]

\* Slip: the virtual nonce stays.
removeTxOnly(p, t, outofbound) ==
  IF t \notin All(p) THEN p
  ELSE LET q     == IF outofbound THEN Removed(AllRemove(p, {t}), 1) ELSE AllRemove(p, {t})
           later == Above(Of(p.pending, t.from), t.nonce)
       IN  IF At(p.pending, t) # {}
             THEN Demoted([q EXCEPT !.pending = (@ \ At(@, t)) \ later], later)
             ELSE [q EXCEPT !.queue = @ \ At(@, t)]

\* The later transactions of the sender fall back to the queue.
removeTx(p, t, outofbound) ==
  IF t \notin All(p) THEN p
  ELSE LET q     == IF outofbound THEN Removed(AllRemove(p, {t}), 1) ELSE AllRemove(p, {t})
           later == Above(Of(p.pending, t.from), t.nonce)
       IN  IF At(p.pending, t) # {}
             THEN setIfLower(Demoted([q EXCEPT !.pending = (@ \ At(@, t)) \ later], later),
                             t.from, t.nonce)
             ELSE [q EXCEPT !.queue = @ \ At(@, t)]

RemoveAll(p, txs, outofbound) == FoldLeft(LAMBDA q, t : removeTx(q, t, outofbound), p, txs)

validateTx(p, t, isLocal) ==
  /\ isLocal \/ t.price >= p.gasPrice
  /\ GetNonce(p.head, t.from) <= t.nonce
  /\ GetBalance(p.head, t.from) >= t.cost

Limit == GlobalSlots + GlobalQueue

\* Room for t.  The test counts transactions, the room is in slots.
makeRoom(p, t, isLocal) ==
  IF Cardinality(All(p)) + t.slots <= Limit THEN [ok |-> TRUE, p |-> p]
  ELSE LET q == IF isLocal THEN p ELSE Fresh(p)
           d == Discard(q, Slots(All(p)) - Limit + t.slots, isLocal)
       IN  IF ~isLocal /\ Underpriced(q, t) THEN [ok |-> FALSE, p |-> q]
           ELSE [ok |-> d.ok, p |-> RemoveAll(d.p, d.drop, FALSE)]

\* An event replaces one of the same sender and nonce.
putEvent(E, t) == (E \ At(E, t)) \cup {t}

\* t enters list f of pool p, where there is room.
addTo(r, p, f, t, isLocal, local) ==
  LET in    == Put(ListAdd(p, f, t), t, isLocal)
      owner == local /\ f = "queue" /\ t.from \notin p.locals
  IN  [p       |-> IF owner THEN RemoteToLocals(in, t.from) ELSE in,
       dirty   |-> IF At(p[f], t) = {} THEN r.dirty \cup {t.from} ELSE r.dirty,
       events  |-> IF f = "pending" THEN putEvent(r.events, t) ELSE r.events,
       journal |-> IF owner \/ t.from \in p.locals THEN r.journal \cup {t} ELSE r.journal]

addIn(r, room, t, isLocal, local) ==
  LET f == IF At(room.p.pending, t) # {} THEN "pending" ELSE "queue"
  IN  IF ~room.ok \/ ~Fits(room.p[f], t) THEN [r EXCEPT !.p = room.p]
      ELSE addTo(r, room.p, f, t, isLocal, local)

\* Transaction t, with what earlier ones of the batch have brought about.
add(r, t, local) ==
  LET isLocal == local \/ t.from \in r.p.locals
  IN  IF t \in All(r.p) \/ ~validateTx(r.p, t, isLocal) THEN r
      ELSE addIn(r, makeRoom(r.p, t, isLocal), t, isLocal, local)

addTxsLocked(p, txs, local) ==
  FoldLeft(LAMBDA r, t : add(r, t, local),
           [p |-> p, dirty |-> {}, events |-> {}, journal |-> {}], txs)

queueTxEvents(E, new) == {e \in E : At(new, e) = {}} \cup new

-----------------------------------------------------------------------------
(***************************************************************************)
(* The parts of runReorg                                                   *)
(***************************************************************************)

\* Transactions of the branch that is left, from its head down, that the new one lacks.
Reinject(old, new) ==
  LET common   == Number(CommonBlock(old, new))
      blocks   == [i \in 1 .. Number(old) - common |-> old[Number(old) + 1 - i].txs]
      included == UNION {ToSet(new[i].txs) : i \in common + 1 .. Number(new)}
      depth    == IF Number(old) > Number(new) THEN Number(old) - Number(new)
                                               ELSE Number(new) - Number(old)
  IN  IF old = Parent(new) \/ depth > maxDepth THEN << >>
      ELSE SelectSeq(FlattenSeq(blocks), LAMBDA t : t \notin included)

Reset(p, old, new) ==
  addTxsLocked([p EXCEPT !.head = new, !.nonces = [a \in Accounts |-> GetNonce(new, a)]],
               Reinject(old, new), FALSE)

promoteTx(r, t) ==
  IF Fits(r.p.pending, t)
    THEN [p        |-> [ListAdd(r.p, "pending", t) EXCEPT !.nonces[t.from] = t.nonce + 1],
          promoted |-> r.promoted \cup {t}]
    ELSE [r EXCEPT !.p = Removed(AllRemove(@, {t}), 1)]

promoteExecutables(r, a) ==
  LET mine  == Of(r.p.queue, a)
      gone  == {t \in mine : t.nonce < GetNonce(r.p.head, a) \/ t.cost > GetBalance(r.p.head, a)}
      ready == Ready(mine \ gone, r.p.nonces[a])
      left  == mine \ (gone \cup ready)
      caps  == IF a \in r.p.locals THEN {} ELSE left \ Lowest(left, AccountQueue)
      s     == FoldLeft(promoteTx,
                 [r EXCEPT !.p = AllRemove([@ EXCEPT !.queue = @ \ (gone \cup ready)], gone)],
                 ByNonce(ready))
  IN  IF mine = {} THEN r
      ELSE [s EXCEPT !.p = Removed(AllRemove([@ EXCEPT !.queue = @ \ caps], caps),
                                   Cardinality(gone \cup caps))]

demoteUnexecutables(p, a) ==
  LET mine     == Of(p.pending, a)
      nonce    == GetNonce(p.head, a)
      olds     == {t \in mine : t.nonce < nonce}
      drops    == {t \in mine \ olds : t.cost > GetBalance(p.head, a)}
      invalids == {t \in mine \ drops : \E u \in drops : t.nonce > u.nonce}
      left     == mine \ (olds \cup drops \cup invalids)
      gapped   == IF \E t \in left : t.nonce = nonce THEN {} ELSE left
      q        == Removed(AllRemove([p EXCEPT !.pending = (@ \ mine) \cup (left \ gapped)],
                                    olds \cup drops), Cardinality(olds \cup drops))
  IN  Demoted(Demoted(q, invalids), gapped)

\* Every account of the group gives up one transaction, until there are few enough or who
\* is down to the floor.
RECURSIVE shave(_, _, _, _)
shave(len, group, who, floor) ==
  IF MapThenSumSet(LAMBDA a : len[a], Accounts) <= GlobalSlots \/ len[who] <= floor THEN len
  ELSE shave([a \in Accounts |-> IF a \in group THEN len[a] - 1 ELSE len[a]], group, who, floor)

\* The largest accounts are brought down to the size of the next largest, one after another.
RECURSIVE equalise(_, _, _)
equalise(len, offenders, spammers) ==
  IF MapThenSumSet(LAMBDA a : len[a], Accounts) <= GlobalSlots \/ spammers = {}
    THEN IF offenders = << >> THEN len
         ELSE shave(len, ToSet(offenders), Last(offenders), AccountSlots)
    ELSE LET next == CHOOSE a \in spammers : \A b \in spammers : len[a] >= len[b]
         IN  equalise(IF offenders = << >> THEN len
                      ELSE shave(len, ToSet(offenders), Last(offenders), len[next]),
                      Append(offenders, next), spammers \ {next})

Spammers(p, len) == {a \in Accounts \ p.locals : len[a] > AccountSlots}

truncatePending(p) ==
  LET len      == [a \in Accounts |-> Cardinality(Of(p.pending, a))]
      kept     == equalise(len, << >>, Spammers(p, len))
      caps     == UNION {Of(p.pending, a) \ Lowest(Of(p.pending, a), kept[a]) : a \in Accounts}
      drop(q, t) == setIfLower(Removed(AllRemove([q EXCEPT !.pending = @ \ {t}], {t}), 1),
                               t.from, t.nonce)
  IN  IF Cardinality(p.pending) <= GlobalSlots THEN p ELSE FoldLeft(drop, p, SetToSeq(caps))

\* Slip: the queues are cut at the limit of one account.
truncateQueueEach(p, order) ==
  LET cut(q, a) == RemoveAll(q, ByNonce(Of(q.queue, a) \ Lowest(Of(q.queue, a), GlobalQueue)), TRUE)
  IN  FoldLeft(cut, p, order)

\* The queues are cut in the order of accounts, each from its highest nonce on.
truncateQueue(p, order) ==
  LET cut(q, a) ==
        LET n    == Cardinality(q.queue) - GlobalQueue
            mine == Of(q.queue, a)
            drop == IF n <= 0 THEN {} ELSE mine \ Lowest(mine, Cardinality(mine) - n)
        IN  RemoveAll(q, Reverse(ByNonce(drop)), TRUE)
  IN  FoldLeft(cut, p, order)

-----------------------------------------------------------------------------
(***************************************************************************)
(* Threads                                                                 *)
(***************************************************************************)

Journal(new) == journal' = journal \cup new /\ saved' = saved \cup new

\* AddLocals, AddRemotes: the transactions that are new are added under the lock ...
AddTxs(i, txs, local) ==
  /\ adder[i] = << >> /\ ~(ToSet(txs) \subseteq All(pool)) /\ adds < MaxAdds
  /\ \E r \in {addTxsLocked(pool, SelectSeq(txs, LAMBDA t : t \notin All(pool)), local)} :
     /\ pool' = r.p
     /\ adder' = [adder EXCEPT ![i] = <<r.dirty>>]
     /\ queuedEvents' = queueTxEvents(queuedEvents, r.events)
     /\ Journal(r.journal)
  /\ adds' = adds + 1
  /\ UNCHANGED <<head, reset, dirty, launchNextRun, run, told, heads, restarts>>

\* ... and then a run is asked for.
RequestPromote(i) ==
  /\ adder[i] # << >>
  /\ dirty' = dirty \cup adder[i][1]
  /\ launchNextRun' = TRUE
  /\ adder' = [adder EXCEPT ![i] = << >>]
  /\ UNCHANGED <<pool, journal, head, reset, queuedEvents, run, told, saved, bounds>>

\* The event loop hears of a new head and asks for a reset.
HeadEvent(b) ==
  /\ b # head /\ heads < MaxHeads
  /\ reset' = <<IF reset = << >> THEN head ELSE reset[1], b>>
  /\ head' = b /\ launchNextRun' = TRUE /\ heads' = heads + 1
  /\ UNCHANGED <<pool, journal, adder, dirty, queuedEvents, run, told, saved, adds, restarts>>

\* scheduleReorgLoop starts the next run.
Launch ==
  /\ run = << >> /\ launchNextRun
  /\ run' = <<[reset |-> reset, dirty |-> dirty, events |-> queuedEvents, sending |-> FALSE]>>
  /\ reset' = << >> /\ dirty' = {} /\ launchNextRun' = FALSE /\ queuedEvents' = {}
  /\ UNCHANGED <<pool, journal, adder, head, told, saved, bounds>>

\* The accounts that are promoted: at a reset all that have a queue.
PromoteAddrs(p) == IF run[1].reset = << >> THEN run[1].dirty ELSE {t.from : t \in p.queue}

\* Slip: a reset forgets the events that were queued.
NoEvents(p) == IF run[1].reset = << >> THEN run[1].events ELSE {}

\* The queued events that a reset leaves.
LiveEvents(p) ==
  IF run[1].reset = << >> THEN run[1].events
  ELSE {e \in run[1].events : e.nonce >= p.nonces[e.from]}

AllReset ==
  IF run[1].reset = << >> THEN addTxsLocked(pool, << >>, FALSE)
  ELSE Reset(pool, run[1].reset[1], run[1].reset[2])

AllPromoted(p) ==
  FoldLeft(promoteExecutables, [p |-> p, promoted |-> {}], SetToSeq(PromoteAddrs(p)))

AllDemoted(p) ==
  IF run[1].reset = << >> THEN p
  ELSE FoldLeft(demoteUnexecutables, p, SetToSeq({t.from : t \in p.pending}))

\* The virtual nonces follow the pending transactions.
SetNonces(p) ==
  [p EXCEPT !.nonces = [a \in Accounts |->
     IF Of(p.pending, a) = {} THEN @[a] ELSE Last(ByNonce(Of(p.pending, a))).nonce + 1]]

\* A run under the lock.
runReorg ==
  /\ run # << >> /\ ~run[1].sending
  /\ \E r \in {AllReset} : \E s \in {AllPromoted(r.p)} : \E d \in {truncatePending(AllDemoted(s.p))} :
       /\ \E order \in SetToSeqs({t.from : t \in d.queue} \ d.locals) :
            pool' = SetNonces(truncateQueue(d, order))
       /\ run' = <<[run[1] EXCEPT !.sending = TRUE,
                                  !.events = queueTxEvents(LiveEvents(r.p), s.promoted)]>>
       /\ queuedEvents' = queueTxEvents(queuedEvents, r.events)
       /\ Journal(r.journal)
  /\ UNCHANGED <<adder, head, reset, dirty, launchNextRun, told, bounds>>

\* The run sends its events and is done.
RunDone ==
  /\ run # << >> /\ run[1].sending
  /\ told' = (told \cup run[1].events) \cap All(pool)
  /\ run' = << >>
  /\ UNCHANGED <<pool, journal, adder, head, scheduled, saved, bounds>>

\* The queue of an account that has been idle for its lifetime is dropped.
Evict(a) ==
  /\ a \notin pool.locals /\ Of(pool.queue, a) # {}
  /\ pool' = RemoveAll(pool, ByNonce(Of(pool.queue, a)), TRUE)
  /\ UNCHANGED <<journal, adder, head, scheduled, run, told, saved, bounds>>

SetGasPrice(price) ==
  /\ price # pool.gasPrice
  /\ LET c == CapPrice(pool, price) IN
     pool' = [RemoveAll(c.p, c.drop, FALSE) EXCEPT !.gasPrice = price]
  /\ UNCHANGED <<journal, adder, head, scheduled, run, told, saved, bounds>>

\* Slip: only what is pending.
localPending(p) == {t \in p.pending : t.from \in p.locals}

\* The transactions of local accounts.
local(p) == {t \in p.pending \cup p.queue : t.from \in p.locals}

Rotate ==
  /\ journal # local(pool) /\ journal' = local(pool)
  /\ UNCHANGED <<pool, adder, head, scheduled, run, told, saved, bounds>>

\* The node goes down and NewTxPool loads the journal.
Restart ==
  /\ restarts < MaxRestarts
  /\ \E r \in {addTxsLocked(EmptyPool(head), ByNonce(journal), TRUE)} :
     /\ pool' = r.p /\ journal' = local(r.p)
     /\ dirty' = r.dirty /\ launchNextRun' = (journal # {}) /\ queuedEvents' = r.events
  /\ adder' = [i \in Adders |-> << >>] /\ reset' = << >> /\ run' = << >> /\ told' = {}
  /\ restarts' = restarts + 1
  /\ UNCHANGED <<head, saved, adds, heads>>

Next ==
  \/ \E i \in Adders : \/ RequestPromote(i)
                       \/ \E txs \in Batches : AddTxs(i, txs, FALSE)
                       \/ \E txs \in LocalBatches : AddTxs(i, txs, TRUE)
  \/ \E b \in Tree : HeadEvent(b)
  \/ Launch \/ runReorg \/ RunDone
  \/ \E a \in Accounts : Evict(a)
  \/ \E price \in Prices : SetGasPrice(price)
  \/ Rotate \/ Restart

Spec == Init /\ [][Next]_vars

-----------------------------------------------------------------------------
(***************************************************************************)
(* Properties                                                              *)
(***************************************************************************)

\* Types; the counter of stale entries of the price heap never falls below zero.
TypeOK ==
  /\ pool.pending \cup pool.queue \cup All(pool) \cup ToSet(pool.heap) \subseteq Txs
  /\ pool.locals \subseteq Accounts /\ pool.nonces \in [Accounts -> Nat] /\ pool.head \in Tree
  /\ journal \cup told \cup saved \cup queuedEvents \subseteq Txs
  /\ pool.stales \in Nat /\ head \in Tree /\ dirty \subseteq Accounts /\ launchNextRun \in BOOLEAN

\* Every transaction of the lookup is in exactly one of the two lists, the lists have no
\* other, and no two have the same sender and nonce: each path of promotion, demotion,
\* replacement and eviction keeps pool.all in step with pool.pending and pool.queue.
AllExact ==
  /\ All(pool) = pool.pending \cup pool.queue /\ pool.local \cap pool.remote = {}
  /\ \A t \in All(pool) : At(All(pool), t) = {t}
  /\ pool.pending \cap pool.queue = {}

\* The pending transactions of an account have exactly the nonces from the state's up to
\* the virtual nonce that Nonce() returns to users: no gap and nothing beyond it, also
\* while an adder waits for its run and after eviction from the middle of a list.
NoncesRight ==
  \A a \in Accounts :
    {t.nonce : t \in Of(pool.pending, a)} = GetNonce(pool.head, a) .. pool.nonces[a] - 1

\* No run is active or due.
Quiet == run = << >> /\ ~launchNextRun /\ \A i \in Adders : adder[i] = << >>

\* Once all runs are over, no queued transaction has the nonce of the state: whatever
\* resets and additions came in between, the next transaction of an account is pending.
NextIsPending ==
  Quiet => \A t \in pool.queue : t.nonce # GetNonce(pool.head, t.from)

\* What is pending can be executed, without a gap, and what could be next is pending.
PendingRight == NoncesRight /\ NextIsPending

\* A pending transaction was sent to the subscribers, or is in the events of the active
\* run, or is queued for a run that is due: none waits for a run nobody asked for, and a
\* reset forgets none.
Announced ==
  LET due == launchNextRun \/ \E i \in Adders : adder[i] # << >>
  IN  pool.pending \subseteq told \cup (IF run = << >> THEN {} ELSE run[1].events)
                                  \cup (IF due THEN queuedEvents ELSE {})

\* Every remote transaction is in the price heap, so that Discard and SetGasPrice find it,
\* and the entries that are not are at most what the counter of stale entries says.
PricedRight ==
  /\ pool.remote \subseteq ToSet(pool.heap)
  /\ Len(pool.heap) - Cardinality(pool.remote) <= pool.stales

\* The remote transactions are never more than the global limits together, between runs too.
RemoteBounded == Cardinality(pool.remote) <= Limit

\* The four structures that repeat the transactions agree, within the limits.
ListsAgree == TypeOK /\ AllExact /\ PricedRight /\ RemoteBounded

\* A transaction of a local account leaves the pool only by a block, for lack of funds or
\* for one of the same nonce: no limit, price or eviction drops it, and over a restart the
\* journal brings it back if it was written, whenever the journal was rotated.
LocalsKept ==
  [][LET kept == IF restarts' = restarts THEN {t \in pool.local : t.from \in pool.locals}
                                         ELSE local(pool) \cap saved
     IN  \A t \in kept : \/ At(All(pool'), t) # {}
                         \/ t.nonce < GetNonce(pool'.head, t.from)
                         \/ t.cost > GetBalance(pool'.head, t.from)]_vars

Ran == run # << >> /\ run' # << >> /\ run'[1].sending /\ ~run[1].sending

\* A run leaves the pool within its limits: the pending transactions unless no remote
\* account has more than its guaranteed slots, the queue unless only local ones are left.
RunBounds ==
  [][Ran =>
       /\ \/ Cardinality(pool'.pending) <= GlobalSlots
          \/ \A a \in Accounts \ pool'.locals : Cardinality(Of(pool'.pending, a)) <= AccountSlots
       /\ \/ Cardinality(pool'.queue) <= GlobalQueue
          \/ \A t \in pool'.queue : t.from \in pool'.locals]_vars

=============================================================================
