-------------------------------- MODULE Miner --------------------------------
(***************************************************************************)
(* How a validator makes blocks: the goroutines of miner/miner.go and      *)
(* miner/worker.go, and the one that Parlia's Seal starts for each task.   *)
(*                                                                         *)
(*   update       starts and stops the worker, also around a sync          *)
(*   newWorkLoop  asks for new work at a new head, at a start, by timer    *)
(*   mainLoop     fills and assembles a block                              *)
(*   taskLoop     hands it to Seal and aborts the one before               *)
(*   Seal         waits for the slot and delivers the sealed block         *)
(*   resultLoop   writes the sealed block to the chain                     *)
(*                                                                         *)
(* A work is a block as mainLoop prepares it; it stands for its seal hash. *)
(* Block times are left out: works on the same parent that execute the     *)
(* same transactions are the same work.                                    *)
(* External: the chain, the transaction pool (a count of transactions in   *)
(* the order in which they are mined), the user, the downloader.           *)
(***************************************************************************)
EXTENDS ForkChoice

CONSTANTS
  Keys,                    \* the accounts that the user seals with
  Validators,              \* those that are validators
  Limit,                   \* blocks until a validator may sign again
  OwnTurn,                 \* numbers at which the node is the in-turn validator
  resubmitAdjustChanSize,  \* adjustments of the timer that the channel holds
  resultQueueSize,         \* sealed blocks that the channel holds
  staleThreshold,          \* blocks after which a task is forgotten
  MaxNumber, MaxOwn, MaxOthers, MaxTxs, MaxUserOps  \* bounds

None == "none"
Other == "other"  \* the other validators

ASSUME MinerAssumption ==
  /\ Validators \subseteq Keys /\ Validators # {} /\ None \notin Keys /\ Other \notin Keys
  /\ {Limit, resubmitAdjustChanSize, resultQueueSize, staleThreshold} \subseteq Nat \ {0}

VARIABLES
  running,              \* worker.running
  canStart, shouldStart, listening,  \* Miner.update: its flags, its subscription
  startCh,              \* starts that newWorkLoop has not seen
  startReq,             \* a Miner.Start that update has not received
  val,                  \* Parlia.val
  headCh,               \* head events that newWorkLoop has not seen
  nwLoop,               \* newWorkLoop: where it is
  pool, txsCh, newTxs,  \* transactions: all, in events not seen, new ones
  mainLoop, interrupt,  \* mainLoop: where it is, the signal to it
  current,              \* its environment
  adjustCh,             \* resubmitAdjustCh: how many it holds
  taskCh, prev, pendingTasks,  \* taskLoop
  seals, resultCh,      \* goroutines of Seal, their results
  blocks, head, highestVerified,   \* the chain
  ops, wrong, lost, rekeyed, stopped  \* history, for the bounds and the properties

update   == <<running, canStart, shouldStart, listening, startReq>>
work     == <<mainLoop, interrupt, current, adjustCh>>
txs      == <<pool, txsCh, newTxs>>
tasks    == <<taskCh, prev, pendingTasks>>
sealing  == <<seals, resultCh>>
chain    == <<blocks, head, headCh, highestVerified>>
history  == <<ops, wrong, lost, rekeyed, stopped>>
vars     == <<update, startCh, val, nwLoop, work, txs, tasks, sealing, chain, history>>

\* The number of the last transaction executed in block b or before.
Executed(b) == IF b = << >> THEN 0 ELSE Header(b).txs

\* Whether k signed one of the blocks from..to before block b's child.
Signed(b, k, from, to) ==
  \E n \in 1 .. Number(b) : from <= n /\ n <= to /\ b[n].signer = k

\* What Seal requires of the key, on parent b.
MaySeal(b, k) ==
  k \in Validators /\ ~Signed(b, k, Number(b) + 2 - Limit, Number(b))

\* It asks for the snapshot of the parent's parent.
SignRecently(b, k) == Signed(b, k, Number(b) + 2 - Limit, Number(b) - 1)

Difficulty(n, k) == IF k \in Validators /\ n \in OwnTurn THEN 2 ELSE 1

NoWork == [block |-> << >>, passes |-> 0, shared |-> FALSE]

Init ==
  /\ running = FALSE /\ canStart = TRUE
  /\ shouldStart = FALSE /\ listening = TRUE
  /\ startCh = 0 /\ startReq = TRUE /\ val = CHOOSE k \in Validators : TRUE
  /\ headCh = << >> /\ nwLoop = "select"
  /\ pool = 0 /\ txsCh = 0 /\ newTxs = FALSE
  /\ mainLoop = "select" /\ interrupt = None /\ current = NoWork /\ adjustCh = 0
  /\ taskCh = << >> /\ prev = << >> /\ pendingTasks = {}
  /\ seals = {} /\ resultCh = << >>
  /\ blocks = {<< >>} /\ head = << >> /\ highestVerified = << >>
  /\ ops = 0 /\ wrong = FALSE /\ lost = FALSE /\ rekeyed = FALSE /\ stopped = FALSE

-----------------------------------------------------------------------------
(***************************************************************************)
(* The user, the downloader and update                                     *)
(***************************************************************************)

\* worker.start.  The channel holds one start; a second one makes update wait.
WorkerStart == running' = TRUE /\ startCh' = startCh + 1

WorkerStop ==
  /\ running' = FALSE
  /\ stopped' = (stopped \/ running)

\* Ethereum.StartMining, which leaves a node that mines alone.
StartMining(k) ==
  /\ ~running /\ ~startReq /\ ops < MaxUserOps
  /\ val' = k
  /\ rekeyed' = (rekeyed \/ (k # val /\ (mainLoop # "select" \/ taskCh # << >>)))
  /\ startReq' = TRUE /\ ops' = ops + 1
  /\ UNCHANGED <<running, canStart, shouldStart, listening, startCh, nwLoop,
                 work, txs, tasks, sealing, chain, wrong, lost, stopped>>

UpdateStart ==
  /\ startCh < 2 /\ startReq
  /\ IF canStart THEN WorkerStart ELSE UNCHANGED <<running, startCh>>
  /\ shouldStart' = TRUE /\ startReq' = FALSE
  /\ UNCHANGED <<canStart, listening, val, nwLoop, work, txs, tasks, sealing,
                 chain, history>>

UpdateStop ==
  /\ startCh < 2 /\ ops < MaxUserOps
  /\ WorkerStop
  /\ shouldStart' = FALSE /\ ops' = ops + 1
  /\ UNCHANGED <<canStart, listening, startReq, startCh, val, nwLoop, work, txs, tasks,
                 sealing, chain, wrong, lost, rekeyed>>

SyncStart ==
  /\ startCh < 2 /\ listening /\ ops + 2 <= MaxUserOps
  /\ WorkerStop
  /\ canStart' = FALSE
  /\ shouldStart' = (shouldStart \/ running)
  /\ ops' = ops + 2
  /\ UNCHANGED <<listening, startReq, startCh, val, nwLoop, work, txs, tasks, sealing,
                 chain, wrong, lost, rekeyed>>

\* Done ends the subscription, Failed does not.
SyncEnd(ev) ==
  /\ startCh < 2 /\ listening /\ ~canStart
  /\ canStart' = TRUE
  /\ IF shouldStart THEN WorkerStart ELSE UNCHANGED <<running, startCh>>
  /\ listening' = (ev # "done")
  /\ UNCHANGED <<shouldStart, startReq, val, nwLoop, work, txs, tasks, sealing,
                 chain, history>>

-----------------------------------------------------------------------------
(***************************************************************************)
(* newWorkLoop                                                             *)
(***************************************************************************)

\* commit: the signal goes to the work under way; then the loop waits for mainLoop.
commit(signal) ==
  /\ interrupt' = IF mainLoop = "select" THEN interrupt ELSE signal
  /\ nwLoop' = "send"
  /\ UNCHANGED <<mainLoop, current, adjustCh>>

clearPending(number) ==
  pendingTasks' = {t \in pendingTasks : Number(t.block) + staleThreshold > number}


NewWorkStart ==
  /\ nwLoop = "select" /\ startCh > 0
  /\ startCh' = startCh - 1
  /\ clearPending(Number(head))
  /\ commit("newHead")
  /\ UNCHANGED <<update, val, txs, taskCh, prev, sealing, chain, history>>

NewWorkHead ==
  /\ nwLoop = "select" /\ headCh # << >>
  /\ headCh' = Tail(headCh)
  /\ IF running THEN clearPending(Number(Head(headCh))) ELSE UNCHANGED pendingTasks
  /\ IF running /\ val \in Validators /\ ~SignRecently(Head(headCh), val)
       THEN commit("newHead") ELSE UNCHANGED <<nwLoop, work>>
  /\ UNCHANGED <<update, startCh, val, txs, taskCh, prev, sealing, blocks, head,
                 highestVerified, history>>

\* The timer, which runs whenever the worker does.
NewWorkTimer ==
  /\ nwLoop = "select" /\ running /\ newTxs
  /\ commit("resubmit")
  /\ UNCHANGED <<update, startCh, val, txs, tasks, sealing, chain, history>>

NewWorkAdjust ==
  /\ nwLoop = "select" /\ adjustCh > 0
  /\ adjustCh' = adjustCh - 1
  /\ UNCHANGED <<update, startCh, val, nwLoop, mainLoop, interrupt, current, txs, tasks,
                 sealing, chain, history>>

-----------------------------------------------------------------------------
(***************************************************************************)
(* mainLoop                                                                *)
(***************************************************************************)

\* The header of b's child: its coinbase is the engine's key.
Prepare(b) ==
  [coinbase |-> val, signer |-> None, txs |-> Executed(b),
   difficulty |-> Difficulty(Number(b) + 1, val)]

\* commitNewWork up to the transactions.  These are applied in two passes, local ones first,
\* or in one when all are local or none is.
NewWork ==
  /\ nwLoop = "send" /\ mainLoop = "select" /\ Number(head) < MaxOwn
  /\ \E passes \in IF pool > Executed(head) THEN {1, 2} ELSE {0} :
       /\ current' = [block |-> Append(head, Prepare(head)), passes |-> passes,
                      shared |-> FALSE]
       /\ mainLoop' = IF passes = 0 THEN "commit" ELSE "fill"
  /\ interrupt' = None
  /\ nwLoop' = "select" /\ newTxs' = FALSE
  /\ UNCHANGED <<update, startCh, val, adjustCh, pool, txsCh, tasks, sealing, chain, history>>

\* A pass of commitTransactions ends when all are applied (gas and time suffice), or by an
\* interrupt for new transactions.  It goes on when the adjustment is sent.
Fill(n) ==
  /\ mainLoop = "fill" /\ interrupt # "newHead"
  /\ n \in Header(current.block).txs .. pool /\ (n = pool \/ interrupt = "resubmit")
  /\ current' = [current EXCEPT
       !.block = Append(Parent(@), [Header(@) EXCEPT !.txs = n]), !.passes = @ - 1]
  /\ mainLoop' = "adjust"
  /\ UNCHANGED <<update, startCh, val, nwLoop, interrupt, adjustCh, txs, tasks, sealing,
                 chain, history>>

\* An interrupt for a new head or a start discards the work.
Discard ==
  /\ mainLoop = "fill" /\ interrupt = "newHead"
  /\ mainLoop' = "select" /\ interrupt' = None
  /\ UNCHANGED <<update, startCh, val, nwLoop, current, adjustCh, txs, tasks, sealing,
                 chain, history>>

Adjust ==
  /\ mainLoop = "adjust" /\ adjustCh < resubmitAdjustChanSize
  /\ adjustCh' = adjustCh + 1
  /\ mainLoop' = IF current.passes > 0 THEN "fill" ELSE "commit"
  /\ UNCHANGED <<update, startCh, val, nwLoop, interrupt, current, txs, tasks, sealing,
                 chain, history>>

HasFees(b) == Header(b).txs > Executed(Parent(b))

\* worker.commit.  FinalizeAndAssemble distributes the fees with a transaction of the
\* coinbase, which fails when the engine has another key.
Commit ==
  /\ mainLoop = "commit"
  /\ IF running /\ (Header(current.block).coinbase = val \/ ~HasFees(current.block))
       THEN /\ taskCh = << >>
            /\ taskCh' = <<[block |-> current.block, dirty |-> FALSE]>>
            /\ current' = [current EXCEPT !.shared = TRUE]
       ELSE UNCHANGED <<taskCh, current>>
  /\ mainLoop' = "select" /\ interrupt' = None
  /\ UNCHANGED <<update, startCh, val, nwLoop, adjustCh, txs, prev, pendingTasks, sealing,
                 chain, history>>

\* Transactions are applied to the state of the environment, which is also the state of
\* the task made from it.
ApplyTxs ==
  IF taskCh # << >>
    THEN /\ taskCh' = [taskCh EXCEPT ![1].dirty = TRUE]
         /\ UNCHANGED pendingTasks
    ELSE /\ pendingTasks' = {[t EXCEPT !.dirty = @ \/ t.block = current.block] :
                               t \in pendingTasks}
         /\ UNCHANGED taskCh

\* Whether there is such a task, and the first transaction announced is not in it.
IsNew == current.shared /\ pool - txsCh >= Header(current.block).txs

\* Slip: they are applied while mining, too.
TxsAlways ==
  /\ mainLoop = "select" /\ txsCh > 0
  /\ IF IsNew THEN ApplyTxs ELSE UNCHANGED <<taskCh, pendingTasks>>
  /\ txsCh' = txsCh - 1 /\ newTxs' = TRUE
  /\ UNCHANGED <<update, startCh, val, nwLoop, work, pool, prev, sealing, chain, history>>

TxsEvent ==
  /\ mainLoop = "select" /\ txsCh > 0
  /\ IF ~running /\ IsNew THEN ApplyTxs ELSE UNCHANGED <<taskCh, pendingTasks>>
  /\ txsCh' = txsCh - 1 /\ newTxs' = TRUE
  /\ UNCHANGED <<update, startCh, val, nwLoop, work, pool, prev, sealing, chain, history>>

-----------------------------------------------------------------------------
(***************************************************************************)
(* taskLoop and Seal                                                       *)
(***************************************************************************)

\* Slip: the sealing of the task before goes on.
NoAbort(late) == seals

\* interrupt: the sealing goroutines end, but for those whose time has come, too: a select
\* with two channels ready takes either.
Abort(late) == {[s EXCEPT !.stop = TRUE] : s \in late}

\* A task with the seal hash of the one before is dropped.
TaskDrop ==
  /\ taskCh # << >> /\ taskCh[1].block = prev
  /\ taskCh' = << >>
  /\ current' = [current EXCEPT !.shared = FALSE]
  /\ UNCHANGED <<update, startCh, val, nwLoop, mainLoop, interrupt, adjustCh, txs, prev,
                 pendingTasks, sealing, chain, history>>

\* Any other aborts the sealing of the one before.  Seal reads the key again.
TaskSeal ==
  /\ taskCh # << >> /\ taskCh[1].block # prev
  /\ LET b == taskCh[1].block IN
     /\ prev' = b
     /\ pendingTasks' = {t \in pendingTasks : t.block # b} \cup {taskCh[1]}
     /\ \E late \in SUBSET seals :
          seals' = Abort(late) \cup
            (IF MaySeal(Parent(b), val)
             THEN {[block |-> b, key |-> val, backoff |-> FALSE, stop |-> FALSE]} ELSE {})
  /\ taskCh' = << >>
  /\ UNCHANGED <<update, startCh, val, nwLoop, work, txs, resultCh, chain, history>>

\* A block at the same height is being processed, or was.
shouldWaitForCurrentBlockProcess(b) ==
  /\ Header(b).difficulty # 2
  /\ highestVerified # << >> /\ Parent(b) = Parent(highestVerified)

\* The slot has come.
SealWait(s) ==
  /\ s \in seals /\ ~s.backoff /\ shouldWaitForCurrentBlockProcess(s.block)
  /\ seals' = (seals \ {s}) \cup {[s EXCEPT !.backoff = TRUE]}
  /\ UNCHANGED <<update, startCh, val, nwLoop, work, txs, tasks, resultCh, chain, history>>

\* The result is dropped when the channel is full.
SealDeliver(s) ==
  /\ s \in seals /\ (s.backoff \/ ~shouldWaitForCurrentBlockProcess(s.block))
  /\ seals' = seals \ {s}
  /\ resultCh' = IF Len(resultCh) = resultQueueSize THEN resultCh
                 ELSE Append(resultCh, Append(Parent(s.block),
                                              [Header(s.block) EXCEPT !.signer = s.key]))
  /\ UNCHANGED <<update, startCh, val, nwLoop, work, txs, tasks, chain, history>>

-----------------------------------------------------------------------------
(***************************************************************************)
(* resultLoop, and the chain and the pool around the miner                 *)
(***************************************************************************)

\* WriteBlockWithState: the head may move, and an event tells of it.
Write(b) ==
  /\ blocks' = blocks \cup {b}
  /\ \E r \in Reorg(b, head, head # << >> /\ Header(head).coinbase = val) :
       /\ head' = IF r THEN b ELSE head
       /\ headCh' = IF r THEN Append(headCh, b) ELSE headCh

\* The task of a sealed block.
TasksOf(b) == {t \in pendingTasks : t.block = Append(Parent(b), [Header(b) EXCEPT !.signer = None])}

Result ==
  /\ resultCh # << >>
  /\ resultCh' = Tail(resultCh)
  /\ LET b == resultCh[1] IN
     IF b \in blocks \/ TasksOf(b) = {}
       THEN /\ lost' = (lost \/ (b \notin blocks /\ \A c \in blocks :
                                   Number(b) + staleThreshold > Number(c)))
            /\ UNCHANGED <<blocks, head, headCh, wrong>>
       ELSE /\ Write(b)
            /\ wrong' = (wrong \/ \E t \in TasksOf(b) : t.dirty)
            /\ UNCHANGED lost
  /\ UNCHANGED <<update, startCh, val, nwLoop, work, txs, tasks, seals, highestVerified,
                 ops, rekeyed, stopped>>

\* External: another validator's block arrives, on the head or beside it.  Its header is
\* verified, then it is processed and written.
OtherBlock(b) ==
  [coinbase |-> Other, signer |-> Other, txs |-> Executed(b),
   difficulty |-> IF Number(b) + 1 \in OwnTurn THEN 1 ELSE 2]

Near(b) ==
  /\ Number(b) < MaxNumber /\ (b = head \/ (head # << >> /\ b = Parent(head)))
  /\ Cardinality({c \in blocks : c # << >> /\ Header(c).signer = Other}) < MaxOthers

Verify(b) ==
  /\ Near(b)
  /\ LET c == Append(b, OtherBlock(b)) IN
     /\ c \notin blocks /\ Td(c) > Td(highestVerified)
     /\ highestVerified' = c
  /\ UNCHANGED <<update, startCh, val, nwLoop, work, txs, tasks, sealing, blocks, head,
                 headCh, history>>

Import(b) ==
  /\ Near(b)
  /\ LET c == Append(b, OtherBlock(b)) IN
     /\ c \notin blocks /\ Td(c) <= Td(highestVerified)
     /\ Write(c)
  /\ UNCHANGED <<update, startCh, val, nwLoop, work, txs, tasks, sealing, highestVerified,
                 history>>

NewTx ==
  /\ pool < MaxTxs
  /\ pool' = pool + 1 /\ txsCh' = txsCh + 1
  /\ UNCHANGED <<update, startCh, val, nwLoop, work, newTxs, tasks, sealing, chain, history>>

Next ==
  \/ \E k \in Keys : StartMining(k)
  \/ UpdateStart \/ UpdateStop \/ SyncStart
  \/ \E ev \in {"done", "failed"} : SyncEnd(ev)
  \/ NewWorkStart \/ NewWorkHead \/ NewWorkTimer \/ NewWorkAdjust \/ NewWork
  \/ \E n \in 0 .. MaxTxs : Fill(n)
  \/ Discard \/ Adjust \/ Commit \/ TxsEvent
  \/ TaskDrop \/ TaskSeal
  \/ \E s \in seals : SealWait(s) \/ SealDeliver(s)
  \/ Result
  \/ \E b \in blocks : Verify(b) \/ Import(b)
  \/ NewTx

\* Every goroutine of the node goes on when it can.  A Go select takes one of the ready
\* cases at random, so that none of them is left out for ever.
Fairness ==
  /\ WF_vars(UpdateStart)
  /\ WF_vars(NewWorkStart) /\ WF_vars(NewWorkHead) /\ WF_vars(NewWorkAdjust)
  /\ WF_vars(NewWork)
  /\ WF_vars(\E n \in 0 .. MaxTxs : Fill(n))
  /\ WF_vars(Discard) /\ WF_vars(Adjust) /\ WF_vars(Commit)
  /\ WF_vars(TaskDrop) /\ WF_vars(TaskSeal)
  /\ WF_vars(\E s \in seals : SealWait(s) \/ SealDeliver(s))
  /\ WF_vars(Result)

Spec == Init /\ [][Next]_vars /\ Fairness

-----------------------------------------------------------------------------
(***************************************************************************)
(* Properties                                                              *)
(***************************************************************************)

\* The channels are within their sizes and the loops where they can be.
TypeOK ==
  /\ startCh \in 0 .. 2 /\ adjustCh \in 0 .. resubmitAdjustChanSize
  /\ Len(resultCh) <= resultQueueSize /\ Len(taskCh) <= 1
  /\ nwLoop \in {"select", "send"}
  /\ mainLoop \in {"select", "fill", "adjust", "commit"}
  /\ interrupt \in {None, "newHead", "resubmit"}
  /\ val \in Keys \cup {None} /\ head \in blocks

\* The worker runs exactly when the user has asked for it and no sync holds it back, over
\* any order of starts, stops and syncs (Miner.update).
RunningAsAsked == running = (shouldStart /\ canStart)

\* Only the task that was submitted last is still being sealed (taskLoop).
LatestSealing == \A s \in seals : s.stop \/ s.block = prev

\* The loops are in step: channels within their sizes, the worker running as asked, and
\* every sealing goroutine but that of the latest task told to stop.
LoopsRight == TypeOK /\ RunningAsAsked /\ LatestSealing

\* A block is written with the state it was assembled with, as long as the worker was not
\* stopped: one that is stopped applies transactions to a state that resultLoop commits.
BlockHasItsState == wrong => stopped

\* Every block of the node is signed by its coinbase, unless the key was changed between
\* Prepare and Seal: a node that verifies the block compares the two.
SignerIsCoinbase ==
  \A b \in blocks : b # << >> /\ Header(b).signer # Header(b).coinbase => rekeyed

\* A sealed block finds its task unless the chain is staleThreshold blocks past it
\* (clearPending, resultLoop).
NoResultLost == ~lost

\* What was assembled is what is written: with its own state, signed by its coinbase, and
\* not thrown away after it was sealed (commit, Seal, resultLoop).
WrittenRight == BlockHasItsState /\ SignerIsCoinbase /\ NoResultLost

\* newWorkLoop waits for mainLoop to take its work, and mainLoop for newWorkLoop to take
\* an adjustment.
Wedged ==
  nwLoop = "send" /\ mainLoop = "adjust" /\ adjustCh = resubmitAdjustChanSize


=============================================================================
