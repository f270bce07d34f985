CONSTANTS
  Accounts = {"a", "b"}
  Txs <- MCTxs
  Batches <- MCBatches
  LocalBatches <- MCLocalBatches
  Tree <- MCTree
  PriceBump = 10
  AccountSlots = 1
  GlobalSlots = 3
  AccountQueue = 1
  GlobalQueue = 1
  maxDepth = 1
  Prices = {2}
  Adders = {1}
  MaxAdds = 3
  MaxHeads = 2
  MaxRestarts = 1
SPECIFICATION Spec
INVARIANTS
  ListsAgree
  PendingRight
  Announced
PROPERTIES
  LocalsKept
  RunBounds
CHECK_DEADLOCK FALSE
