CONSTANTS
  Tree <- MCTree
  Local <- MCLocal
  triesInMemory = 2
  MaxImports = 4
  MaxCrashes = 1
  MaxRewinds = 1
SPECIFICATION Spec
INVARIANTS
  CanonIsHeadsBranch
  TxsIndexed
  HeadRight
PROPERTIES
  HeadMovesRight
CHECK_DEADLOCK FALSE
