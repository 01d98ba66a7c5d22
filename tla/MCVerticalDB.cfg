CONSTANTS
  NumItems = 3
  NumTxn = 4
  WordBits = 2
  Sparsity = 2
  Depth = 3
  Databases <- MCDatabases
  Supports <- MCSupports
SPECIFICATION Spec
INVARIANTS
  TypeOK
  ListsExact
  CountsExact
  PairFrequencyExact
CHECK_DEADLOCK FALSE
