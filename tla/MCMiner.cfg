CONSTANTS
  NumItems = 4
  NumTxn = 3
  Databases <- MCDatabases
  Supports <- MCSupports
  MaxLevels <- MCMaxLevels
SPECIFICATION HSpec
INVARIANTS
  TypeOK
  WalkDefined
  CacheExact
  LinesOrdered
PROPERTIES
  Implements
  Termination
CHECK_DEADLOCK FALSE
