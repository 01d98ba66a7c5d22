CONSTANTS
  NumItems = 4
  NumTxn = 4
  Databases <- MCDatabases
  Supports <- MCSupports
  Percents <- MCNone
  Unset <- MCNone
  Byte = 3
  Short = 4
  Word = 100
SPECIFICATION Spec
INVARIANTS
  TypeOK
  CountersExact
  PairsExact
CHECK_DEADLOCK FALSE
