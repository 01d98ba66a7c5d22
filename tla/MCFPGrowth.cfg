CONSTANTS
  NumItems = 4
  NumTxn = 4
  Databases <- MCDatabases
  Supports <- MCSupports
SPECIFICATION Spec
INVARIANTS
  TypeOK
  TreesExact
  FoundExact
  NumbersExact
PROPERTIES
  Termination
CHECK_DEADLOCK FALSE
