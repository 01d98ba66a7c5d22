CONSTANTS
  NumItems = 13
  NumTxn = 1
  Databases <- MCOneLong
  Supports <- MCOne
SPECIFICATION Spec
INVARIANTS
  NumbersExact
CHECK_DEADLOCK FALSE
