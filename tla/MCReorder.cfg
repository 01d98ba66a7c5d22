CONSTANTS
  NumItems = 4
  NumTxn = 0
  MaxLen = 4
  MaxCount = 3
  Counts <- MCCounts
SPECIFICATION SortSpec
INVARIANTS
  SortTypeOK
  ReadsInRange
  SortsInput
PROPERTIES
  Termination
CHECK_DEADLOCK FALSE
