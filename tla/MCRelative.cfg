CONSTANTS
  NumItems = 3
  NumTxn = 2
  Databases <- MCDatabases
  Supports <- MCNone
  Percents <- MCPercents
  Unset <- MCUnset
  Byte = 3
  Short = 4
  Word = 100
SPECIFICATION Spec
INVARIANTS
  SupportKnown
CHECK_DEADLOCK FALSE
