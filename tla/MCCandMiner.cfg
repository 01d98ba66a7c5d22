CONSTANTS
  NumItems = 4
  NumTxn = 3
  Databases <- MCDatabases
  Supports <- MCSupports
  MaxLevels <- MCMaxLevels
  FirstLevels <- MCFirstLevels
  Unset <- MCUnset
SPECIFICATION Spec
INVARIANTS
  TypeOK
  CandidatesExact
  FoundExact
  UndefinedOnly
PROPERTIES
  Termination
CHECK_DEADLOCK FALSE
