CONSTANTS
  NumItems = 4
  NumTxn = 3
  Databases <- MCDatabases
  Supports <- MCSupports
  MaxLevels <- MCMaxLevels
SPECIFICATION Spec
INVARIANTS
  TypeOK
  Soundness
  Completeness
  LevelExact
  GeneratedOnce
PROPERTIES
  KeepsPromise
  Termination
CHECK_DEADLOCK FALSE
