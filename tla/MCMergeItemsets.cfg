CONSTANTS
  NumItems = 4
  NumTxn = 3
  Databases <- MCDatabases
  Supports <- MCSupports
  Parts <- MCParts
  StartLevels <- MCStartLevels
SPECIFICATION Spec
INVARIANTS
  TypeOK
  MergeSound
  MergeComplete
  CrossLevelExact
  MergeGeneratedOnce
PROPERTIES
  Termination
CHECK_DEADLOCK FALSE
