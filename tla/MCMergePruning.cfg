CONSTANTS
  NumItems = 4
  NumTxn = 3
  Databases <- MCDatabases
  Supports <- MCSupports
  Parts <- MCParts
  StartLevels <- MCStartLevels
SPECIFICATION Spec
INVARIANT SubsetsPresent
CHECK_DEADLOCK FALSE
