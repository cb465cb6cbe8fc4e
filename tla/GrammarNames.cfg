CONSTANTS
  Systems <- MCSystems
  Main <- MCMain
  Dirs <- MCDirs
  MaxParses = 1
  v1 = v1
  Asgs <- MCAsgs
  Parsed <- MCParsed
  Vals <- MCVals
  MaxOps = 0
SPECIFICATION GrammarsSpec
INVARIANTS
  CommandsReachTheirNames
CHECK_DEADLOCK FALSE
