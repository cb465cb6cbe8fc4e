CONSTANTS
  Systems <- MCSystems
  Main <- MCMain
  Dirs <- MCDirs
  MaxParses = 2
  v1 = v1
  Asgs <- MCAsgs
  Parsed <- MCParsed
  Vals <- MCVals
  MaxOps = 3
SPECIFICATION GrammarsSpec
INVARIANTS
  AssemblesTheClosure
  VerifierAgrees
  HoldsItsFiles
PROPERTIES
  LinksHold
  ScriptsRunAsWritten
  ImplementsUpstream
CHECK_DEADLOCK FALSE
