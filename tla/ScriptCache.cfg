SPECIFICATION Spec
CONSTANTS
  Procs = {p, q}
  Builds = {"old", "new"}
  Codes = {"rich", "text", "forward"}
  Grammars <- MCGrammars
  NumCPU = 2
  Emits <- MCEmits
  Size <- MCSize
  Readable <- MCReadable
  Unreadable <- MCUnreadable
  MaxStarts = 1
  MaxCuts = 1
  CutPoints = {1}
INVARIANTS
  RunsWhatItsBuildEmits
PROPERTIES
  WorkEnds
CHECK_DEADLOCK FALSE
