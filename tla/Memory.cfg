SPECIFICATION MemorySpec
CONSTANTS
  Cells = {1, 2}
  Raws = {3, 4}
  CStack = stack
  Modes = {"auto", "off", "stress", "poison"}
  MinThresh = 1
  StackWords = 2
  BlockWords = 1
  Programs <- MCPrograms
  MaxSteps = 16
INVARIANTS
  SlotsAreSound
  KeepsWhatEscapes
  NothingPiles
PROPERTIES
  SweepsAllGarbage
  ImplementsHeap
  CollectionsEnd
CHECK_DEADLOCK FALSE
