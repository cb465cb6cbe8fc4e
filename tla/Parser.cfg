SPECIFICATION HistSpec
CONSTANTS
  Cases <- MCCases
  MaxDepth = 30
  LinkDepth = 6
INVARIANTS
  TypeOK
  FailureGivesBack
  BlockListIsExact
  MeansTheGrammar
PROPERTIES
  MemosAreSound
  Terminates
CHECK_DEADLOCK FALSE
