SPECIFICATION HistSpec
CONSTANTS
  Cases <- LeftRecursive
  MaxDepth = 30
  LinkDepth = 6
PROPERTIES
  FoundListIsPure
CHECK_DEADLOCK FALSE
