SPECIFICATION FairSpec
CONSTANTS
  Gen = {g1, g2}
  Val = {}
  Main = main
  Undef = undef
  GenExit = genexit
  None = none
  MainCap = 1
  CoroCap = 2
PROPERTIES
  ExceptionsArrive
  ClosesEnd
CHECK_DEADLOCK FALSE
