SPECIFICATION Spec
CONSTANTS
  Gen = {g1, g2}
  Val = {v}
  Main = main
  Undef = undef
  GenExit = genExit
  None = none
  MaxFrames = 2
INVARIANTS
  OneRunsOnItsOwn
PROPERTIES
  ImplementsProtocol
CHECK_DEADLOCK FALSE
