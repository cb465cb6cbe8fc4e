SPECIFICATION Spec
CONSTANTS
  Gen = {g1, g2}
  Val = {v1}
  Main = main
  Undef = undef
  GenExit = genexit
  None = none
  MainCap = 1
  CoroCap = 2
SYMMETRY Symmetry
INVARIANTS
  TypeOK
  SidesAlternate
  OwnsGlobals
  RootsAreSound
  FlagsAreForOneResume
PROPERTIES
  ImplementsProtocol
  ClausesAreTaken
CHECK_DEADLOCK FALSE
