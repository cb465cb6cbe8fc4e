SPECIFICATION RuntimeSpec
CONSTANTS
  Chan = {c1, c2}
  Panic = {p1, p2}
  None = none
  GoMenus <- MCGoMenus
  Plain = {v}
  Thenable = {t}
  Reason = {e}
  CycleError = cycle
  AggregateError = aggregate
  Undef = undef
  Record = record
  Names = {"all", "allSettled", "race", "any"}
  MaxElements = 2
  Menus <- MCMenus
INVARIANTS
  PanicsAreGos
  DrainsAreExact
  JobsAreInTheirPlace
  AsyncBodiesAreResumedOnce
  CombinatorsAreExact
CHECK_DEADLOCK FALSE
