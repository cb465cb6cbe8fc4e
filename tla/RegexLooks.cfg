CONSTANTS
  Calls <- MCLookingCalls
  Exhausting <- MCExhausting
  StepLimit = 1500
SPECIFICATION RegexSpec
INVARIANTS
  WritesAreUndone
CHECK_DEADLOCK FALSE
