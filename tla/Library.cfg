CONSTANTS
  Keys <- MCKeys
  Beginnings <- MCBeginnings
  MethodCalls <- MCMethodCalls
  Calls <- MCRegexCalls
  Exhausting <- MCExhausting
  StepLimit = 1500
SPECIFICATION MCSpec
INVARIANTS
  RegexesMatch
PROPERTIES
  DictionariesAreMaps
  MethodsMeanTheirNames
  BlocksSeeMembers
CHECK_DEADLOCK FALSE
