CONSTANTS
  N = 2
  Tests = 2
  MaxSpurious = 1
  Partial = FALSE
  Untested = FALSE
SPECIFICATION ApiFairSpec
INVARIANTS
  PhaseExclusion
PROPERTIES
  ClientReturns
