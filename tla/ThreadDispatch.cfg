CONSTANTS
  N = 3
  Tests = 2
  MaxSpurious = 1
SPECIFICATION FairSpec
INVARIANTS
  TypeOK
  PhaseExclusion
  WorkingCounts
  NoDataRace
  NoLostWakeup
PROPERTIES
  ImplementsLockStep
  AllStepsExecuted
