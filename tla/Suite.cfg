CONSTANTS
  WorldSize = 3
  MaxThreads = 1
  TagUb = 32767
  Selections <- UsualSelections
SPECIFICATION FairSpec
INVARIANTS
  TypeOK
  NoFalseFailure
  NothingLeft
PROPERTIES
  Completes
