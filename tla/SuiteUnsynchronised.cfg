CONSTANTS
  WorldSize = 3
  MaxThreads = 1
  TagUb = 32767
  Selections <- UnsynchronisedSelections
SPECIFICATION Spec
INVARIANTS
  NoFalseFailure
